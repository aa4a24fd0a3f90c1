---------------------------- MODULE RdfindProofs ----------------------------
(***************************************************************************)
(* Theorems about Rdfind, for any directory, any options, and any number   *)
(* of runs, failures, kills and changes by the user. Where the results     *)
(* file must not be taken for one of the files that are compared, they     *)
(* assume what is so by default, that empty files are ignored.             *)
(***************************************************************************)
EXTENDS Rdfind, FiniteSetTheorems, WellFoundedInduction, TLAPS

-----------------------------------------------------------------------------
(* Induction over the natural numbers, as a fact about sets.                *)
LEMMA LeastNumber ==
  ASSUME NEW T \in SUBSET Nat, T # {}
  PROVE  \E n \in T : \A m \in T : n <= m
<1> DEFINE R == OpToRel(<, Nat)
<1>1. IsWellFoundedOn(R, Nat)
  BY NatLessThanWellFounded
<1>2. \A m, n \in Nat : <<m, n>> \in R <=> m < n
  BY DEF OpToRel
<1> HIDE DEF R
<1>3. PICK n \in T : \A m \in T : ~ (<<m, n>> \in R)
  BY <1>1, WFMin
<1>4. ASSUME NEW m \in T
      PROVE  n <= m
  <2>1. m \in Nat /\ n \in Nat /\ ~ (<<m, n>> \in R)
    BY <1>3
  <2>2. ~(m < n)
    BY <1>2, <2>1
  <2> QED
    BY <2>1, <2>2
<1> QED
  BY <1>4

LEMMA Induction ==
  ASSUME NEW S, 0 \in S, \A n \in Nat : n \in S => n + 1 \in S
  PROVE  Nat \subseteq S
<1> SUFFICES ASSUME NEW k \in Nat, k \notin S
             PROVE  FALSE
  OBVIOUS
<1> DEFINE T == Nat \ S
<1>1. PICK n \in T : \A m \in T : n <= m
  BY LeastNumber
<1>2. n # 0 /\ n - 1 \in Nat /\ n - 1 \in S
  BY <1>1
<1> QED
  BY <1>2

-----------------------------------------------------------------------------
(* Sums over finite sets.                                                   *)

One(T) == CHOOSE x \in T : TRUE

(* f is what SumFunctionOnSet(w, S) defines by recursion *)
IsSum(f, w, S) ==
  f = [T \in SUBSET S |-> IF T = {} THEN 0 ELSE w[One(T)] + f[T \ {One(T)}]]

(* as far as sets of n elements *)
IsSumUpTo(n, f, w, S) ==
  \A T \in SUBSET S :
    Cardinality(T) <= n =>
      f[T] = IF T = {} THEN 0 ELSE w[One(T)] + f[T \ {One(T)}]

LEMMA OneLess ==
  ASSUME NEW S, IsFiniteSet(S), NEW T \in SUBSET S, NEW x \in T
  PROVE  /\ IsFiniteSet(T) /\ Cardinality(T) \in Nat /\ T \ {x} \in SUBSET S
         /\ Cardinality(T \ {x}) \in Nat /\ Cardinality(T) = Cardinality(T \ {x}) + 1
<1>1. IsFiniteSet(T)
  BY FS_Subset
<1>2. IsFiniteSet(T \ {x}) /\ Cardinality(T \ {x}) = Cardinality(T) - 1
  BY <1>1, FS_RemoveElement
<1>3. Cardinality(T) \in Nat /\ Cardinality(T \ {x}) \in Nat
  BY <1>1, <1>2, FS_CardinalityType
<1> QED
  BY <1>1, <1>2, <1>3

LEMMA SumExists ==
  ASSUME NEW w, NEW S, IsFiniteSet(S)
  PROVE  \E f : IsSum(f, w, S)
<1> DEFINE Good == {n \in Nat : \E f : IsSumUpTo(n, f, w, S)}
<1>1. 0 \in Good
  <2> DEFINE f == [T \in SUBSET S |-> 0]
  <2>1. ASSUME NEW T \in SUBSET S, Cardinality(T) <= 0
        PROVE  T = {}
    <3>1. IsFiniteSet(T)
      BY FS_Subset
    <3>2. Cardinality(T) = 0
      BY <2>1, <3>1, FS_CardinalityType
    <3> QED
      BY <3>1, <3>2, FS_EmptySet
  <2>2. IsSumUpTo(0, f, w, S)
    BY <2>1 DEF IsSumUpTo
  <2> QED
    BY <2>2
<1>2. ASSUME NEW n \in Nat, n \in Good
      PROVE  n + 1 \in Good
  <2>1. PICK f : IsSumUpTo(n, f, w, S)
    BY <1>2
  <2> DEFINE g == [T \in SUBSET S |->
                     IF Cardinality(T) = n + 1 THEN w[One(T)] + f[T \ {One(T)}] ELSE f[T]]
  <2>2. ASSUME NEW T \in SUBSET S, Cardinality(T) <= n + 1
        PROVE  g[T] = IF T = {} THEN 0 ELSE w[One(T)] + g[T \ {One(T)}]
    <3>1. CASE T = {}
      <4>1. Cardinality(T) = 0
        BY <3>1, FS_EmptySet
      <4>2. g[T] = f[T] /\ f[T] = 0
        BY <2>1, <3>1, <4>1 DEF IsSumUpTo
      <4> QED
        BY <3>1, <4>2
    <3>2. CASE T # {}
      <4>1. One(T) \in T
        BY <3>2 DEF One
      <4> DEFINE U == T \ {One(T)}
      <4>2. /\ U \in SUBSET S /\ Cardinality(U) \in Nat /\ Cardinality(T) \in Nat
            /\ Cardinality(T) = Cardinality(U) + 1
        BY <4>1, OneLess
      <4>3. Cardinality(U) # n + 1
        BY <2>2, <4>2
      <4>4. g[U] = f[U]
        BY <4>2, <4>3
      <4>5. g[T] = w[One(T)] + f[U]
        <5>1. CASE Cardinality(T) = n + 1
          BY <5>1
        <5>2. CASE Cardinality(T) # n + 1
          <6>1. Cardinality(T) <= n
            BY <2>2, <4>2, <5>2
          <6> QED
            BY <2>1, <3>2, <5>2, <6>1 DEF IsSumUpTo
        <5> QED
          BY <5>1, <5>2
      <4> QED
        BY <3>2, <4>4, <4>5
    <3> QED
      BY <3>1, <3>2
  <2>3. IsSumUpTo(n + 1, g, w, S)
    BY <2>2 DEF IsSumUpTo
  <2> QED
    BY <2>3
<1> HIDE DEF Good
<1>3. Nat \subseteq Good
  BY <1>1, <1>2, Induction
<1>4. Cardinality(S) \in Nat
  BY FS_CardinalityType
<1>5. PICK f : IsSumUpTo(Cardinality(S), f, w, S)
  BY <1>3, <1>4 DEF Good
<1> DEFINE g == [T \in SUBSET S |-> f[T]]
<1>6. ASSUME NEW T \in SUBSET S
      PROVE  g[T] = IF T = {} THEN 0 ELSE w[One(T)] + g[T \ {One(T)}]
  <2>1. Cardinality(T) <= Cardinality(S)
    BY FS_Subset
  <2> QED
    BY <1>5, <2>1 DEF IsSumUpTo
<1>7. g = [T \in SUBSET S |-> IF T = {} THEN 0 ELSE w[One(T)] + g[T \ {One(T)}]]
  BY <1>6
<1> QED
  BY <1>7 DEF IsSum

LEMMA SumIs ==
  ASSUME NEW w, NEW S, IsFiniteSet(S)
  PROVE  \E f : IsSum(f, w, S) /\ SumFunctionOnSet(w, S) = f[S]
<1> DEFINE f == CHOOSE f : IsSum(f, w, S)
<1>1. IsSum(f, w, S)
  BY SumExists
<1>2. SumFunctionOnSet(w, S) = f[S]
  BY DEF SumFunctionOnSet, FoldFunctionOnSet, MapThenFoldSet, IsSum, One
<1> QED
  BY <1>1, <1>2

(* The recursion for one set gives the sums of its subsets, and sums of     *)
(* functions that agree on a set are equal.                                 *)
LEMMA SumsAgree ==
  ASSUME NEW v, NEW w, NEW S, IsFiniteSet(S), NEW T \in SUBSET S,
         \A x \in T : v[x] = w[x],
         NEW f, IsSum(f, v, S), NEW g, IsSum(g, w, T)
  PROVE  f[T] = g[T]
<1> DEFINE Good == {n \in Nat : \A U \in SUBSET T : Cardinality(U) = n => f[U] = g[U]}
<1>1. IsFiniteSet(T)
  BY FS_Subset
<1>2. 0 \in Good
  <2>1. ASSUME NEW U \in SUBSET T, Cardinality(U) = 0
        PROVE  f[U] = g[U]
    <3> IsFiniteSet(U)
      BY <1>1, FS_Subset
    <3>1. U = {}
      BY <2>1, FS_EmptySet
    <3>2. f[U] = 0 /\ g[U] = 0
      BY <3>1 DEF IsSum
    <3> QED
      BY <3>2
  <2> QED
    BY <2>1
<1>3. ASSUME NEW n \in Nat, n \in Good
      PROVE  n + 1 \in Good
  <2>1. ASSUME NEW U \in SUBSET T, Cardinality(U) = n + 1
        PROVE  f[U] = g[U]
    <3>1. U # {}
      BY <2>1, FS_EmptySet
    <3> DEFINE x == One(U)
    <3>2. x \in U
      BY <3>1 DEF One
    <3> HIDE DEF x
    <3>3. U \ {x} \in SUBSET T /\ Cardinality(U \ {x}) = n
      <4>1. /\ U \ {x} \in SUBSET T /\ Cardinality(U \ {x}) \in Nat
            /\ Cardinality(U) = Cardinality(U \ {x}) + 1
        BY <1>1, <3>2, OneLess
      <4> QED
        BY <2>1, <4>1
    <3> USE DEF x
    <3>4. f[U \ {x}] = g[U \ {x}]
      BY <1>3, <3>3
    <3>5. f[U] = v[x] + f[U \ {x}] /\ g[U] = w[x] + g[U \ {x}]
      BY <3>1 DEF IsSum
    <3>6. v[x] = w[x]
      BY <3>2
    <3> QED
      BY <3>4, <3>5, <3>6
  <2> QED
    BY <2>1
<1> HIDE DEF Good
<1>4. Nat \subseteq Good
  BY <1>2, <1>3, Induction
<1>5. Cardinality(T) \in Good
  BY <1>1, <1>4, FS_CardinalityType
<1> QED
  BY <1>5 DEF Good

LEMMA SameSum ==
  ASSUME NEW v, NEW w, NEW S, IsFiniteSet(S), \A x \in S : v[x] = w[x]
  PROVE  SumFunctionOnSet(v, S) = SumFunctionOnSet(w, S)
<1>1. PICK f : IsSum(f, v, S) /\ SumFunctionOnSet(v, S) = f[S]
  BY SumIs
<1>2. PICK g : IsSum(g, w, S) /\ SumFunctionOnSet(w, S) = g[S]
  BY SumIs
<1> QED
  BY <1>1, <1>2, SumsAgree

LEMMA SumOfNone ==
  ASSUME NEW w
  PROVE  SumFunctionOnSet(w, {}) = 0
<1>1. PICK f : IsSum(f, w, {}) /\ SumFunctionOnSet(w, {}) = f[{}]
  BY SumIs, FS_EmptySet
<1> QED
  BY <1>1 DEF IsSum

LEMMA SumTakesOne ==
  ASSUME NEW w, NEW S, IsFiniteSet(S), S # {}
  PROVE  SumFunctionOnSet(w, S) = w[One(S)] + SumFunctionOnSet(w, S \ {One(S)})
<1> DEFINE U == S \ {One(S)}
<1>1. PICK f : IsSum(f, w, S) /\ SumFunctionOnSet(w, S) = f[S]
  BY SumIs
<1>2. PICK g : IsSum(g, w, U) /\ SumFunctionOnSet(w, U) = g[U]
  BY SumIs, FS_Subset
<1>3. f[U] = g[U]
  BY <1>1, <1>2, SumsAgree
<1>4. f[S] = w[One(S)] + f[U]
  BY <1>1 DEF IsSum
<1> QED
  BY <1>1, <1>2, <1>3, <1>4

(* The order in which a sum is taken does not matter.                       *)
InAnyOrder(w, S) ==
  /\ SumFunctionOnSet(w, S) \in Nat
  /\ \A x \in S : SumFunctionOnSet(w, S) = w[x] + SumFunctionOnSet(w, S \ {x})

LEMMA OneMoreInAnyOrder ==
  ASSUME NEW w, NEW S, IsFiniteSet(S), S # {}, \A x \in S : w[x] \in Nat,
         \A T \in SUBSET S : T # S => InAnyOrder(w, T)
  PROVE  InAnyOrder(w, S)
<1> DEFINE Sum(T) == SumFunctionOnSet(w, T)
<1>1. PICK o \in S : o = One(S)
  BY DEF One
<1>2. Sum(S) = w[o] + Sum(S \ {o})
  BY <1>1, SumTakesOne
<1>3. \A x \in S : Sum(S \ {x}) \in Nat
  BY DEF InAnyOrder
<1>4. ASSUME NEW x \in S, x # o
      PROVE  Sum(S) = w[x] + Sum(S \ {x})
  <2> DEFINE U == (S \ {x}) \ {o}
  <2>1. Sum(S \ {x}) = w[o] + Sum(U)
    <3>1. S \ {x} \in SUBSET S /\ S \ {x} # S /\ o \in S \ {x}
      BY <1>4
    <3> QED
      BY <3>1 DEF InAnyOrder
  <2>2. Sum(S \ {o}) = w[x] + Sum(U)
    <3>1. S \ {o} \in SUBSET S /\ S \ {o} # S /\ x \in S \ {o}
      BY <1>4
    <3>2. (S \ {o}) \ {x} = U
      OBVIOUS
    <3> QED
      BY <3>1, <3>2 DEF InAnyOrder
  <2>3. Sum(U) \in Nat
    BY DEF InAnyOrder
  <2>4. w[x] \in Nat /\ w[o] \in Nat
    OBVIOUS
  <2> HIDE DEF U, Sum
  <2> QED
    BY <1>2, <2>1, <2>2, <2>3, <2>4
<1>5. Sum(S) \in Nat
  BY <1>2, <1>3
<1> QED
  BY <1>2, <1>4, <1>5 DEF InAnyOrder

LEMMA SumInAnyOrder ==
  ASSUME NEW w, NEW S, IsFiniteSet(S), \A x \in S : w[x] \in Nat
  PROVE  InAnyOrder(w, S)
<1> DEFINE Good == {n \in Nat : \A T \in SUBSET S : Cardinality(T) <= n => InAnyOrder(w, T)}
<1>1. ASSUME NEW T \in SUBSET S
      PROVE  /\ IsFiniteSet(T) /\ Cardinality(T) \in Nat
             /\ \A U \in SUBSET T : U # T =>
                  Cardinality(U) \in Nat /\ Cardinality(U) < Cardinality(T)
  <2>1. IsFiniteSet(T)
    BY FS_Subset
  <2>2. Cardinality(T) \in Nat
    BY <2>1, FS_CardinalityType
  <2>3. ASSUME NEW U \in SUBSET T, U # T
        PROVE  Cardinality(U) \in Nat /\ Cardinality(U) < Cardinality(T)
    <3>1. IsFiniteSet(U) /\ Cardinality(U) <= Cardinality(T) /\ Cardinality(U) # Cardinality(T)
      BY <2>1, <2>3, FS_Subset
    <3>2. Cardinality(U) \in Nat
      BY <3>1, FS_CardinalityType
    <3> QED
      BY <2>2, <3>1, <3>2
  <2> QED
    BY <2>1, <2>2, <2>3
<1>2. InAnyOrder(w, {})
  BY SumOfNone DEF InAnyOrder
<1>3. 0 \in Good
  <2>1. ASSUME NEW T \in SUBSET S, Cardinality(T) <= 0
        PROVE  T = {}
    <3>1. Cardinality(T) = 0
      BY <1>1, <2>1
    <3> QED
      BY <1>1, <3>1, FS_EmptySet
  <2> QED
    BY <1>2, <2>1
<1>4. ASSUME NEW n \in Nat, n \in Good
      PROVE  n + 1 \in Good
  <2>1. ASSUME NEW T \in SUBSET S, Cardinality(T) <= n + 1
        PROVE  InAnyOrder(w, T)
    <3>1. ASSUME NEW U \in SUBSET T, U # T
          PROVE  InAnyOrder(w, U)
      <4>1. Cardinality(U) <= n
        BY <1>1, <2>1, <3>1
      <4> QED
        BY <1>4, <4>1
    <3>2. CASE T = {}
      BY <1>2, <3>2
    <3>3. CASE T # {}
      BY <1>1, <3>1, <3>3, OneMoreInAnyOrder
    <3> QED
      BY <3>2, <3>3
  <2> QED
    BY <2>1
<1> HIDE DEF Good
<1>5. Nat \subseteq Good
  BY <1>3, <1>4, Induction
<1>6. Cardinality(S) \in Good
  BY <1>5, FS_CardinalityType
<1>7. Cardinality(S) \in Nat
  BY FS_CardinalityType
<1> QED
  BY <1>6, <1>7 DEF Good

LEMMA SumType ==
  ASSUME NEW w, NEW S, IsFiniteSet(S), \A x \in S : w[x] \in Nat
  PROVE  SumFunctionOnSet(w, S) \in Nat
BY SumInAnyOrder DEF InAnyOrder

LEMMA SumWithout ==
  ASSUME NEW w, NEW S, IsFiniteSet(S), \A x \in S : w[x] \in Nat, NEW x \in S
  PROVE  SumFunctionOnSet(w, S) = w[x] + SumFunctionOnSet(w, S \ {x})
BY SumInAnyOrder DEF InAnyOrder

LEMMA SumOfParts ==
  ASSUME NEW w, NEW S, IsFiniteSet(S), \A x \in S : w[x] \in Nat, NEW T \in SUBSET S
  PROVE  SumFunctionOnSet(w, S) = SumFunctionOnSet(w, T) + SumFunctionOnSet(w, S \ T)
<1> DEFINE Sum(U) == SumFunctionOnSet(w, U)
<1> DEFINE Good == {n \in Nat : \A U \in SUBSET S :
                                  Cardinality(U) = n => Sum(S) = Sum(U) + Sum(S \ U)}
<1>1. \A U \in SUBSET S : Sum(U) \in Nat
  BY SumType, FS_Subset
<1>2. 0 \in Good
  <2>1. ASSUME NEW U \in SUBSET S, Cardinality(U) = 0
        PROVE  Sum(S) = Sum(U) + Sum(S \ U)
    <3> IsFiniteSet(U)
      BY FS_Subset
    <3>1. U = {} /\ S \ U = S
      BY <2>1, FS_EmptySet
    <3>2. Sum(U) = 0
      BY <3>1, SumOfNone
    <3>3. Sum(S) \in Nat
      BY <1>1
    <3> HIDE DEF Sum
    <3> QED
      BY <3>1, <3>2, <3>3
  <2> QED
    BY <2>1
<1>3. ASSUME NEW n \in Nat, n \in Good
      PROVE  n + 1 \in Good
  <2>1. ASSUME NEW U \in SUBSET S, Cardinality(U) = n + 1
        PROVE  Sum(S) = Sum(U) + Sum(S \ U)
    <3>1. PICK x \in U : TRUE
      BY <2>1, FS_EmptySet
    <3>2. U \ {x} \in SUBSET S /\ Cardinality(U \ {x}) = n
      BY <2>1, OneLess
    <3>3. Sum(S) = Sum(U \ {x}) + Sum(S \ (U \ {x}))
      BY <1>3, <3>2
    <3>4. Sum(U) = w[x] + Sum(U \ {x})
      BY SumWithout, FS_Subset
    <3>5. Sum(S \ (U \ {x})) = w[x] + Sum(S \ U)
      <4>1. /\ x \in S \ (U \ {x}) /\ S \ (U \ {x}) \in SUBSET S
            /\ (S \ (U \ {x})) \ {x} = S \ U
        BY <3>1
      <4>2. IsFiniteSet(S \ (U \ {x}))
        BY <4>1, FS_Subset
      <4> QED
        BY <4>1, <4>2, SumWithout
    <3>6. Sum(U \ {x}) \in Nat /\ Sum(S \ U) \in Nat /\ w[x] \in Nat
      BY <1>1, <3>2
    <3> HIDE DEF Sum
    <3> QED
      BY <3>3, <3>4, <3>5, <3>6
  <2> QED
    BY <2>1
<1> HIDE DEF Good
<1>4. Nat \subseteq Good
  BY <1>2, <1>3, Induction
<1>5. IsFiniteSet(T)
  BY FS_Subset
<1>6. Cardinality(T) \in Nat /\ Cardinality(T) \in Good
  BY <1>4, <1>5, FS_CardinalityType
<1> QED
  BY <1>6 DEF Good

-----------------------------------------------------------------------------
(* Looking up names.                                                        *)

(* one link more than in the function g *)
Further(g) == [n \in Names |-> IF fs[n] \in Names THEN g[fs[n]] ELSE fs[n]]

LEMMA FollowIs ==
  /\ Follow[0] = [n \in Names |-> fs[n]]
  /\ \A k \in Nat : Follow[k + 1] = Further(Follow[k])
<1> DEFINE e == [n \in Names |-> fs[n]]
<1> DEFINE Def(F) == [k \in Nat |->
             [n \in Names |-> IF fs[n] \in Names /\ k > 0 THEN F[k - 1][fs[n]] ELSE fs[n]]]
<1> DEFINE Starts(n, g) == g[0] = e /\ \A k \in 1 .. n : g[k] = Further(g[k - 1])
<1> DEFINE Good == {n \in Nat : \E g : Starts(n, g)}
<1>1. \A n \in Nat : \E g : Starts(n, g)
  <2>1. 0 \in Good
    <3>1. Starts(0, [k \in {0} |-> e])
      OBVIOUS
    <3> QED
      BY <3>1
  <2>2. ASSUME NEW n \in Nat, n \in Good
        PROVE  n + 1 \in Good
    <3>1. PICK g : Starts(n, g)
      BY <2>2
    <3> HIDE DEF e
    <3> DEFINE h == [k \in 0 .. n + 1 |-> IF k = n + 1 THEN Further(g[n]) ELSE g[k]]
    <3>2. h[0] = e
      BY <3>1
    <3>3. ASSUME NEW k \in 1 .. n + 1
          PROVE  h[k] = Further(h[k - 1])
      <4>1. k - 1 \in 0 .. n /\ h[k - 1] = g[k - 1]
        OBVIOUS
      <4>2. k # n + 1 => k \in 1 .. n
        OBVIOUS
      <4> QED
        BY <3>1, <4>1, <4>2
    <3>4. Starts(n + 1, h)
      BY <3>2, <3>3
    <3> HIDE DEF h, Starts
    <3> QED
      BY <3>4
  <2> HIDE DEF Good
  <2>3. Nat \subseteq Good
    BY <2>1, <2>2, Induction
  <2> QED
    BY <2>3 DEF Good
<1> HIDE DEF e
<1>2. ASSUME NEW n \in Nat, NEW m \in Nat, NEW g, NEW h, Starts(n, g), Starts(m, h),
             NEW k \in 0 .. n, k <= m
      PROVE  g[k] = h[k]
  <2> DEFINE Same == {j \in Nat : j <= n /\ j <= m => g[j] = h[j]}
  <2>1. 0 \in Same
    BY <1>2
  <2>2. ASSUME NEW j \in Nat, j \in Same
        PROVE  j + 1 \in Same
    <3>1. j + 1 <= n /\ j + 1 <= m => g[j] = h[j]
      BY <2>2
    <3>2. j + 1 <= n /\ j + 1 <= m => g[j + 1] = Further(g[j]) /\ h[j + 1] = Further(h[j])
      BY <1>2
    <3> QED
      BY <3>1, <3>2
  <2> HIDE DEF Same
  <2>3. Nat \subseteq Same
    BY <2>1, <2>2, Induction
  <2>4. k \in Same
    BY <2>3
  <2> QED
    BY <1>2, <2>4 DEF Same
<1> DEFINE some(n) == CHOOSE g : Starts(n, g)
<1>3. \A n \in Nat : Starts(n, some(n))
  BY <1>1
<1> HIDE DEF some
<1> DEFINE H == [n \in Nat |-> some(n)[n]]
<1>4. ASSUME NEW k \in Nat
      PROVE  H[k] = IF k = 0 THEN e ELSE Further(H[k - 1])
  <2>1. CASE k = 0
    BY <1>3, <2>1
  <2>2. CASE k # 0
    <3>1. k - 1 \in Nat /\ k \in 1 .. k
      BY <2>2
    <3>2. some(k)[k] = Further(some(k)[k - 1])
      BY <1>3, <3>1
    <3>3. some(k)[k - 1] = some(k - 1)[k - 1]
      <4>1. Starts(k, some(k)) /\ Starts(k - 1, some(k - 1))
        BY <1>3, <3>1
      <4>2. k - 1 \in 0 .. k /\ k - 1 <= k - 1
        BY <3>1
      <4> HIDE DEF Starts
      <4> QED
        BY <1>2, <3>1, <4>1, <4>2
    <3> QED
      BY <2>2, <3>1, <3>2, <3>3
  <2> QED
    BY <2>1, <2>2
<1>5. H = Def(H)
  <2>1. ASSUME NEW k \in Nat
        PROVE  H[k] = Def(H)[k]
    <3>1. CASE k = 0
      <4>1. H[0] = e
        BY <1>4
      <4>2. ~(k > 0)
        BY <3>1
      <4> HIDE DEF H
      <4> QED
        BY <3>1, <4>1, <4>2 DEF e
    <3>2. CASE k # 0
      <4>1. k - 1 \in Nat /\ k > 0
        BY <3>2
      <4>2. H[k] = Further(H[k - 1])
        BY <1>4, <3>2
      <4> HIDE DEF H
      <4> QED
        BY <4>1, <4>2 DEF Further
    <3> QED
      BY <3>1, <3>2
  <2>2. Def(H) = [k \in Nat |-> Def(H)[k]]
    OBVIOUS
  <2> HIDE DEF Def
  <2> QED
    BY <2>1, <2>2
<1> HIDE DEF H
<1> DEFINE F == CHOOSE G : G = Def(G)
<1>6. F = Def(F)
  BY <1>5
<1>7. Follow = F
  BY DEF Follow
<1> HIDE DEF F
<1>8. F[0] = e
  BY <1>6 DEF e
<1>9. \A n \in Nat : F[n + 1] = Further(F[n])
  <2>1. ASSUME NEW n \in Nat
        PROVE  F[n + 1] = Further(F[n])
    <3>1. n + 1 \in Nat /\ n + 1 > 0 /\ (n + 1) - 1 = n
      OBVIOUS
    <3>2. F[n + 1] = [m \in Names |-> IF fs[m] \in Names THEN F[n][fs[m]] ELSE fs[m]]
      BY <1>6, <3>1
    <3> QED
      BY <3>2 DEF Further
  <2> QED
    BY <2>1
<1> QED
  BY <1>7, <1>8, <1>9 DEF e

Entries == Inodes \cup Names \cup {NoFile}

(* A set of names that the links of the directory F do not lead out of; n   *)
(* leads to the file i, and n leads to i or elsewhere by way of the name k. *)
Closed(F, S) == \A e \in S : F[e] \in Names => F[e] \in S
Leads(F, n, i) ==
  \A S \in SUBSET Names : n \in S /\ Closed(F, S) => \E e \in S : F[e] = i
By(F, n, k) == \A S \in SUBSET Names : n \in S /\ Closed(F, S) => k \in S

LEMMA FileLeads ==
  ASSUME NEW F \in [Names -> Entries], NEW n \in Names, F[n] \notin Names, NEW i
  PROVE  Leads(F, n, i) <=> F[n] = i
<1>1. {n} \in SUBSET Names /\ n \in {n} /\ Closed(F, {n})
  BY DEF Closed
<1>2. Leads(F, n, i) => F[n] = i
  BY <1>1 DEF Leads
<1>3. F[n] = i => Leads(F, n, i)
  BY DEF Leads
<1> QED
  BY <1>2, <1>3

LEMMA LinkLeads ==
  ASSUME NEW F \in [Names -> Entries], NEW n \in Names, F[n] \in Names, NEW i \in Inodes
  PROVE  Leads(F, n, i) <=> Leads(F, F[n], i)
<1>1. ASSUME Leads(F, n, i)
      PROVE  Leads(F, F[n], i)
  <2>1. ASSUME NEW S \in SUBSET Names, F[n] \in S, Closed(F, S)
        PROVE  \E e \in S : F[e] = i
    <3>1. Closed(F, S \cup {n})
      BY <2>1 DEF Closed
    <3>2. PICK e \in S \cup {n} : F[e] = i
      BY <1>1, <3>1 DEF Leads
    <3>3. e # n
      BY <3>2, EntriesAssumption
    <3> QED
      BY <3>2, <3>3
  <2> QED
    BY <2>1 DEF Leads
<1>2. ASSUME Leads(F, F[n], i)
      PROVE  Leads(F, n, i)
  BY <1>2 DEF Leads, Closed
<1> QED
  BY <1>1, <1>2

(* How far one gets with so many links.                                     *)
Found(k) == {n \in Names : Follow[k][n] \in Inodes}

LEMMA FoundType ==
  ASSUME NEW k \in Nat
  PROVE  /\ Found(k) \in SUBSET Names /\ IsFiniteSet(Found(k))
         /\ Cardinality(Found(k)) \in Nat /\ Cardinality(Found(k)) <= Cardinality(Names)
         /\ Cardinality(Names) \in Nat
<1>1. Found(k) \in SUBSET Names
  BY DEF Found
<1> QED
  BY <1>1, InodesAssumption, FS_Subset, FS_CardinalityType

LEMMA FoundStays ==
  ASSUME fs \in [Names -> Entries], NEW k \in Nat, NEW n \in Found(k)
  PROVE  n \in Found(k + 1) /\ Follow[k + 1][n] = Follow[k][n]
<1> DEFINE Good == {j \in Nat : \A m \in Found(j) : Follow[j + 1][m] = Follow[j][m]}
<1>1. 0 \in Good
  <2>1. Follow[0 + 1] = Further(Follow[0]) /\ Follow[0] = [m \in Names |-> fs[m]]
    BY FollowIs
  <2>2. ASSUME NEW m \in Found(0)
        PROVE  Follow[0 + 1][m] = Follow[0][m]
    BY <2>1, EntriesAssumption DEF Found, Further
  <2> QED
    BY <2>2
<1>2. ASSUME NEW j \in Nat, j \in Good
      PROVE  j + 1 \in Good
  <2>1. ASSUME NEW m \in Found(j + 1)
        PROVE  Follow[(j + 1) + 1][m] = Follow[j + 1][m]
    <3>1. Follow[(j + 1) + 1] = Further(Follow[j + 1]) /\ Follow[j + 1] = Further(Follow[j])
      BY FollowIs
    <3>2. CASE fs[m] \in Names
      <4>1. Follow[j + 1][m] = Follow[j][fs[m]]
        BY <3>1, <3>2 DEF Further, Found
      <4>2. Follow[(j + 1) + 1][m] = Follow[j + 1][fs[m]]
        BY <3>1, <3>2 DEF Further, Found
      <4>3. fs[m] \in Found(j)
        BY <3>2, <4>1 DEF Found
      <4>4. Follow[j + 1][fs[m]] = Follow[j][fs[m]]
        BY <1>2, <4>3
      <4> QED
        BY <4>1, <4>2, <4>4
    <3>3. CASE fs[m] \notin Names
      BY <3>1, <3>3 DEF Further, Found
    <3> QED
      BY <3>2, <3>3
  <2> QED
    BY <2>1
<1> HIDE DEF Good
<1>3. Nat \subseteq Good
  BY <1>1, <1>2, Induction
<1>4. Follow[k + 1][n] = Follow[k][n]
  BY <1>3 DEF Good
<1> QED
  BY <1>4 DEF Found

(* As many links as there are names are enough.                             *)
LEMMA FoundAll ==
  ASSUME fs \in [Names -> Entries]
  PROVE  Found(Cardinality(Names) + 1) = Found(Cardinality(Names))
<1> DEFINE N == Cardinality(Names)
<1> DEFINE Done(k) == Found(k + 1) = Found(k)
<1> DEFINE Good == {k \in Nat : Done(k) \/ Cardinality(Found(k + 1)) >= k + 1}
<1>1. ASSUME NEW k \in Nat
      PROVE  Done(k) \/ Cardinality(Found(k + 1)) >= Cardinality(Found(k)) + 1
  <2>1. Found(k) \subseteq Found(k + 1)
    BY FoundStays
  <2>2. /\ IsFiniteSet(Found(k + 1))
        /\ Cardinality(Found(k)) \in Nat /\ Cardinality(Found(k + 1)) \in Nat
    BY FoundType
  <2>3. /\ Cardinality(Found(k)) <= Cardinality(Found(k + 1))
        /\ Cardinality(Found(k)) = Cardinality(Found(k + 1)) => Done(k)
    BY <2>1, <2>2, FS_Subset
  <2> QED
    BY <2>2, <2>3
<1>2. ASSUME NEW k \in Nat, Done(k)
      PROVE  Done(k + 1)
  <2>1. ASSUME NEW n \in Found((k + 1) + 1)
        PROVE  n \in Found(k + 1)
    <3>1. Follow[(k + 1) + 1] = Further(Follow[k + 1]) /\ Follow[k + 1] = Further(Follow[k])
      BY FollowIs
    <3>2. CASE fs[n] \in Names
      <4>1. fs[n] \in Found(k + 1)
        BY <3>1, <3>2 DEF Further, Found
      <4>2. fs[n] \in Found(k)
        BY <1>2, <4>1
      <4> QED
        BY <3>1, <3>2, <4>2 DEF Further, Found
    <3>3. CASE fs[n] \notin Names
      BY <3>1, <3>3 DEF Further, Found
    <3> QED
      BY <3>2, <3>3
  <2>2. Found(k + 1) \subseteq Found((k + 1) + 1)
    BY FoundStays
  <2> QED
    BY <2>1, <2>2
<1>3. 0 \in Good
  <2>1. Done(0) \/ Cardinality(Found(0 + 1)) >= Cardinality(Found(0)) + 1
    BY <1>1
  <2>2. Cardinality(Found(0)) \in Nat /\ Cardinality(Found(0 + 1)) \in Nat
    BY FoundType
  <2> HIDE DEF Done
  <2> QED
    BY <2>1, <2>2
<1>4. ASSUME NEW k \in Nat, k \in Good
      PROVE  k + 1 \in Good
  <2>1. Done(k + 1) \/ Cardinality(Found((k + 1) + 1)) >= Cardinality(Found(k + 1)) + 1
    BY <1>1
  <2>2. Cardinality(Found(k + 1)) \in Nat /\ Cardinality(Found((k + 1) + 1)) \in Nat
    BY FoundType
  <2>3. Done(k) => Done(k + 1)
    BY <1>2
  <2>4. Done(k) \/ Cardinality(Found(k + 1)) >= k + 1
    BY <1>4
  <2> HIDE DEF Done
  <2>5. Done(k + 1) \/ Cardinality(Found((k + 1) + 1)) >= (k + 1) + 1
    BY <2>1, <2>2, <2>3, <2>4
  <2> QED
    BY <2>5
<1> HIDE DEF Good
<1>5. Nat \subseteq Good
  BY <1>3, <1>4, Induction
<1>6. N \in Nat
  BY InodesAssumption, FS_CardinalityType
<1>7. Done(N) \/ Cardinality(Found(N + 1)) >= N + 1
  BY <1>5, <1>6 DEF Good
<1>8. Cardinality(Found(N + 1)) \in Nat /\ Cardinality(Found(N + 1)) <= N
  BY <1>6, FoundType
<1> QED
  BY <1>6, <1>7, <1>8

LEMMA LookupIs ==
  ASSUME fs \in [Names -> Entries]
  PROVE  \A n \in Names, i \in Inodes : Lookup(n) = i <=> Leads(fs, n, i)
<1> DEFINE N == Cardinality(Names)
<1>1. N \in Nat
  BY InodesAssumption, FS_CardinalityType
<1>2. ASSUME NEW n \in Names, NEW i \in Inodes, Lookup(n) = i
      PROVE  Leads(fs, n, i)
  <2> DEFINE Good == {k \in Nat : \A m \in Found(k) : Leads(fs, m, Follow[k][m])}
  <2>1. 0 \in Good
    BY FollowIs, FileLeads, EntriesAssumption DEF Found
  <2>2. ASSUME NEW k \in Nat, k \in Good
        PROVE  k + 1 \in Good
    <3>1. ASSUME NEW m \in Found(k + 1)
          PROVE  Leads(fs, m, Follow[k + 1][m])
      <4>1. Follow[k + 1] = Further(Follow[k])
        BY FollowIs
      <4>2. CASE fs[m] \in Names
        <5>1. Follow[k + 1][m] = Follow[k][fs[m]]
          BY <4>1, <4>2 DEF Further, Found
        <5>2. fs[m] \in Found(k) /\ Follow[k + 1][m] \in Inodes
          BY <4>2, <5>1 DEF Found
        <5>3. Leads(fs, fs[m], Follow[k + 1][m])
          BY <2>2, <5>1, <5>2
        <5> QED
          BY <4>2, <5>2, <5>3, LinkLeads DEF Found
      <4>3. CASE fs[m] \notin Names
        <5>1. Follow[k + 1][m] = fs[m]
          BY <4>1, <4>3 DEF Further, Found
        <5> QED
          BY <4>3, <5>1, FileLeads DEF Found
      <4> QED
        BY <4>2, <4>3
    <3> QED
      BY <3>1
  <2> HIDE DEF Good
  <2>3. Nat \subseteq Good
    BY <2>1, <2>2, Induction
  <2>4. N \in Good /\ n \in Found(N)
    BY <1>1, <1>2, <2>3 DEF Lookup, Found
  <2> QED
    BY <1>2, <2>4 DEF Lookup, Good
<1>3. ASSUME NEW n \in Names, NEW i \in Inodes, Leads(fs, n, i), Lookup(n) # i
      PROVE  FALSE
  <2> DEFINE U == {m \in Names : Follow[N][m] # i}
  <2>0. ASSUME NEW m \in Names, Follow[N + 1][m] = i
        PROVE  Follow[N][m] = i
    <3>1. m \in Found(N)
      BY <2>0, FoundAll DEF Found
    <3> QED
      BY <1>1, <2>0, <3>1, FoundStays
  <2>1. Follow[N + 1] = Further(Follow[N])
    BY <1>1, FollowIs
  <2>2. ASSUME NEW e \in U, fs[e] \in Names
        PROVE  fs[e] \in U
    <3>1. Follow[N + 1][e] = Follow[N][fs[e]]
      BY <2>1, <2>2 DEF Further
    <3> QED
      BY <2>0, <2>2, <3>1
  <2>3. ASSUME NEW e \in U
        PROVE  fs[e] # i
    <3>1. fs[e] \notin Names => Follow[N + 1][e] = fs[e]
      BY <2>1 DEF Further
    <3> QED
      BY <2>0, <3>1, EntriesAssumption
  <2>4. n \in U /\ Closed(fs, U)
    BY <1>3, <2>2 DEF Lookup, Closed
  <2> HIDE DEF U
  <2>5. U \in SUBSET Names
    BY DEF U
  <2> QED
    BY <1>3, <2>3, <2>4, <2>5 DEF Leads
<1> QED
  BY <1>2, <1>3

(* A change of the name k is noticed under the names that lead by way of k, *)
(* which lead, before and after, where k leads, and under no others.        *)
LEMMA NotByKeeps ==
  ASSUME NEW F \in [Names -> Entries], NEW k \in Names, NEW e \in Entries,
         NEW n \in Names, ~By(F, n, k), NEW i
  PROVE  n # k /\ (Leads([F EXCEPT ![k] = e], n, i) <=> Leads(F, n, i))
<1> DEFINE G == [F EXCEPT ![k] = e]
<1>1. PICK T \in SUBSET Names : n \in T /\ Closed(F, T) /\ k \notin T
  BY DEF By
<1>2. \A m \in Names \ {k} : G[m] = F[m]
  OBVIOUS
<1> HIDE DEF G
<1>3. ASSUME NEW A, NEW B, \A m \in Names \ {k} : A[m] = B[m],
             Closed(A, T), Leads(A, n, i)
      PROVE  Leads(B, n, i)
  <2>1. ASSUME NEW S \in SUBSET Names, n \in S, Closed(B, S)
        PROVE  \E m \in S : B[m] = i
    <3>1. n \in S \cap T /\ S \cap T \in SUBSET Names /\ Closed(A, S \cap T)
      BY <1>1, <1>3, <2>1 DEF Closed
    <3>2. PICK m \in S \cap T : A[m] = i
      BY <1>3, <3>1 DEF Leads
    <3>3. m \in Names \ {k}
      BY <1>1, <3>2
    <3> QED
      BY <1>3, <3>2, <3>3
  <2> QED
    BY <2>1 DEF Leads
<1>4. Closed(G, T)
  BY <1>1, <1>2 DEF Closed
<1>5. Leads(F, n, i) => Leads(G, n, i)
  BY <1>1, <1>2, <1>3
<1>6. Leads(G, n, i) => Leads(F, n, i)
  BY <1>2, <1>3, <1>4
<1> QED
  BY <1>1, <1>5, <1>6 DEF G

LEMMA ByLeads ==
  ASSUME NEW F \in [Names -> Entries], NEW k \in Names, NEW n \in Names, By(F, n, k),
         NEW i \in Inodes
  PROVE  Leads(F, n, i) <=> Leads(F, k, i)
<1> DEFINE U == {m \in Names : Leads(F, m, i) <=> Leads(F, n, i)}
<1>1. Closed(F, U)
  BY LinkLeads DEF Closed
<1>2. n \in U /\ U \in SUBSET Names
  OBVIOUS
<1>3. k \in U
  BY <1>1, <1>2 DEF By
<1> QED
  BY <1>3

LEMMA ByStays ==
  ASSUME NEW F \in [Names -> Entries], NEW k \in Names, NEW e, NEW n \in Names, By(F, n, k)
  PROVE  By([F EXCEPT ![k] = e], n, k)
<1> DEFINE G == [F EXCEPT ![k] = e]
<1>1. \A m \in Names \ {k} : G[m] = F[m]
  OBVIOUS
<1> HIDE DEF G
<1>2. ASSUME NEW S \in SUBSET Names, n \in S, Closed(G, S), k \notin S
      PROVE  FALSE
  <2>1. Closed(F, S)
    BY <1>1, <1>2 DEF Closed
  <2> QED
    BY <1>2, <2>1 DEF By
<1>3. By(G, n, k)
  BY <1>2 DEF By
<1> QED
  BY <1>3 DEF G

(* The same, said of both sides of a change.                                *)
Follows(F, G, n, k) ==
  \A i \in Inodes : /\ Leads(F, n, i) <=> Leads(F, k, i)
                    /\ Leads(G, n, i) <=> Leads(G, k, i)
Keeps(F, G, n) == \A i \in Inodes : Leads(G, n, i) <=> Leads(F, n, i)

LEMMA OneChanges ==
  ASSUME NEW F \in [Names -> Entries], NEW k \in Names, NEW e \in Entries,
         NEW G, G = [F EXCEPT ![k] = e], NEW n \in Names
  PROVE  Follows(F, G, n, k) \/ (n # k /\ Keeps(F, G, n))
<1>1. G \in [Names -> Entries]
  OBVIOUS
<1>2. CASE By(F, n, k)
  <2>1. By(G, n, k)
    BY <1>2, ByStays
  <2> HIDE DEF Follows
  <2>2. Follows(F, G, n, k)
    BY <1>1, <1>2, <2>1, ByLeads DEF Follows
  <2> QED
    BY <2>2
<1>3. CASE ~By(F, n, k)
  BY <1>3, NotByKeeps DEF Keeps
<1> QED
  BY <1>2, <1>3

(* A name that nothing links to is moved to from the name k.                *)
LEMMA MoveChanges ==
  ASSUME NEW F \in [Names -> Entries], NEW k \in Names, NEW t \in Names, NEW e \in Entries,
         t # k, \A m \in Names : F[m] # t,
         NEW G, G = [F EXCEPT ![t] = F[k], ![k] = e], NEW n \in Names, n # t
  PROVE  Follows(F, G, n, k) \/ (n # k /\ Keeps(F, G, n))
<1> DEFINE M == [F EXCEPT ![t] = F[k]]
<1>1. M \in [Names -> Entries] /\ G = [M EXCEPT ![k] = e]
  OBVIOUS
<1>2. ASSUME NEW m \in Names, m # t
      PROVE  ~By(F, m, t)
  <2>1. m \in Names \ {t} /\ Names \ {t} \in SUBSET Names /\ Closed(F, Names \ {t})
    BY <1>2 DEF Closed
  <2> QED
    BY <2>1 DEF By
<1>3. \A m \in Names \ {t} : Keeps(F, M, m)
  BY <1>2, NotByKeeps DEF Keeps
<1> HIDE DEF M
<1>4. Follows(M, G, n, k) \/ (n # k /\ Keeps(M, G, n))
  BY <1>1, OneChanges
<1> QED
  BY <1>3, <1>4 DEF Follows, Keeps

LEMMA LookupIsNext ==
  (fs \in [Names -> Entries] =>
     \A n \in Names, i \in Inodes : Lookup(n) = i <=> Leads(fs, n, i))'
<1>1. fs \in [Names -> Entries] =>
        \A n \in Names, i \in Inodes : Lookup(n) = i <=> Leads(fs, n, i)
  BY LookupIs
<1> QED
  BY <1>1, PTL

LEMMA OneFile ==
  ASSUME fs \in [Names -> Entries], NEW n \in Names, NEW i \in Inodes, NEW j \in Inodes,
         Leads(fs, n, i), Leads(fs, n, j)
  PROVE  i = j
BY LookupIs

-----------------------------------------------------------------------------
(* The invariant. While the program is between opening the results file and *)
(* its end that file exists; it is not on the list, as it is empty when the *)
(* directory is scanned and empty files are ignored.                        *)
IgnoresEmpty ==
  \A o \in OptionSets : o.makeresultsfile => Size(Empty) < o.minimumfilesize

ResultsAreThere ==
  /\ pc \in {"open", "print"} => options.makeresultsfile
  /\ options.makeresultsfile =>
       /\ pc \in {"scan", "compare", "announce", "print", "act"} => fs[ResultsFile] \in Inodes
       /\ pc = "scan" => data[fs[ResultsFile]] = Empty

IsAFile(n) == Regular(n) /\ ~HoldsResults(fs[n])

(* What is on the list, and each duplicate and its original, is still the   *)
(* file that was scanned.                                                   *)
ListsFiles ==
  /\ pc \in {"idle", "open", "scan", "compare"} => DOMAIN todo = {}
  /\ pc \in {"compare", "announce"} => \A n \in filelist : IsAFile(n)
  /\ \A k \in DOMAIN todo :
       IsAFile(k) /\ IsAFile(todo[k]) /\ data[fs[k]] = data[fs[todo[k]]]

IInv == TypeOK /\ ResultsAreThere /\ ListsFiles

LEMMA OptionTypes ==
  ASSUME options \in OptionSets
  PROVE  /\ options.makeresultsfile \in BOOLEAN /\ options.remove_identical_inode \in BOOLEAN
         /\ options.minimumfilesize \in Nat
BY OptionsAssumption

LEMMA NobodyIs == DOMAIN Nobody = {} /\ Range(Nobody) = {}
BY DEF Nobody, Range

LEMMA UsageType ==
  ASSUME data \in [Inodes -> Contents]
  PROVE  Usage \in Nat
<1> DEFINE S == {i \in Used : ~HoldsResults(i)}
<1>1. S \in SUBSET Inodes
  BY DEF Used, Regular
<1>2. IsFiniteSet(S)
  BY <1>1, InodesAssumption, FS_Subset
<1> DEFINE w == [i \in Inodes |-> Size(data[i])]
<1>3. \A i \in S : w[i] \in Nat
  BY <1>1, ContentsAssumption
<1>4. Usage = SumFunctionOnSet(w, S)
  BY DEF Usage, Total
<1> HIDE DEF S, w
<1> QED
  BY <1>2, <1>3, <1>4, SumType

LEMMA UsageTypeNext == (data \in [Inodes -> Contents] => Usage \in Nat)'
<1>1. data \in [Inodes -> Contents] => Usage \in Nat
  BY UsageType
<1> QED
  BY <1>1, PTL

LEMMA InitInv ==
  ASSUME Init
  PROVE  IInv
<1>1. fs \in [Names -> Entries] /\ data \in [Inodes -> Contents]
      /\ fs[ResultsFile] \in Inodes \cup {NoFile}
  BY FileSystemsAssumption DEF Init, Entries
<1>2. TypeOK
  BY <1>1, NobodyIs, BoundsAssumption DEF Init, TypeOK, Entries
<1> QED
  BY <1>2, NobodyIs DEF Init, IInv, ResultsAreThere, ListsFiles

(* There is an inode for a file that does not exist.                        *)
LEMMA FreeIs ==
  ASSUME fs \in [Names -> Entries], Used # Inodes
  PROVE  Free \in Inodes /\ Free \notin Used
BY DEF Used, Regular, Free

LEMMA OneIsFree ==
  ASSUME fs \in [Names -> Entries], NEW n \in Names, fs[n] = NoFile
  PROVE  Used # Inodes
<1> DEFINE S == {m \in Names : Regular(m)}
<1> DEFINE f == [m \in S |-> fs[m]]
<1>1. f \in Surjection(S, Used)
  BY DEF Surjection, Used
<1>2. S \in SUBSET Names /\ n \notin S
  BY EntriesAssumption DEF Regular
<1>3. IsFiniteSet(S) /\ Cardinality(S) <= Cardinality(Names) /\ Cardinality(S) # Cardinality(Names)
  BY <1>2, InodesAssumption, FS_Subset
<1>4. IsFiniteSet(Used) /\ Cardinality(Used) <= Cardinality(S)
  BY <1>1, <1>3, FS_Surjection
<1>5. /\ Cardinality(S) \in Nat /\ Cardinality(Names) \in Nat
      /\ Cardinality(Used) \in Nat /\ Cardinality(Inodes) \in Nat
  BY <1>3, <1>4, InodesAssumption, FS_CardinalityType
<1> QED
  BY <1>3, <1>4, <1>5, InodesAssumption

LEMMA ResultsInode ==
  ASSUME fs \in [Names -> Entries], NEW i \in Inodes, IsResults(i)
  PROVE  \/ fs[ResultsFile] = i
         \/ fs[ResultsFile] = NoFile /\ \A n \in Names : fs[n] # i
<1>1. CASE fs[ResultsFile] = NoFile /\ i = Free
  <2>1. i \notin Used
    BY <1>1, OneIsFree, FreeIs, NamesAssumption
  <2> QED
    BY <1>1, <2>1 DEF Used, Regular
<1> QED
  BY <1>1 DEF IsResults

-----------------------------------------------------------------------------
(* Each step keeps the invariant.                                           *)
LEMMA StartRunInv ==
  ASSUME IInv, StartRun
  PROVE  IInv'
<1>1. TypeOK'
  BY OptionTypes DEF IInv, TypeOK, StartRun, disk, lists
<1> QED
  BY <1>1 DEF IInv, ResultsAreThere, ListsFiles, StartRun, disk, lists, IsAFile, Regular,
     HoldsResults

LEMMA TryWriteInv ==
  ASSUME IInv, TryWrite
  PROVE  IInv'
<1>1. PICK i \in Inodes :
        /\ fs' = [fs EXCEPT ![ResultsFile] = i]
        /\ data' = [data EXCEPT ![i] = Empty]
  BY DEF TryWrite
<1>2. DOMAIN todo = {} /\ todo' = todo /\ pc' = "scan"
  BY DEF IInv, ListsFiles, TryWrite, lists
<1>3. fs \in [Names -> Entries] /\ data \in [Inodes -> Contents] /\ ResultsFile \in Names
  BY NamesAssumption DEF IInv, TypeOK, Entries
<1>4. fs'[ResultsFile] = i /\ data'[i] = Empty
      /\ fs' \in [Names -> Entries] /\ data' \in [Inodes -> Contents]
  BY <1>1, <1>3, ContentsAssumption DEF Entries
<1>5. TypeOK'
  BY <1>2, <1>4 DEF IInv, TypeOK, TryWrite, lists, Range, Entries
<1>6. ResultsAreThere'
  BY <1>2, <1>4 DEF ResultsAreThere
<1>7. ListsFiles'
  BY <1>2 DEF ListsFiles
<1> QED
  BY <1>5, <1>6, <1>7 DEF IInv

LEMMA ScanInv ==
  ASSUME IgnoresEmpty, IInv, Scan
  PROVE  IInv'
<1>1. DOMAIN todo = {} /\ todo' = todo /\ pc' = "compare" /\ fs' = fs /\ data' = data
      /\ options' = options
  BY DEF IInv, ListsFiles, Scan, disk
<1>2. filelist' \in SUBSET Names /\ \A n \in filelist' :
        Regular(n) /\ Size(data[fs[n]]) >= options.minimumfilesize
  BY DEF Scan
<1>3. usage' \in Nat
  BY UsageType DEF IInv, TypeOK, Scan
<1>4. TypeOK'
  BY <1>1, <1>2, <1>3 DEF IInv, TypeOK, Scan, disk, Range
<1>5. ASSUME NEW n \in filelist'
      PROVE  IsAFile(n)'
  <2>1. CASE HoldsResults(fs[n])
    <3>1. data[fs[n]] = Empty /\ Size(Empty) \in Nat
      BY <2>1, ContentsAssumption DEF HoldsResults, IInv, ResultsAreThere, Scan
    <3>2. Size(Empty) < options.minimumfilesize /\ options.minimumfilesize \in Nat
      BY <2>1, OptionTypes DEF IgnoresEmpty, IInv, TypeOK, HoldsResults
    <3> QED
      BY <1>2, <3>1, <3>2
  <2>2. CASE ~HoldsResults(fs[n])
    BY <1>1, <1>2, <2>2 DEF IsAFile, Regular, HoldsResults
  <2> QED
    BY <2>1, <2>2
<1>6. ResultsAreThere'
  BY <1>1 DEF IInv, ResultsAreThere, Scan
<1>7. ListsFiles'
  BY <1>1, <1>5 DEF ListsFiles
<1> QED
  BY <1>4, <1>6, <1>7 DEF IInv

(* The original of a group is its own original.                             *)
LEMMA OriginalIs ==
  ASSUME TypeOK, NEW n \in Listed
  PROVE  /\ Original(n) \in Listed /\ data[fs[Original(n)]] = data[fs[n]]
         /\ IsBest(Original(n), Group(n))
         /\ Original(Original(n)) = Original(n)
<1>1. Group(n) \subseteq Names /\ n \in Group(n)
  BY DEF TypeOK, Listed, Group
<1> DEFINE T == {Rank(m) : m \in Group(n)}
<1>2. T \in SUBSET Nat /\ T # {}
  BY <1>1, RankAssumption
<1>3. PICK r \in T : \A s \in T : r <= s
  BY <1>2, LeastNumber
<1>4. \E o \in Group(n) : IsBest(o, Group(n))
  BY <1>3 DEF IsBest
<1>5. Original(n) \in Group(n) /\ IsBest(Original(n), Group(n))
  BY <1>4 DEF Original
<1>6. Original(n) \in Listed /\ data[fs[Original(n)]] = data[fs[n]]
  BY <1>5 DEF Group
<1>7. Group(Original(n)) = Group(n)
  BY <1>6 DEF Group
<1>8. Original(Original(n)) = Original(n)
  BY <1>7 DEF Original
<1> QED
  BY <1>5, <1>6, <1>8

LEMMA CompareLists ==
  ASSUME TypeOK, Compare
  PROVE  /\ filelist' \subseteq filelist /\ DOMAIN todo' \subseteq filelist'
         /\ Range(todo') \subseteq filelist' \ DOMAIN todo'
         /\ \A k \in DOMAIN todo' : data[fs[k]] = data[fs[todo'[k]]]
<1>1. filelist' = NotUnique /\ NotUnique \subseteq Listed /\ Listed \subseteq filelist
  BY DEF Compare, NotUnique, Listed
<1>2. todo' = [n \in {n \in NotUnique : Original(n) # n} |-> Original(n)]
  BY DEF Compare
<1>3. DOMAIN todo' = {n \in NotUnique : Original(n) # n}
  BY <1>2
<1>4. ASSUME NEW n \in DOMAIN todo'
      PROVE  /\ todo'[n] \in NotUnique \ DOMAIN todo'
             /\ data[fs[n]] = data[fs[todo'[n]]]
  <2>1. n \in NotUnique /\ n \in Listed /\ Original(n) # n /\ todo'[n] = Original(n)
    BY <1>1, <1>2, <1>3
  <2>2. /\ Original(n) \in Listed /\ data[fs[Original(n)]] = data[fs[n]]
        /\ Original(Original(n)) = Original(n)
    BY <2>1, OriginalIs
  <2>3. n \in Group(Original(n))
    BY <2>1, <2>2 DEF Group
  <2>4. Original(n) \in NotUnique
    BY <2>1, <2>2, <2>3 DEF NotUnique
  <2> QED
    BY <1>3, <2>1, <2>2, <2>4
<1> QED
  BY <1>1, <1>3, <1>4 DEF Range

LEMMA CompareInv ==
  ASSUME IInv, Compare
  PROVE  IInv'
<1>1. TypeOK /\ ResultsAreThere /\ ListsFiles
  BY DEF IInv
<1>2. /\ filelist' \subseteq filelist /\ DOMAIN todo' \subseteq filelist'
      /\ Range(todo') \subseteq filelist' \ DOMAIN todo'
      /\ \A k \in DOMAIN todo' : data[fs[k]] = data[fs[todo'[k]]]
  BY <1>1, CompareLists
<1>3. /\ pc = "compare" /\ pc' = "announce" /\ fs' = fs /\ data' = data
      /\ options' = options /\ exact' \in BOOLEAN
  BY DEF Compare, disk
<1>4. \A n \in filelist : IsAFile(n)'
  BY <1>1, <1>3 DEF ListsFiles, IsAFile, Regular, HoldsResults
<1>5. TypeOK'
  BY <1>1, <1>2, <1>3 DEF TypeOK, Compare, disk
<1>6. ResultsAreThere'
  BY <1>1, <1>3 DEF ResultsAreThere
<1>7. \A k \in DOMAIN todo' : todo'[k] \in filelist'
  BY <1>2 DEF Range
<1>8. ListsFiles'
  BY <1>2, <1>3, <1>4, <1>7 DEF ListsFiles
<1> QED
  BY <1>5, <1>6, <1>8 DEF IInv

(* What is announced is the size of the duplicates.                         *)
LEMMA Announced ==
  ASSUME IInv, Announce
  PROVE  announced' = TotalUnder(DOMAIN todo) /\ announced' \in Nat
<1> DEFINE w == [n \in filelist |-> Size(data[fs[n]])]
<1>1. filelist \in SUBSET Names /\ DOMAIN todo \in SUBSET filelist
  BY DEF IInv, TypeOK
<1>2. IsFiniteSet(filelist)
  BY <1>1, InodesAssumption, FS_Subset
<1>3. \A n \in filelist : w[n] \in Nat
  BY ContentsAssumption DEF IInv, TypeOK, ListsFiles, Announce, IsAFile, Regular
<1>4. /\ TotalUnder(filelist) = SumFunctionOnSet(w, filelist)
      /\ TotalUnder(DOMAIN todo) = SumFunctionOnSet(w, DOMAIN todo)
      /\ TotalUnder(filelist \ DOMAIN todo) = SumFunctionOnSet(w, filelist \ DOMAIN todo)
  BY DEF TotalUnder
<1> HIDE DEF w
<1>5. TotalUnder(filelist) = TotalUnder(DOMAIN todo) + TotalUnder(filelist \ DOMAIN todo)
  BY <1>1, <1>2, <1>3, <1>4, SumOfParts
<1>6. /\ IsFiniteSet(DOMAIN todo) /\ IsFiniteSet(filelist \ DOMAIN todo)
  BY <1>1, <1>2, FS_Subset
<1>7. TotalUnder(DOMAIN todo) \in Nat /\ TotalUnder(filelist \ DOMAIN todo) \in Nat
  BY <1>1, <1>3, <1>4, <1>6, SumType
<1>8. announced' = TotalUnder(filelist) - TotalUnder(filelist \ DOMAIN todo)
  BY DEF Announce
<1> QED
  BY <1>5, <1>7, <1>8

LEMMA AnnounceInv ==
  ASSUME IInv, Announce
  PROVE  IInv'
<1>1. TypeOK'
  BY Announced DEF IInv, TypeOK, Announce, disk
<1> QED
  BY <1>1 DEF IInv, ResultsAreThere, ListsFiles, Announce, disk, IsAFile, Regular, HoldsResults

LEMMA PrintToFileInv ==
  ASSUME IInv, PrintToFile
  PROVE  IInv' /\ fs' = fs
<1>1. PICK i \in Inodes, c \in Reports :
        /\ IsResults(i)
        /\ fs' = [fs EXCEPT ![ResultsFile] = i]
        /\ data' = [data EXCEPT ![i] = c]
  BY DEF PrintToFile
<1>2. /\ options' = options /\ filelist' = filelist /\ todo' = todo
      /\ pc = "print" /\ pc' = "act" /\ options.makeresultsfile
  BY DEF IInv, ResultsAreThere, PrintToFile, lists
<1>3. fs \in [Names -> Entries] /\ data \in [Inodes -> Contents] /\ ResultsFile \in Names
  BY NamesAssumption DEF IInv, TypeOK, Entries
<1>4. fs[ResultsFile] = i
  BY <1>1, <1>2, EntriesAssumption DEF IInv, ResultsAreThere, IsResults
<1>5. fs' = fs
  BY <1>1, <1>3, <1>4
<1>6. data' \in [Inodes -> Contents]
  BY <1>1, <1>3, ContentsAssumption
<1>7. TypeOK'
  BY <1>2, <1>5, <1>6 DEF IInv, TypeOK, PrintToFile, lists
<1>8. ResultsAreThere'
  BY <1>2, <1>4, <1>5 DEF ResultsAreThere
<1>9. ASSUME NEW k \in DOMAIN todo
      PROVE  IsAFile(k)' /\ IsAFile(todo[k])' /\ data'[fs[k]] = data'[fs[todo[k]]]
  <2>1. IsAFile(k) /\ IsAFile(todo[k]) /\ data[fs[k]] = data[fs[todo[k]]]
    BY DEF IInv, ListsFiles
  <2>2. fs[k] # i /\ fs[todo[k]] # i /\ fs[k] \in Inodes /\ fs[todo[k]] \in Inodes
    BY <1>2, <1>4, <2>1 DEF IsAFile, HoldsResults, Regular
  <2>3. data'[fs[k]] = data[fs[k]] /\ data'[fs[todo[k]]] = data[fs[todo[k]]]
    BY <1>1, <1>3, <2>2
  <2> QED
    BY <1>2, <1>5, <2>1, <2>3 DEF IsAFile, HoldsResults, Regular
<1>10. ListsFiles'
  BY <1>2, <1>5, <1>9 DEF ListsFiles
<1> QED
  BY <1>5, <1>7, <1>8, <1>10 DEF IInv

(* The results file is neither a duplicate nor an original.                 *)
LEMMA NotTheResults ==
  ASSUME IInv, NEW k \in DOMAIN todo
  PROVE  /\ k \in Names /\ todo[k] \in Names /\ todo[k] \in filelist \ DOMAIN todo
         /\ fs[k] \in Inodes /\ fs[todo[k]] \in Inodes /\ data[fs[k]] = data[fs[todo[k]]]
         /\ options.makeresultsfile =>
              /\ k # ResultsFile /\ todo[k] # ResultsFile
              /\ fs[k] # fs[ResultsFile] /\ fs[todo[k]] # fs[ResultsFile]
<1>1. IsAFile(k) /\ IsAFile(todo[k]) /\ data[fs[k]] = data[fs[todo[k]]]
  BY DEF IInv, ListsFiles
<1>2. k \in Names /\ todo[k] \in filelist \ DOMAIN todo /\ todo[k] \in Names
  BY DEF IInv, TypeOK, Range
<1> QED
  BY <1>1, <1>2 DEF IsAFile, Regular, HoldsResults

(* Acting on a duplicate leaves the others and the originals alone.         *)
LEMMA ActedInv ==
  ASSUME IInv, NEW k \in DOMAIN todo, At(k), Handled(k),
         fs' \in [Names -> Entries],
         \A n \in Names \ {k} : fs[n] # NoFile => fs'[n] = fs[n],
         exact' \in BOOLEAN, failures' \in 0 .. MaxFailures
  PROVE  IInv'
<1>1. /\ DOMAIN todo' = DOMAIN todo \ {k} /\ \A j \in DOMAIN todo' : todo'[j] = todo[j]
      /\ options' = options /\ data' = data /\ pc' = pc /\ filelist' = filelist
      /\ announced' = announced /\ usage' = usage /\ edits' = edits /\ pc = "act"
  BY DEF Handled, Restrict, At
<1>2. Range(todo') \subseteq Range(todo)
  BY <1>1 DEF Range
<1>3. options.makeresultsfile => fs[ResultsFile] \in Inodes /\ fs'[ResultsFile] = fs[ResultsFile]
  BY <1>1, NotTheResults, NamesAssumption, EntriesAssumption DEF IInv, ResultsAreThere
<1>4. TypeOK'
  BY <1>1, <1>2, <1>3 DEF IInv, TypeOK, Entries
<1>5. ResultsAreThere'
  BY <1>1, <1>3 DEF ResultsAreThere
<1>6. ASSUME NEW j \in DOMAIN todo'
      PROVE  /\ IsAFile(j)' /\ IsAFile(todo[j])'
             /\ data'[fs'[j]] = data'[fs'[todo[j]]] /\ todo'[j] = todo[j]
  <2>1. j \in DOMAIN todo /\ j # k /\ todo[j] # k
    BY <1>1, NotTheResults
  <2>2. fs'[j] = fs[j] /\ fs'[todo[j]] = fs[todo[j]]
    BY <2>1, NotTheResults, EntriesAssumption
  <2>3. IsAFile(j) /\ IsAFile(todo[j]) /\ data[fs[j]] = data[fs[todo[j]]]
    BY <2>1 DEF IInv, ListsFiles
  <2> QED
    BY <1>1, <1>3, <2>2, <2>3 DEF IsAFile, Regular, HoldsResults
<1>7. ListsFiles'
  BY <1>1, <1>6 DEF ListsFiles
<1> QED
  BY <1>4, <1>5, <1>7 DEF IInv

LEMMA FailsType ==
  ASSUME failures \in 0 .. MaxFailures, Fails
  PROVE  failures' \in 0 .. MaxFailures
BY BoundsAssumption DEF Fails

LEMMA LinkType ==
  ASSUME IInv, NEW k \in DOMAIN todo
  PROVE  Link(k) \in Entries
BY NotTheResults DEF Link, Entries

LEMMA DeleteDuplicateInv ==
  ASSUME IInv, NEW k \in Names, DeleteDuplicate(k)
  PROVE  IInv'
<1>1. fs' = [fs EXCEPT ![k] = NoFile] /\ k \in DOMAIN todo /\ At(k) /\ Handled(k)
  BY DEF DeleteDuplicate, At
<1>2. fs \in [Names -> Entries] /\ exact' \in BOOLEAN /\ failures' \in 0 .. MaxFailures
  BY DEF IInv, TypeOK, DeleteDuplicate, Entries
<1>3. fs' \in [Names -> Entries] /\ \A n \in Names \ {k} : fs'[n] = fs[n]
  BY <1>1, <1>2 DEF Entries
<1> QED
  BY <1>1, <1>2, <1>3, ActedInv

LEMMA MakeLinkInv ==
  ASSUME IInv, NEW k \in Names, MakeLink(k)
  PROVE  IInv'
<1>1. fs' = [fs EXCEPT ![k] = Link(k)] /\ k \in DOMAIN todo /\ At(k) /\ Handled(k)
  BY DEF MakeLink, At
<1>2. fs \in [Names -> Entries] /\ exact' \in BOOLEAN /\ failures' \in 0 .. MaxFailures
  BY DEF IInv, TypeOK, MakeLink, Entries
<1>3. fs' \in [Names -> Entries] /\ \A n \in Names \ {k} : fs'[n] = fs[n]
  BY <1>1, <1>2, LinkType
<1> QED
  BY <1>1, <1>2, <1>3, ActedInv

LEMMA NothingDoneInv ==
  ASSUME IInv, NEW k \in Names, NothingDone(k)
  PROVE  IInv'
<1>1. fs' = fs /\ k \in DOMAIN todo /\ At(k) /\ Handled(k) /\ exact' \in BOOLEAN
  BY DEF NothingDone, At
<1>2. fs \in [Names -> Entries] /\ failures' \in 0 .. MaxFailures
  BY FailsType DEF IInv, TypeOK, NothingDone, Entries
<1> QED
  BY <1>1, <1>2, ActedInv

LEMMA ExitsInv ==
  ASSUME IInv, Exits, UNCHANGED <<options, data, edits>>,
         fs' \in [Names -> Entries],
         options.makeresultsfile => fs'[ResultsFile] \in Inodes \cup {NoFile},
         failures' \in 0 .. MaxFailures
  PROVE  IInv'
<1>1. TypeOK'
  BY NobodyIs DEF IInv, TypeOK, Exits, Entries
<1> QED
  BY <1>1, NobodyIs DEF IInv, ResultsAreThere, ListsFiles, Exits

LEMMA TemporaryLeftInv ==
  ASSUME IInv, NEW k \in Names, TemporaryLeft(k)
  PROVE  IInv'
<1>1. PICK t \in Temporaries, e \in {NoFile, Link(k)} :
        fs[t] = NoFile /\ fs' = [fs EXCEPT ![t] = fs[k], ![k] = e]
  BY DEF TemporaryLeft
<1>2. k \in DOMAIN todo /\ At(k) /\ e \in Entries
  BY LinkType DEF TemporaryLeft, At, Entries
<1>3. t \in Names /\ t # ResultsFile /\ ResultsFile \in Names
  BY NamesAssumption
<1>4. fs \in [Names -> Entries] /\ fs[k] \in Entries /\ failures' \in 0 .. MaxFailures
  BY FailsType DEF IInv, TypeOK, TemporaryLeft, Entries
<1>5. fs' \in [Names -> Entries] /\ \A n \in Names \ {k} : n # t => fs'[n] = fs[n]
  BY <1>1, <1>2, <1>3, <1>4
<1>6. CASE Handled(k) /\ exact' = FALSE
  BY <1>1, <1>2, <1>4, <1>5, <1>6, ActedInv
<1>7. CASE Exits /\ UNCHANGED <<options, data, edits>>
  <2>1. options.makeresultsfile => k # ResultsFile
    BY <1>2, NotTheResults
  <2>2. options.makeresultsfile => fs'[ResultsFile] \in Inodes \cup {NoFile}
    BY <1>3, <1>5, <2>1 DEF IInv, TypeOK
  <2> QED
    BY <1>4, <1>5, <1>7, <2>2, ExitsInv
<1> QED
  BY <1>6, <1>7 DEF TemporaryLeft

LEMMA EndInv ==
  ASSUME IInv, Finish \/ Crash \/ (CannotWrite /\ pc = "open")
  PROVE  IInv'
<1>1. Exits /\ UNCHANGED <<options, data, edits>> /\ fs' = fs
  BY DEF Finish, Crash, CannotWrite, disk
<1>2. failures' \in 0 .. MaxFailures
  BY FailsType DEF IInv, TypeOK, Finish, Crash, CannotWrite
<1>3. fs' \in [Names -> Entries]
  BY <1>1 DEF IInv, TypeOK, Entries
<1>4. options.makeresultsfile => fs'[ResultsFile] \in Inodes \cup {NoFile}
  BY <1>1 DEF IInv, TypeOK
<1> QED
  BY <1>1, <1>2, <1>3, <1>4, ExitsInv

LEMMA CannotPrintInv ==
  ASSUME IInv, CannotWrite, pc # "open"
  PROVE  IInv'
<1>1. failures' \in 0 .. MaxFailures
  BY FailsType DEF IInv, TypeOK, CannotWrite
<1>2. /\ pc = "print" /\ pc' = "act" /\ options' = options /\ fs' = fs /\ data' = data
      /\ edits' = edits /\ filelist' = filelist /\ todo' = todo /\ announced' = announced
      /\ usage' = usage /\ exact' = exact
  BY DEF CannotWrite, disk, lists
<1>3. TypeOK'
  BY <1>1, <1>2 DEF IInv, TypeOK
<1> QED
  BY <1>2, <1>3 DEF IInv, ResultsAreThere, ListsFiles, IsAFile, Regular, HoldsResults

LEMMA UserInv ==
  ASSUME IInv, User
  PROVE  IInv'
<1>1. fs \in [Names -> Entries] /\ data \in [Inodes -> Contents]
  BY DEF IInv, TypeOK, Entries
<1>2. PICK n \in Names : UserRemoves(n) \/ \E c \in Contents : UserWrites(n, c)
  BY DEF User
<1>3. /\ pc = "idle" /\ pc' = pc /\ options' = options /\ filelist' = filelist /\ todo' = todo
      /\ announced' = announced /\ usage' = usage /\ exact' = exact /\ failures' = failures
  BY <1>2 DEF UserRemoves, UserWrites, Edit, lists
<1>4. edits' \in 0 .. MaxEdits
  BY <1>2, BoundsAssumption DEF UserRemoves, UserWrites, Edit, IInv, TypeOK
<1>5. /\ fs' \in [Names -> Entries] /\ data' \in [Inodes -> Contents]
      /\ \A m \in Names : fs'[m] = fs[m] \/ fs'[m] \in Inodes \cup {NoFile}
  <2>1. CASE UserRemoves(n)
    BY <1>1, <2>1 DEF UserRemoves, Entries
  <2>2. CASE \E c \in Contents : UserWrites(n, c)
    <3>1. PICK c \in Contents : UserWrites(n, c)
      BY <2>2
    <3>2. Free \in Inodes
      BY <1>1, <3>1, FreeIs DEF UserWrites
    <3> QED
      BY <1>1, <3>1, <3>2 DEF UserWrites, Entries
  <2> QED
    BY <1>2, <2>1, <2>2
<1>6. TypeOK'
  BY <1>3, <1>4, <1>5, NamesAssumption DEF IInv, TypeOK, Entries
<1> QED
  BY <1>3, <1>6 DEF IInv, ResultsAreThere, ListsFiles

LEMMA StutterInv ==
  ASSUME IInv, UNCHANGED vars
  PROVE  IInv'
BY DEF vars, IInv, TypeOK, ResultsAreThere, ListsFiles, IsAFile, Regular, HoldsResults

LEMMA NextInv ==
  ASSUME IgnoresEmpty, IInv, [Next]_vars
  PROVE  IInv'
<1>1. CASE System
  BY <1>1, StartRunInv, TryWriteInv, ScanInv, CompareInv, AnnounceInv, PrintToFileInv, EndInv,
     DeleteDuplicateInv, MakeLinkInv DEF System
<1>2. CASE Failure
  BY <1>2, EndInv, CannotPrintInv, NothingDoneInv, TemporaryLeftInv DEF Failure
<1> QED
  BY <1>1, <1>2, UserInv, StutterInv DEF Next

LEMMA InductiveRuns ==
  ASSUME IgnoresEmpty
  PROVE  Spec => []IInv
<1>1. Init => IInv
  BY InitInv
<1>2. IInv /\ [Next]_vars => IInv'
  BY NextInv
<1> QED
  BY <1>1, <1>2, PTL DEF Spec

(* Every variable keeps its type; above all, originals are never duplicates *)
(* themselves, and no step of main() makes anything but a file of the       *)
(* results file.                                                            *)
THEOREM RunsTypeCorrect ==
  ASSUME IgnoresEmpty
  PROVE  Spec => []TypeOK
<1>1. IInv => TypeOK
  BY DEF IInv
<1> QED
  BY <1>1, InductiveRuns, PTL

(* Where empty files are ignored the results file, which is empty while the *)
(* directory is scanned, is never taken for a duplicate or an original, as  *)
(* the manual says of -makeresultsfile.                                     *)
THEOREM ResultsFileIsLeftAlone ==
  ASSUME IgnoresEmpty
  PROVE  Spec => []ResultsFileDoesNotMatter
<1>1. IInv => ResultsFileDoesNotMatter
  BY NotTheResults DEF ResultsFileDoesNotMatter
<1> QED
  BY <1>1, InductiveRuns, PTL

-----------------------------------------------------------------------------
(* What a run saves: at any time at most what was announced less the size   *)
(* of the duplicates that are left.                                         *)

SizeUnder(k) == Size(data[fs[k]])
Remaining == SumFunctionOnSet([k \in DOMAIN todo |-> SizeUnder(k)], DOMAIN todo)
Counted == {i \in Used : ~HoldsResults(i)}
Alone(k) == \A m \in Names \ {k} : fs[m] # fs[k]

SavesSoFar ==
  /\ pc \in {"compare", "announce"} => usage = Usage
  /\ pc \in {"announce", "print", "act"} /\ exact => \A k \in DOMAIN todo : Alone(k)
  /\ pc \in {"print", "act"} =>
       /\ usage - Usage <= announced - Remaining
       /\ exact => usage - Usage = announced - Remaining

LEMMA CountedType ==
  ASSUME data \in [Inodes -> Contents]
  PROVE  /\ Counted \in SUBSET Inodes /\ IsFiniteSet(Counted)
         /\ \A i \in Inodes : Size(data[i]) \in Nat
<1>1. Counted \in SUBSET Inodes
  BY DEF Counted, Used, Regular
<1> QED
  BY <1>1, InodesAssumption, ContentsAssumption, FS_Subset

LEMMA UsageIs == Usage = SumFunctionOnSet([i \in Inodes |-> Size(data[i])], Counted)
BY DEF Usage, Total, Counted

LEMMA UsageIsNext ==
  Usage' = SumFunctionOnSet([i \in Inodes |-> Size(data'[i])], Counted')
BY DEF Usage, Total, Counted

LEMMA SameUsage ==
  ASSUME data \in [Inodes -> Contents], Counted' = Counted,
         \A i \in Counted : data'[i] = data[i]
  PROVE  Usage' = Usage
<1> DEFINE v == [i \in Inodes |-> Size(data'[i])]
<1> DEFINE w == [i \in Inodes |-> Size(data[i])]
<1>1. Counted \in SUBSET Inodes /\ IsFiniteSet(Counted)
  BY CountedType
<1>2. \A i \in Counted : v[i] = w[i]
  BY <1>1
<1>3. Usage = SumFunctionOnSet(w, Counted) /\ Usage' = SumFunctionOnSet(v, Counted)
  BY UsageIs, UsageIsNext
<1> HIDE DEF v, w
<1> QED
  BY <1>1, <1>2, <1>3, SameSum

LEMMA RemainingType ==
  ASSUME IInv
  PROVE  Remaining \in Nat
<1> DEFINE w == [k \in DOMAIN todo |-> SizeUnder(k)]
<1>1. IsFiniteSet(DOMAIN todo)
  BY InodesAssumption, FS_Subset DEF IInv, TypeOK
<1>2. \A k \in DOMAIN todo : w[k] \in Nat
  BY NotTheResults, ContentsAssumption DEF IInv, TypeOK, SizeUnder
<1>3. Remaining = SumFunctionOnSet(w, DOMAIN todo)
  BY DEF Remaining
<1> HIDE DEF w
<1> QED
  BY <1>1, <1>2, <1>3, SumType

(* One duplicate less.                                                      *)
LEMMA RemainingLess ==
  ASSUME IInv, NEW k \in DOMAIN todo, Handled(k),
         \A n \in Names \ {k} : fs[n] # NoFile => fs'[n] = fs[n]
  PROVE  Remaining' \in Nat /\ SizeUnder(k) \in Nat /\ Remaining = SizeUnder(k) + Remaining'
<1> DEFINE w == [j \in DOMAIN todo |-> SizeUnder(j)]
<1> DEFINE v == [j \in DOMAIN todo \ {k} |-> SizeUnder(j)']
<1>1. DOMAIN todo' = DOMAIN todo \ {k} /\ data' = data
  BY DEF Handled, Restrict
<1>2. Remaining = SumFunctionOnSet(w, DOMAIN todo)
  BY DEF Remaining
<1>3. Remaining' = SumFunctionOnSet(v, DOMAIN todo \ {k})
  BY <1>1 DEF Remaining
<1>4. IsFiniteSet(DOMAIN todo) /\ IsFiniteSet(DOMAIN todo \ {k})
  BY InodesAssumption, FS_Subset DEF IInv, TypeOK
<1>5. \A j \in DOMAIN todo : w[j] \in Nat
  BY NotTheResults, ContentsAssumption DEF IInv, TypeOK, SizeUnder
<1>6. \A j \in DOMAIN todo \ {k} : v[j] = w[j]
  BY <1>1, NotTheResults, EntriesAssumption DEF SizeUnder
<1>7. w[k] = SizeUnder(k)
  OBVIOUS
<1> HIDE DEF v, w
<1>8. SumFunctionOnSet(w, DOMAIN todo) = w[k] + SumFunctionOnSet(w, DOMAIN todo \ {k})
  BY <1>4, <1>5, SumWithout
<1>9. SumFunctionOnSet(v, DOMAIN todo \ {k}) = SumFunctionOnSet(w, DOMAIN todo \ {k})
  BY <1>4, <1>6, SameSum
<1>10. SumFunctionOnSet(w, DOMAIN todo \ {k}) \in Nat
  BY <1>4, <1>5, SumType
<1> QED
  BY <1>2, <1>3, <1>5, <1>7, <1>8, <1>9, <1>10

(* Its file is no longer counted, unless it has another name.               *)
LEMMA UsageLess ==
  ASSUME IInv, NEW k \in DOMAIN todo, Handled(k), At(k),
         \A n \in Names \ {k} : fs'[n] = fs[n],
         fs'[k] \in {NoFile, todo[k], fs[todo[k]]}
  PROVE  /\ Usage - Usage' <= SizeUnder(k)
         /\ Alone(k) => Usage - Usage' = SizeUnder(k)
<1> DEFINE w == [i \in Inodes |-> Size(data[i])]
<1> DEFINE i == fs[k]
<1>1. data \in [Inodes -> Contents] /\ data' = data /\ options' = options
  BY DEF IInv, TypeOK, Handled
<1>2. /\ k \in Names /\ todo[k] \in Names /\ todo[k] # k
      /\ i \in Inodes /\ fs[todo[k]] \in Inodes
      /\ options.makeresultsfile =>
           k # ResultsFile /\ i # fs[ResultsFile] /\ fs[todo[k]] # fs[ResultsFile]
  BY NotTheResults
<1>3. options.makeresultsfile => fs'[ResultsFile] = fs[ResultsFile]
  BY <1>2, NamesAssumption
<1>4. \A j : HoldsResults(j)' <=> HoldsResults(j)
  BY <1>1, <1>3 DEF HoldsResults
<1>5. i \in Counted
  BY <1>2 DEF Counted, Used, Regular, HoldsResults
<1>6. Counted' \subseteq Counted
  <2>1. ASSUME NEW n \in Names, fs'[n] \in Inodes
        PROVE  fs'[n] \in Used
    <3>1. CASE n = k
      BY <1>2, <2>1, <3>1, EntriesAssumption DEF Used, Regular
    <3>2. CASE n # k
      BY <2>1, <3>2 DEF Used, Regular
    <3> QED
      BY <3>1, <3>2
  <2> QED
    BY <1>4, <2>1 DEF Counted, Used, Regular
<1>7. Counted \ {i} \subseteq Counted'
  BY <1>4 DEF Counted, Used, Regular
<1>8. Alone(k) => i \notin Counted'
  <2>1. ASSUME Alone(k), NEW n \in Names
        PROVE  fs'[n] # i
    <3>1. CASE n = k
      BY <1>2, <2>1, <3>1, EntriesAssumption DEF Alone
    <3>2. CASE n # k
      BY <2>1, <3>2 DEF Alone
    <3> QED
      BY <3>1, <3>2
  <2> QED
    BY <2>1 DEF Counted, Used
<1>9. Counted' = Counted \/ Counted' = Counted \ {i}
  BY <1>6, <1>7
<1>10. /\ Usage = SumFunctionOnSet(w, Counted)
       /\ Usage' = SumFunctionOnSet(w, Counted')
  BY <1>1, UsageIs, UsageIsNext
<1>11. SizeUnder(k) = w[i]
  BY <1>2 DEF SizeUnder
<1>12. IsFiniteSet(Counted) /\ \A j \in Counted : w[j] \in Nat
  BY <1>1, CountedType
<1>13. w[i] \in Nat
  BY <1>5, <1>12
<1> HIDE DEF w, i
<1>14. /\ SumFunctionOnSet(w, Counted) = w[i] + SumFunctionOnSet(w, Counted \ {i})
       /\ SumFunctionOnSet(w, Counted) \in Nat
  BY <1>5, <1>12, SumWithout, SumType
<1>15. SumFunctionOnSet(w, Counted \ {i}) \in Nat
  <2>1. IsFiniteSet(Counted \ {i})
    BY <1>12, FS_Subset
  <2> QED
    BY <1>12, <2>1, SumType
<1>16. CASE Counted' = Counted
  BY <1>5, <1>8, <1>10, <1>11, <1>13, <1>14, <1>16
<1>17. CASE Counted' = Counted \ {i}
  BY <1>10, <1>11, <1>13, <1>14, <1>15, <1>17
<1> QED
  BY <1>9, <1>16, <1>17

LEMMA SavesInit ==
  ASSUME Init
  PROVE  SavesSoFar
BY DEF Init, SavesSoFar

LEMMA SavesScan ==
  ASSUME IInv, SavesSoFar, Scan
  PROVE  SavesSoFar'
<1>1. Counted' = Counted /\ data' = data
  BY DEF Scan, disk, Counted, Used, Regular, HoldsResults
<1>2. Usage' = Usage
  BY <1>1, SameUsage DEF IInv, TypeOK
<1> QED
  BY <1>2 DEF SavesSoFar, Scan

LEMMA SavesCompare ==
  ASSUME IInv, SavesSoFar, Compare
  PROVE  SavesSoFar'
<1>1. Counted' = Counted /\ data' = data
  BY DEF Compare, disk, Counted, Used, Regular, HoldsResults
<1>2. Usage' = Usage
  BY <1>1, SameUsage DEF IInv, TypeOK
<1>3. exact' => \A k \in DOMAIN todo' : Alone(k)'
  BY DEF Compare, disk, Alone
<1> QED
  BY <1>2, <1>3 DEF SavesSoFar, Compare

LEMMA SavesAnnounce ==
  ASSUME IInv, SavesSoFar, Announce
  PROVE  SavesSoFar'
<1>1. Counted' = Counted /\ data' = data /\ fs' = fs /\ todo' = todo /\ exact' = exact
  BY DEF Announce, disk, Counted, Used, Regular, HoldsResults
<1>2. Usage' = Usage /\ Usage \in Nat /\ Usage' \in Nat
  BY <1>1, SameUsage, UsageType DEF IInv, TypeOK
<1>3. usage = Usage /\ usage' = usage
  BY DEF SavesSoFar, Announce
<1> DEFINE v == [n \in filelist |-> Size(data[fs[n]])]
<1> DEFINE w == [k \in DOMAIN todo |-> SizeUnder(k)]
<1>4. Remaining' = Remaining
  BY <1>1 DEF Remaining, SizeUnder
<1>5. DOMAIN todo \in SUBSET filelist /\ IsFiniteSet(DOMAIN todo)
  BY InodesAssumption, FS_Subset DEF IInv, TypeOK
<1>6. TotalUnder(DOMAIN todo) = SumFunctionOnSet(v, DOMAIN todo)
  BY DEF TotalUnder
<1>7. Remaining = SumFunctionOnSet(w, DOMAIN todo)
  BY DEF Remaining
<1>8. \A k \in DOMAIN todo : v[k] = w[k]
  BY <1>5 DEF SizeUnder
<1> HIDE DEF v, w
<1>9. announced' = Remaining'
  BY <1>4, <1>5, <1>6, <1>7, <1>8, SameSum, Announced
<1>10. Remaining' \in Nat
  BY <1>4, RemainingType
<1>11. exact' => \A k \in DOMAIN todo' : Alone(k)'
  BY <1>1 DEF SavesSoFar, Announce, Alone
<1>12. usage' - Usage' = 0 /\ announced' - Remaining' = 0
  <2>1. PICK u \in Nat, r \in Nat : u = Usage /\ r = Remaining'
    BY <1>2, <1>10
  <2>2. usage' = u /\ Usage' = u /\ announced' = r
    BY <1>2, <1>3, <1>9, <2>1
  <2>3. u - u = 0 /\ r - r = 0
    OBVIOUS
  <2> QED
    BY <2>1, <2>2, <2>3
<1>13. pc' \in {"print", "act"}
  BY DEF Announce
<1> QED
  BY <1>11, <1>12, <1>13 DEF SavesSoFar

LEMMA SavesPrintToFile ==
  ASSUME IInv, SavesSoFar, PrintToFile
  PROVE  SavesSoFar'
<1>1. PICK i \in Inodes, c \in Reports : IsResults(i) /\ data' = [data EXCEPT ![i] = c]
  BY DEF PrintToFile
<1>2. /\ fs' = fs /\ todo' = todo /\ options' = options /\ pc = "print" /\ pc' = "act"
      /\ announced' = announced /\ usage' = usage /\ exact' = exact
      /\ options.makeresultsfile
  BY PrintToFileInv DEF PrintToFile, lists, IInv, ResultsAreThere
<1>3. fs[ResultsFile] = i
  BY <1>1, <1>2, EntriesAssumption DEF IInv, ResultsAreThere, IsResults
<1>4. data \in [Inodes -> Contents] /\ \A j \in Inodes \ {i} : data'[j] = data[j]
  BY <1>1 DEF IInv, TypeOK
<1>5. Counted' = Counted /\ Counted \subseteq Inodes \ {i}
  BY <1>2, <1>3 DEF Counted, Used, Regular, HoldsResults
<1>6. Usage' = Usage
  BY <1>4, <1>5, SameUsage
<1>7. \A k \in DOMAIN todo : SizeUnder(k)' = SizeUnder(k)
  BY <1>2, <1>3, <1>4, NotTheResults DEF SizeUnder
<1>8. [k \in DOMAIN todo |-> SizeUnder(k)'] = [k \in DOMAIN todo |-> SizeUnder(k)]
  BY <1>7
<1>9. Remaining' = Remaining
  BY <1>2, <1>8 DEF Remaining
<1> QED
  BY <1>2, <1>6, <1>9 DEF SavesSoFar, Alone

(* Acting on k, whether k is deleted or replaced by a link.                 *)
LEMMA SavesActed ==
  ASSUME IInv, SavesSoFar, NEW k \in DOMAIN todo, At(k), Handled(k), exact' = exact,
         fs' \in [Names -> Entries],
         \A n \in Names \ {k} : fs'[n] = fs[n],
         fs'[k] \in {NoFile, todo[k], fs[todo[k]]}
  PROVE  SavesSoFar'
<1>1. Remaining' \in Nat /\ SizeUnder(k) \in Nat /\ Remaining = SizeUnder(k) + Remaining'
  BY RemainingLess
<1>2. Usage - Usage' <= SizeUnder(k) /\ (Alone(k) => Usage - Usage' = SizeUnder(k))
  BY UsageLess
<1>3. pc = "act" /\ pc' = "act" /\ usage' = usage /\ announced' = announced /\ data' = data
      /\ DOMAIN todo' = DOMAIN todo \ {k}
  BY DEF At, Handled, Restrict
<1>4. /\ Usage \in Nat /\ Usage' \in Nat /\ usage \in Nat /\ announced \in Nat
  BY <1>3, UsageType, UsageTypeNext DEF IInv, TypeOK
<1>5. usage - Usage <= announced - Remaining /\ (exact => usage - Usage = announced - Remaining)
  BY <1>3 DEF SavesSoFar
<1>6. usage' - Usage' <= announced' - Remaining'
  BY <1>1, <1>2, <1>3, <1>4, <1>5
<1>7. exact => Alone(k)
  BY <1>3 DEF SavesSoFar
<1>8. exact' => usage' - Usage' = announced' - Remaining'
  BY <1>1, <1>2, <1>3, <1>4, <1>5, <1>7
<1>9. ASSUME exact', NEW j \in DOMAIN todo', NEW m \in Names \ {j}
      PROVE  fs'[m] # fs'[j]
  <2>1. j \in DOMAIN todo /\ j # k /\ Alone(j) /\ todo[k] # j /\ j \in Names /\ todo[k] \in Names
        /\ fs[j] \in Inodes
    BY <1>3, <1>9, NotTheResults DEF SavesSoFar
  <2>2. fs'[j] = fs[j]
    BY <2>1
  <2>3. CASE m = k
    BY <2>1, <2>2, <2>3, EntriesAssumption DEF Alone
  <2>4. CASE m # k
    BY <2>1, <2>2, <2>4 DEF Alone
  <2> QED
    BY <2>3, <2>4
<1>10. exact' => \A j \in DOMAIN todo' : Alone(j)'
  BY <1>9 DEF Alone
<1> QED
  BY <1>3, <1>6, <1>8, <1>10 DEF SavesSoFar

(* A call failed: nothing is freed.                                         *)
LEMMA SavesFailed ==
  ASSUME IInv, SavesSoFar, NEW k \in DOMAIN todo, At(k), Handled(k), exact' = FALSE,
         \A n \in Names \ {k} : fs[n] # NoFile => fs'[n] = fs[n],
         Counted' = Counted
  PROVE  SavesSoFar'
<1>1. Remaining' \in Nat /\ SizeUnder(k) \in Nat /\ Remaining = SizeUnder(k) + Remaining'
  BY RemainingLess
<1>2. pc = "act" /\ pc' = "act" /\ usage' = usage /\ announced' = announced /\ data' = data
  BY DEF At, Handled
<1>3. Usage' = Usage
  BY <1>2, SameUsage DEF IInv, TypeOK
<1>4. Usage \in Nat /\ Usage' \in Nat /\ usage \in Nat /\ announced \in Nat
  BY <1>3, UsageType DEF IInv, TypeOK
<1>5. usage - Usage <= announced - Remaining
  BY <1>2 DEF SavesSoFar
<1>6. usage' - Usage' <= announced' - Remaining'
  <2>1. PICK r \in Nat : r = Remaining'
    BY <1>1
  <2>2. SizeUnder(k) \in Nat /\ Remaining = SizeUnder(k) + r
    BY <1>1, <2>1
  <2>3. usage - Usage <= announced - r
    BY <1>4, <1>5, <2>2
  <2> QED
    BY <1>2, <1>3, <2>1, <2>3
<1> QED
  BY <1>2, <1>6 DEF SavesSoFar

LEMMA SavesDeleteDuplicate ==
  ASSUME IInv, SavesSoFar, NEW k \in Names, DeleteDuplicate(k)
  PROVE  SavesSoFar'
<1>1. /\ k \in DOMAIN todo /\ At(k) /\ Handled(k) /\ exact' = exact
      /\ fs' = [fs EXCEPT ![k] = NoFile]
  BY DEF DeleteDuplicate, At
<1>2. fs \in [Names -> Entries]
  BY DEF IInv, TypeOK, Entries
<1>3. fs' \in [Names -> Entries] /\ fs'[k] = NoFile /\ \A n \in Names \ {k} : fs'[n] = fs[n]
  BY <1>1, <1>2 DEF Entries
<1> QED
  BY <1>1, <1>3, SavesActed

LEMMA SavesMakeLink ==
  ASSUME IInv, SavesSoFar, NEW k \in Names, MakeLink(k)
  PROVE  SavesSoFar'
<1>1. /\ k \in DOMAIN todo /\ At(k) /\ Handled(k) /\ exact' = exact
      /\ fs' = [fs EXCEPT ![k] = Link(k)]
  BY DEF MakeLink, At
<1>2. fs \in [Names -> Entries] /\ Link(k) \in {todo[k], fs[todo[k]]}
  BY DEF IInv, TypeOK, Entries, Link
<1>3. fs' \in [Names -> Entries] /\ fs'[k] = Link(k) /\ \A n \in Names \ {k} : fs'[n] = fs[n]
  BY <1>1, <1>2, LinkType
<1> QED
  BY <1>1, <1>2, <1>3, SavesActed

LEMMA SavesNothingDone ==
  ASSUME IInv, SavesSoFar, NEW k \in Names, NothingDone(k)
  PROVE  SavesSoFar'
<1>1. k \in DOMAIN todo /\ At(k) /\ Handled(k) /\ exact' = FALSE /\ fs' = fs
  BY DEF NothingDone, At
<1>2. Counted' = Counted
  BY <1>1 DEF Counted, Used, Regular, HoldsResults, Handled
<1> QED
  BY <1>1, <1>2, SavesFailed

LEMMA SavesTemporaryLeft ==
  ASSUME IInv, SavesSoFar, NEW k \in Names, TemporaryLeft(k)
  PROVE  SavesSoFar'
<1>1. CASE Handled(k) /\ exact' = FALSE
  <2>1. PICK t \in Temporaries, e \in {NoFile, Link(k)} :
          fs[t] = NoFile /\ fs' = [fs EXCEPT ![t] = fs[k], ![k] = e]
    BY DEF TemporaryLeft
  <2>2. /\ k \in DOMAIN todo /\ At(k) /\ options' = options /\ t \in Names /\ t # ResultsFile
    BY <1>1, NamesAssumption DEF TemporaryLeft, At, Handled
  <2>3. /\ fs[k] \in Inodes /\ todo[k] \in Names /\ fs[todo[k]] \in Inodes /\ k # t
        /\ options.makeresultsfile => k # ResultsFile
    BY <2>1, <2>2, NotTheResults, EntriesAssumption
  <2>4. fs \in [Names -> Entries] /\ e \in {NoFile, todo[k], fs[todo[k]]}
    BY DEF IInv, TypeOK, Entries, Link
  <2>5. /\ fs'[t] = fs[k] /\ fs'[k] = e
        /\ \A n \in Names \ {k, t} : fs'[n] = fs[n]
    BY <2>1, <2>2, <2>3, <2>4
  <2>6. options.makeresultsfile => fs'[ResultsFile] = fs[ResultsFile]
    BY <2>2, <2>3, <2>5, NamesAssumption
  <2>7. Used' = Used
    <3>1. ASSUME NEW n \in Names, fs[n] \in Inodes
          PROVE  \E m \in Names : fs'[m] = fs[n]
      <4>1. n # t
        BY <2>1, <3>1, EntriesAssumption
      <4> QED
        BY <2>2, <2>5, <4>1
    <3>2. ASSUME NEW n \in Names, fs'[n] \in Inodes
          PROVE  \E m \in Names : fs[m] = fs'[n]
      <4>1. CASE n = k
        BY <2>3, <2>4, <2>5, <3>2, <4>1, EntriesAssumption
      <4>2. CASE n = t
        BY <2>5, <4>2
      <4>3. CASE n \notin {k, t}
        BY <2>5, <4>3
      <4> QED
        BY <4>1, <4>2, <4>3
    <3> QED
      BY <3>1, <3>2 DEF Used, Regular
  <2>8. Counted' = Counted
    BY <2>2, <2>6, <2>7 DEF Counted, HoldsResults
  <2>9. \A n \in Names \ {k} : fs[n] # NoFile => fs'[n] = fs[n]
    BY <2>1, <2>5
  <2> QED
    BY <1>1, <2>2, <2>8, <2>9, SavesFailed
<1>2. CASE Exits
  BY <1>2 DEF Exits, SavesSoFar
<1> QED
  BY <1>1, <1>2 DEF TemporaryLeft

LEMMA SavesCannotPrint ==
  ASSUME IInv, SavesSoFar, CannotWrite, pc # "open"
  PROVE  SavesSoFar'
<1>1. /\ pc = "print" /\ pc' = "act" /\ fs' = fs /\ data' = data /\ options' = options
      /\ todo' = todo /\ announced' = announced /\ usage' = usage /\ exact' = exact
  BY DEF CannotWrite, disk, lists
<1>2. Counted' = Counted
  BY <1>1 DEF Counted, Used, Regular, HoldsResults
<1>3. Usage' = Usage
  BY <1>1, <1>2, SameUsage DEF IInv, TypeOK
<1>4. Remaining' = Remaining
  BY <1>1 DEF Remaining, SizeUnder
<1> QED
  BY <1>1, <1>3, <1>4 DEF SavesSoFar, Alone

LEMMA SavesUnchanged ==
  ASSUME IInv, SavesSoFar, UNCHANGED vars
  PROVE  SavesSoFar'
<1>1. /\ pc' = pc /\ fs' = fs /\ data' = data /\ options' = options
      /\ todo' = todo /\ announced' = announced /\ usage' = usage /\ exact' = exact
  BY DEF vars
<1>2. Counted' = Counted
  BY <1>1 DEF Counted, Used, Regular, HoldsResults
<1>3. Usage' = Usage
  BY <1>1, <1>2, SameUsage DEF IInv, TypeOK
<1>4. Remaining' = Remaining
  BY <1>1 DEF Remaining, SizeUnder
<1> QED
  BY <1>1, <1>3, <1>4 DEF SavesSoFar, Alone

LEMMA SavesNext ==
  ASSUME IInv, SavesSoFar, [Next]_vars
  PROVE  SavesSoFar'
<1>1. CASE pc' \in {"idle", "open", "scan"}
  BY <1>1 DEF SavesSoFar
<1>2. CASE System
  <2>1. CASE StartRun \/ TryWrite \/ Finish
    BY <1>1, <2>1 DEF StartRun, TryWrite, Finish, Exits
  <2> QED
    BY <1>2, <2>1, SavesScan, SavesCompare, SavesAnnounce, SavesPrintToFile,
       SavesDeleteDuplicate, SavesMakeLink DEF System
<1>3. CASE Failure
  <2>1. CASE Crash \/ (CannotWrite /\ pc = "open")
    BY <1>1, <2>1 DEF Crash, CannotWrite, Exits
  <2> QED
    BY <1>3, <2>1, SavesCannotPrint, SavesNothingDone, SavesTemporaryLeft DEF Failure
<1>4. CASE User
  BY <1>1, <1>4 DEF User, UserRemoves, UserWrites, Edit
<1> QED
  BY <1>2, <1>3, <1>4, SavesUnchanged DEF Next

(* When a run has acted on all duplicates it has freed no more than it      *)
(* announced, and exactly that if each duplicate was a file of its own and  *)
(* no call failed, whatever the hard links and the failures.                *)
THEOREM SavesNoMoreThanAnnounced ==
  ASSUME IgnoresEmpty
  PROVE  Spec => []SavesWhatIsAnnounced
<1>1. ASSUME IInv, SavesSoFar
      PROVE  SavesWhatIsAnnounced
  <2>1. ASSUME pc = "act", todo = Nobody
        PROVE  usage - Usage <= announced /\ (exact => usage - Usage = announced)
    <3>1. Remaining = 0
      BY <2>1, NobodyIs, SumOfNone DEF Remaining
    <3>2. announced - Remaining = announced
      BY <1>1, <3>1 DEF IInv, TypeOK
    <3> QED
      BY <2>1, <1>1, <3>2 DEF SavesSoFar
  <2> QED
    BY <2>1 DEF SavesWhatIsAnnounced
<1>2. Init => SavesSoFar
  BY SavesInit
<1>3. IInv /\ SavesSoFar /\ [Next]_vars => SavesSoFar'
  BY SavesNext
<1>4. IInv /\ SavesSoFar => SavesWhatIsAnnounced
  BY <1>1
<1> QED
  BY <1>2, <1>3, <1>4, InductiveRuns, PTL DEF Spec

-----------------------------------------------------------------------------
(* What can be read: every step is one that Promise allows.                 *)

(* The inodes that are looked up before and after a change.                 *)
LEMMA LookupBoth ==
  ASSUME fs \in [Names -> Entries], fs' \in [Names -> Entries], NEW n \in Names, NEW k \in Names
  PROVE  /\ Keeps(fs, fs', n) =>
              \A i \in Inodes : Lookup(n)' = i <=> Lookup(n) = i
         /\ Follows(fs, fs', n, k) =>
              \A i \in Inodes : /\ Lookup(n) = i <=> Lookup(k) = i
                                /\ Lookup(n)' = i <=> Lookup(k)' = i
BY LookupIs, LookupIsNext DEF Keeps, Follows

LEMMA LookupFile ==
  ASSUME fs \in [Names -> Entries], NEW n \in Names, fs[n] \notin Names, NEW i \in Inodes
  PROVE  Lookup(n) = i <=> fs[n] = i
BY LookupIs, FileLeads

LEMMA LookupFileNext ==
  ASSUME fs' \in [Names -> Entries], NEW n \in Names, fs'[n] \notin Names, NEW i \in Inodes
  PROVE  Lookup(n)' = i <=> fs'[n] = i
<1>1. Lookup(n)' = i <=> Leads(fs', n, i)
  BY LookupIsNext
<1>2. Leads(fs', n, i) <=> fs'[n] = i
  BY FileLeads
<1> QED
  BY <1>1, <1>2

LEMMA LookupLinkNext ==
  ASSUME fs' \in [Names -> Entries], NEW n \in Names, NEW m \in Names, fs'[n] = m,
         NEW i \in Inodes
  PROVE  Lookup(n)' = i <=> Lookup(m)' = i
<1>1. /\ Lookup(n)' = i <=> Leads(fs', n, i)
      /\ Lookup(m)' = i <=> Leads(fs', m, i)
  BY LookupIsNext
<1>2. Leads(fs', n, i) <=> Leads(fs', m, i)
  BY LinkLeads
<1> QED
  BY <1>1, <1>2

LEMMA ReadsAt ==
  ASSUME NEW n \in Names
  PROVE  /\ reads[n] = IF Lookup(n) \in Inodes THEN data[Lookup(n)] ELSE Nothing
         /\ reads'[n] = IF Lookup(n)' \in Inodes THEN data'[Lookup(n)'] ELSE Nothing
         /\ n \in results <=> Lookup(n) \in Inodes /\ HoldsResults(Lookup(n))
         /\ n \in results' <=> Lookup(n)' \in Inodes /\ options'.makeresultsfile
                                 /\ fs'[ResultsFile] = Lookup(n)'
BY DEF reads, results, HoldsResults

LEMMA ReadsType ==
  ASSUME fs \in [Names -> Entries], data \in [Inodes -> Contents]
  PROVE  reads \in [Names -> Contents \cup {Nothing}] /\ results \in SUBSET Names
BY DEF reads, results

LEMMA ReadsTypeNext ==
  (fs \in [Names -> Entries] /\ data \in [Inodes -> Contents] =>
     reads \in [Names -> Contents \cup {Nothing}] /\ results \in SUBSET Names)'
<1>1. fs \in [Names -> Entries] /\ data \in [Inodes -> Contents] =>
        reads \in [Names -> Contents \cup {Nothing}] /\ results \in SUBSET Names
  BY ReadsType
<1> QED
  BY <1>1, PTL

LEMMA ReadsAre ==
  ASSUME NEW W, \A n \in Names : reads'[n] = W[n], W = [n \in Names |-> W[n]]
  PROVE  reads' = W
<1>1. reads' = [n \in Names |-> reads'[n]]
  BY DEF reads
<1> QED
  BY <1>1

LEMMA ModeStays ==
  ASSUME options' = options
  PROVE  mode' = mode
BY DEF mode, Acts, Action

(* A step that leaves the directory alone.                                  *)
LEMMA SameDisk ==
  ASSUME fs \in [Names -> Entries], options' = options, fs' = fs, data' = data
  PROVE  UNCHANGED <<reads, results, mode>>
<1>1. \A n \in Names, i \in Inodes : Lookup(n)' = i <=> Lookup(n) = i
  BY LookupIs, LookupIsNext
<1>2. \A n \in Names : reads'[n] = reads[n]
  BY <1>1, ReadsAt
<1>3. reads' = reads
  BY <1>2 DEF reads
<1>4. \A n \in Names : n \in results' <=> n \in results
  BY <1>1, ReadsAt DEF HoldsResults
<1>5. results' = results
  BY <1>4 DEF results
<1> QED
  BY <1>3, <1>5, ModeStays

LEMMA PromiseInit ==
  ASSUME Init
  PROVE  P!Init
<1>1. fs \in [Names -> Entries] /\ data \in [Inodes -> Contents]
  BY FileSystemsAssumption DEF Init, Entries
<1>2. mode \in {"report", "link", "delete"} /\ running = FALSE
  BY DEF mode, running, Init
<1> QED
  BY <1>1, <1>2, ReadsType DEF P!Init

LEMMA PromiseStart ==
  ASSUME IInv, StartRun
  PROVE  P!Start
<1>1. UNCHANGED <<reads, results, mode>>
  BY SameDisk DEF IInv, TypeOK, Entries, StartRun, disk
<1> QED
  BY <1>1 DEF P!Start, running, StartRun

LEMMA PromiseStop ==
  ASSUME IInv, pc # "idle", Exits, options' = options, UNCHANGED disk
  PROVE  P!Stop
<1>1. UNCHANGED <<reads, results, mode>>
  BY SameDisk DEF IInv, TypeOK, Entries, disk
<1> QED
  BY <1>1 DEF P!Stop, running, Exits

LEMMA PromiseStutter ==
  ASSUME IInv, options' = options, UNCHANGED disk, running' = running
  PROVE  UNCHANGED P!vars
<1>1. UNCHANGED <<reads, results, mode>>
  BY SameDisk DEF IInv, TypeOK, Entries, disk
<1> QED
  BY <1>1 DEF P!vars

LEMMA PromiseUser ==
  ASSUME IInv, User
  PROVE  P!User
<1>1. pc = "idle" /\ pc' = pc /\ options' = options
  BY DEF User, UserRemoves, UserWrites, Edit
<1>2. fs' \in [Names -> Entries] /\ data' \in [Inodes -> Contents]
  BY UserInv DEF IInv, TypeOK, Entries
<1>3. ~running /\ running' = running
  BY <1>1 DEF running
<1> QED
  BY <1>1, <1>2, <1>3, ReadsTypeNext, ModeStays DEF P!User

(* Opening and writing the results file is what Promise calls a report.     *)
LEMMA PromiseReport ==
  ASSUME IInv, options.makeresultsfile, NEW i \in Inodes, NEW c \in Contents, IsResults(i),
         fs' = [fs EXCEPT ![ResultsFile] = i], data' = [data EXCEPT ![i] = c],
         options' = options, pc # "idle", pc' # "idle"
  PROVE  P!Report(c)
<1>1. fs \in [Names -> Entries] /\ data \in [Inodes -> Contents] /\ ResultsFile \in Names
  BY NamesAssumption DEF IInv, TypeOK, Entries
<1>2. /\ fs' \in [Names -> Entries] /\ fs'[ResultsFile] = i /\ i \notin Names
      /\ data'[i] = c /\ \A j \in Inodes \ {i} : data'[j] = data[j]
  BY <1>1, EntriesAssumption DEF Entries
<1>3. running /\ running' = running /\ mode' = mode
  BY ModeStays DEF running
<1>4. \A n \in Names : n \in results' <=> Lookup(n)' = i
  BY <1>2, ReadsAt
<1>5. \A n \in Names : n \in results <=> Lookup(n) = i /\ fs[ResultsFile] = i
  <2>1. fs[ResultsFile] # i => fs[ResultsFile] \notin Inodes
    BY EntriesAssumption, ResultsInode, <1>1
  <2> QED
    BY <2>1, ReadsAt DEF HoldsResults
<1>6. ASSUME NEW n \in Names
      PROVE  \/ /\ Lookup(n)' = i
                /\ (fs[ResultsFile] = i /\ Lookup(n) = i)
                   \/ (fs[ResultsFile] # i /\ Lookup(n) \notin Inodes)
             \/ /\ Lookup(n) # i
                /\ \A j \in Inodes : Lookup(n)' = j <=> Lookup(n) = j
  <2>1. \A j \in Inodes : Lookup(ResultsFile)' = j <=> j = i
    BY <1>1, <1>2, LookupFileNext
  <2>2. CASE fs[ResultsFile] = i
    <3>1. fs' = fs
      BY <1>1, <2>2
    <3>2. \A j \in Inodes : /\ Lookup(n)' = j <=> Leads(fs', n, j)
                            /\ Lookup(n) = j <=> Leads(fs, n, j)
      BY <1>1, <1>2, LookupIs, LookupIsNext
    <3>3. \A j \in Inodes : Lookup(n)' = j <=> Lookup(n) = j
      BY <3>1, <3>2
    <3> QED
      BY <2>2, <3>3
  <2>3. CASE fs[ResultsFile] = NoFile /\ \A m \in Names : fs[m] # i
    <3>1. \A j \in Inodes : Lookup(ResultsFile) # j
      BY <1>1, <2>3, LookupFile, EntriesAssumption
    <3>2. ~Leads(fs, n, i)
      BY <2>3 DEF Leads, Closed
    <3>3. Lookup(n) # i
      BY <1>1, <3>2, LookupIs
    <3>4. CASE Follows(fs, fs', n, ResultsFile)
      <4>1. \A j \in Inodes : /\ Lookup(n) = j <=> Lookup(ResultsFile) = j
                              /\ Lookup(n)' = j <=> Lookup(ResultsFile)' = j
        BY <1>1, <1>2, <3>4, LookupBoth
      <4>2. Lookup(n)' = i /\ Lookup(n) \notin Inodes
        BY <2>1, <3>1, <4>1
      <4>3. fs[ResultsFile] # i
        BY <1>1, <2>3
      <4> QED
        BY <4>2, <4>3
    <3>5. CASE Keeps(fs, fs', n)
      <4>1. \A j \in Inodes : Lookup(n)' = j <=> Lookup(n) = j
        BY <1>1, <1>2, <3>5, LookupBoth
      <4> QED
        BY <3>3, <4>1
    <3> QED
      BY <1>1, <3>4, <3>5, OneChanges DEF Entries
  <2> QED
    BY <1>1, <2>2, <2>3, ResultsInode
<1>7. results \subseteq results' /\ results' \in SUBSET Names
  <2>1. results \subseteq Names /\ results' \subseteq Names
    BY DEF results
  <2> QED
    BY <1>4, <1>5, <1>6, <2>1
<1>8. ASSUME NEW n \in results' \ results
      PROVE  reads[n] = Nothing
  <2>1. n \in Names /\ Lookup(n)' = i
    BY <1>4, <1>7
  <2>2. Lookup(n) \notin Inodes
    BY <1>5, <1>6, <1>8, <2>1
  <2> QED
    BY <2>1, <2>2, ReadsAt
<1>9. ASSUME NEW n \in Names
      PROVE  reads'[n] = IF n \in results' THEN c ELSE reads[n]
  <2>1. CASE Lookup(n)' = i
    BY <1>2, <1>4, <2>1, ReadsAt
  <2>2. CASE Lookup(n)' # i
    <3>1. Lookup(n) # i /\ \A j \in Inodes : Lookup(n)' = j <=> Lookup(n) = j
      BY <1>6, <2>2
    <3>2. reads'[n] = reads[n]
      BY <1>2, <2>2, <3>1, ReadsAt
    <3> QED
      BY <1>4, <2>2, <3>2
  <2> QED
    BY <2>1, <2>2
<1>10. reads' = [n \in Names |-> IF n \in results' THEN c ELSE reads[n]]
  <2> DEFINE W == [n \in Names |-> IF n \in results' THEN c ELSE reads[n]]
  <2>1. (\A n \in Names : reads'[n] = W[n]) /\ W = [n \in Names |-> W[n]]
    BY <1>9
  <2> HIDE DEF W
  <2>2. reads' = W
    BY <2>1, ReadsAre
  <2> QED
    BY <2>2 DEF W
<1> QED
  BY <1>3, <1>7, <1>8, <1>10 DEF P!Report

(* Acting on the duplicate k: what is seen of it and of its original, and   *)
(* of a change that is noticed only under names that lead by way of k.      *)
LEMMA SeenOfPair ==
  ASSUME IInv, NEW k \in DOMAIN todo
  PROVE  /\ \A i \in Inodes : Lookup(k) = i <=> i = fs[k]
         /\ \A i \in Inodes : Lookup(todo[k]) = i <=> i = fs[todo[k]]
         /\ reads[k] = data[fs[k]] /\ reads[todo[k]] = data[fs[k]]
         /\ k \notin results /\ todo[k] \notin results
<1>1. /\ k \in Names /\ todo[k] \in Names
      /\ fs[k] \in Inodes /\ fs[todo[k]] \in Inodes /\ data[fs[k]] = data[fs[todo[k]]]
      /\ options.makeresultsfile =>
           fs[k] # fs[ResultsFile] /\ fs[todo[k]] # fs[ResultsFile]
  BY NotTheResults
<1>2. fs \in [Names -> Entries]
  BY DEF IInv, TypeOK, Entries
<1>3. fs[k] \notin Names /\ fs[todo[k]] \notin Names
  BY <1>1, EntriesAssumption
<1>4. /\ \A i \in Inodes : Lookup(k) = i <=> i = fs[k]
      /\ \A i \in Inodes : Lookup(todo[k]) = i <=> i = fs[todo[k]]
  BY <1>1, <1>2, <1>3, LookupFile
<1>5. Lookup(k) = fs[k] /\ Lookup(todo[k]) = fs[todo[k]]
  BY <1>1, <1>4
<1> QED
  BY <1>1, <1>4, <1>5, ReadsAt DEF HoldsResults

LEMMA KeptSeen ==
  ASSUME IInv, fs' \in [Names -> Entries], NEW n \in Names, Keeps(fs, fs', n),
         data' = data, options' = options,
         options.makeresultsfile => fs'[ResultsFile] = fs[ResultsFile]
  PROVE  reads'[n] = reads[n] /\ (n \in results' <=> n \in results)
<1>1. \A i \in Inodes : Lookup(n)' = i <=> Lookup(n) = i
  BY LookupBoth DEF IInv, TypeOK, Entries
<1> QED
  BY <1>1, ReadsAt DEF HoldsResults

LEMMA FollowersSeen ==
  ASSUME IInv, NEW k \in DOMAIN todo, NEW n \in Names,
         fs' \in [Names -> Entries], Follows(fs, fs', n, k)
  PROVE  /\ reads[n] = data[fs[k]] /\ n \notin results
         /\ \A i \in Inodes : Lookup(n)' = i <=> Lookup(k)' = i
<1>1. /\ fs[k] \in Inodes /\ k \in Names
      /\ options.makeresultsfile => fs[k] # fs[ResultsFile]
  BY NotTheResults
<1>2. \A i \in Inodes : /\ Lookup(n) = i <=> Lookup(k) = i
                        /\ Lookup(n)' = i <=> Lookup(k)' = i
  BY <1>1, LookupBoth DEF IInv, TypeOK, Entries
<1>3. Lookup(n) = fs[k]
  BY <1>1, <1>2, SeenOfPair
<1> QED
  BY <1>1, <1>2, <1>3, ReadsAt DEF HoldsResults

(* ... when k is gone *)
LEMMA GoneSeen ==
  ASSUME IInv, NEW k \in DOMAIN todo, NEW n \in Names,
         fs' \in [Names -> Entries], Follows(fs, fs', n, k), fs'[k] = NoFile
  PROVE  reads'[n] = Nothing /\ n \notin results'
<1>1. k \in Names /\ fs'[k] \notin Names /\ fs'[k] \notin Inodes
  BY NotTheResults, EntriesAssumption
<1>2. \A i \in Inodes : Lookup(k)' # i
  BY <1>1, LookupFileNext
<1>3. Lookup(n)' \notin Inodes
  BY <1>2, FollowersSeen
<1> QED
  BY <1>3, ReadsAt

(* ... when k has been replaced by a link *)
LEMMA LinkSeen ==
  ASSUME IInv, NEW k \in DOMAIN todo, NEW n \in Names, data' = data, options' = options,
         fs' \in [Names -> Entries], Follows(fs, fs', n, k),
         fs'[k] \in {todo[k], fs[todo[k]]}, fs'[todo[k]] = fs[todo[k]],
         options.makeresultsfile => fs'[ResultsFile] = fs[ResultsFile]
  PROVE  reads'[n] = reads[n] /\ (n \in results' <=> n \in results)
<1>1. /\ k \in Names /\ todo[k] \in Names
      /\ fs[todo[k]] \in Inodes /\ data[fs[k]] = data[fs[todo[k]]]
      /\ options.makeresultsfile => fs[todo[k]] # fs[ResultsFile]
  BY NotTheResults
<1>2. fs[todo[k]] \notin Names
  BY <1>1, EntriesAssumption
<1>3. \A i \in Inodes : Lookup(k)' = i <=> i = fs[todo[k]]
  <2>1. CASE fs'[k] = fs[todo[k]]
    BY <1>1, <1>2, <2>1, LookupFileNext
  <2>2. CASE fs'[k] = todo[k]
    <3>1. PICK m \in Names : m = todo[k]
      BY <1>1
    <3>2. \A i \in Inodes : Lookup(k)' = i <=> Lookup(m)' = i
      BY <1>1, <2>2, <3>1, LookupLinkNext
    <3>3. fs'[m] = fs[todo[k]] /\ fs'[m] \notin Names
      BY <1>2, <3>1
    <3>4. \A i \in Inodes : Lookup(m)' = i <=> fs'[m] = i
      BY <3>3, LookupFileNext
    <3> QED
      BY <3>2, <3>3, <3>4
  <2> QED
    BY <2>1, <2>2
<1>4. Lookup(n)' = fs[todo[k]]
  BY <1>1, <1>3, FollowersSeen
<1>5. reads'[n] = data[fs[k]] /\ n \notin results'
  BY <1>1, <1>4, ReadsAt
<1> QED
  BY <1>5, FollowersSeen

LEMMA PromiseForget ==
  ASSUME IInv, NEW k \in Names, DeleteDuplicate(k)
  PROVE  \E S \in SUBSET Names : P!Forget(S)
<1>1. /\ k \in DOMAIN todo /\ At(k) /\ Action = "delete" /\ pc' = pc /\ pc = "act" /\ Acts
      /\ fs' = [fs EXCEPT ![k] = NoFile] /\ data' = data /\ options' = options
  BY DEF DeleteDuplicate, At, Handled
<1>2. fs \in [Names -> Entries]
  BY DEF IInv, TypeOK, Entries
<1>3. fs' \in [Names -> Entries] /\ fs'[k] = NoFile /\ \A n \in Names \ {k} : fs'[n] = fs[n]
  BY <1>1, <1>2 DEF Entries
<1>4. /\ todo[k] \in Names /\ todo[k] # k
      /\ options.makeresultsfile => fs'[ResultsFile] = fs[ResultsFile]
  BY <1>1, <1>3, NotTheResults, NamesAssumption
<1>5. running /\ running' = running /\ mode' = mode /\ mode = "delete"
  BY <1>1, ModeStays DEF running, mode
<1> DEFINE S == {n \in Names : Follows(fs, fs', n, k)}
<1>6. ASSUME NEW n \in Names, n \notin S
      PROVE  reads'[n] = reads[n] /\ (n \in results' <=> n \in results)
  <2>1. Keeps(fs, fs', n)
    BY <1>1, <1>2, <1>6, OneChanges DEF Entries
  <2> QED
    BY <1>1, <1>3, <1>4, <2>1, KeptSeen
<1>7. ASSUME NEW n \in S
      PROVE  /\ reads'[n] = Nothing /\ n \notin results' /\ n \notin results
             /\ reads[n] = data[fs[k]]
  BY <1>1, <1>3, GoneSeen, FollowersSeen
<1>8. todo[k] \notin S /\ todo[k] \notin results /\ reads[todo[k]] = data[fs[k]]
  <2>1. ASSUME NEW o \in S, o = todo[k]
        PROVE  FALSE
    <3>1. \A i \in Inodes : Lookup(o)' = i <=> Lookup(k)' = i
      BY <1>1, <1>3, <2>1, FollowersSeen
    <3>2. fs[o] \in Inodes /\ fs'[o] = fs[o] /\ fs[o] \notin Names /\ o \in Names
      BY <1>1, <1>3, <1>4, <2>1, NotTheResults, EntriesAssumption
    <3>3. Lookup(o)' = fs[o]
      BY <1>3, <3>2, LookupFileNext
    <3>4. \A i \in Inodes : Lookup(k)' # i
      BY <1>3, LookupFileNext, EntriesAssumption
    <3> QED
      BY <3>1, <3>2, <3>3, <3>4
  <2> QED
    BY <1>1, <2>1, SeenOfPair
<1> HIDE DEF S
<1>9. S \in SUBSET Names
  BY DEF S
<1>10. results' = results
  <2>1. \A n \in Names : n \in results' <=> n \in results
    BY <1>6, <1>7
  <2>2. results \subseteq Names /\ results' \subseteq Names
    BY DEF results
  <2> QED
    BY <2>1, <2>2
<1>11. \A n \in S : \E m \in Names \ (S \cup results) : reads[m] = reads[n]
  BY <1>4, <1>7, <1>8
<1>12. reads' = [n \in Names |-> IF n \in S THEN Nothing ELSE reads[n]]
  <2> DEFINE W == [n \in Names |-> IF n \in S THEN Nothing ELSE reads[n]]
  <2>1. (\A n \in Names : reads'[n] = W[n]) /\ W = [n \in Names |-> W[n]]
    BY <1>6, <1>7
  <2> HIDE DEF W
  <2>2. reads' = W
    BY <2>1, ReadsAre
  <2> QED
    BY <2>2 DEF W
<1>13. P!Forget(S)
  BY <1>5, <1>10, <1>11, <1>12 DEF P!Forget
<1> QED
  BY <1>9, <1>13

LEMMA PromiseLink ==
  ASSUME IInv, NEW k \in Names, MakeLink(k)
  PROVE  UNCHANGED P!vars
<1>1. /\ k \in DOMAIN todo /\ pc' = pc
      /\ fs' = [fs EXCEPT ![k] = Link(k)] /\ data' = data /\ options' = options
  BY DEF MakeLink, At, Handled
<1>2. fs \in [Names -> Entries] /\ Link(k) \in {todo[k], fs[todo[k]]} /\ Link(k) \in Entries
  BY <1>1, LinkType DEF IInv, TypeOK, Entries, Link
<1>3. fs' \in [Names -> Entries] /\ fs'[k] = Link(k) /\ \A n \in Names \ {k} : fs'[n] = fs[n]
  BY <1>1, <1>2
<1>4. /\ fs'[todo[k]] = fs[todo[k]]
      /\ options.makeresultsfile => fs'[ResultsFile] = fs[ResultsFile]
  BY <1>1, <1>3, NotTheResults, NamesAssumption
<1>5. ASSUME NEW n \in Names
      PROVE  reads'[n] = reads[n] /\ (n \in results' <=> n \in results)
  <2>1. CASE Keeps(fs, fs', n)
    BY <1>1, <1>3, <1>4, <2>1, KeptSeen
  <2>2. CASE Follows(fs, fs', n, k)
    BY <1>1, <1>2, <1>3, <1>4, <2>2, LinkSeen
  <2> QED
    BY <1>1, <1>2, <2>1, <2>2, OneChanges
<1>6. reads' = reads /\ results' = results
  <2>1. results \subseteq Names /\ results' \subseteq Names
    BY DEF results
  <2> QED
    BY <1>5, <2>1 DEF reads
<1>7. mode' = mode /\ running' = running
  BY <1>1, ModeStays DEF running
<1> QED
  BY <1>6, <1>7 DEF P!vars

LEMMA PromiseSetAside ==
  ASSUME IInv, NEW k \in Names, TemporaryLeft(k)
  PROVE  \E S \in SUBSET Names, t \in Names, c \in Contents : P!SetAside(S, t, c)
<1>1. PICK t \in Temporaries, e \in {NoFile, Link(k)} :
        /\ fs[t] = NoFile /\ \A n \in Names : fs[n] # t
        /\ fs' = [fs EXCEPT ![t] = fs[k], ![k] = e]
  BY DEF TemporaryLeft
<1>2. /\ k \in DOMAIN todo /\ At(k) /\ Acts /\ Action \in {"symlink", "hardlink"}
      /\ pc = "act" /\ data' = data /\ options' = options
  BY DEF TemporaryLeft, At, Handled
<1>3. /\ t \in Names /\ t # ResultsFile /\ ResultsFile \in Names /\ t # k
      /\ fs[k] \in Inodes /\ fs[k] \notin Names /\ fs[todo[k]] \in Inodes /\ todo[k] \in Names
      /\ todo[k] # k /\ todo[k] # t
      /\ options.makeresultsfile => k # ResultsFile /\ fs[k] # fs[ResultsFile]
  BY <1>1, <1>2, NamesAssumption, NotTheResults, EntriesAssumption
<1>4. fs \in [Names -> Entries] /\ e \in Entries /\ e \in {NoFile, todo[k], fs[todo[k]]}
      /\ data \in [Inodes -> Contents]
  BY <1>2, LinkType DEF IInv, TypeOK, Entries, Link
<1>5. /\ fs' \in [Names -> Entries] /\ fs'[t] = fs[k] /\ fs'[k] = e
      /\ \A n \in Names \ {k, t} : fs'[n] = fs[n]
  BY <1>1, <1>2, <1>3, <1>4
<1>6. /\ fs'[todo[k]] = fs[todo[k]]
      /\ options.makeresultsfile => fs'[ResultsFile] = fs[ResultsFile]
  BY <1>3, <1>5
<1>7. running /\ running' \in BOOLEAN /\ mode' = mode /\ mode = "link"
  BY <1>2, ModeStays DEF running, mode
<1> DEFINE c == data[fs[k]]
<1> DEFINE S == {n \in Names : e = NoFile /\ n # t /\ Follows(fs, fs', n, k)}
<1>8. ASSUME NEW n \in Names, n \notin S, n # t
      PROVE  reads'[n] = reads[n] /\ (n \in results' <=> n \in results)
  <2>1. CASE Keeps(fs, fs', n)
    BY <1>2, <1>5, <1>6, <2>1, KeptSeen
  <2>2. CASE Follows(fs, fs', n, k)
    <3>1. e # NoFile
      BY <1>8, <2>2
    <3>2. fs'[k] \in {todo[k], fs[todo[k]]}
      BY <1>4, <1>5, <3>1
    <3> QED
      BY <1>2, <1>5, <1>6, <2>2, <3>2, LinkSeen
  <2> HIDE DEF S
  <2>3. Follows(fs, fs', n, k) \/ Keeps(fs, fs', n)
    BY <1>1, <1>3, <1>4, <1>8, MoveChanges
  <2> QED
    BY <2>1, <2>2, <2>3
<1>9. ASSUME NEW n \in S
      PROVE  reads'[n] = Nothing /\ n \notin results' /\ n \notin results /\ reads[n] = c
  BY <1>2, <1>5, GoneSeen, FollowersSeen
<1>10. reads[t] = Nothing /\ t \notin results /\ reads'[t] = c /\ t \notin results'
  <2>1. Lookup(t) \notin Inodes
    BY <1>1, <1>3, <1>4, LookupFile, EntriesAssumption
  <2>2. Lookup(t)' = fs[k]
    BY <1>3, <1>5, LookupFileNext
  <2> QED
    BY <1>2, <1>3, <1>6, <2>1, <2>2, ReadsAt
<1>11. c \in Contents /\ t \notin S
  BY <1>3, <1>4
<1> HIDE DEF S, c
<1>12. S \in SUBSET Names
  BY DEF S
<1>13. results' = results
  <2>1. \A n \in Names : n \in results' <=> n \in results
    BY <1>8, <1>9, <1>10
  <2>2. results \subseteq Names /\ results' \subseteq Names
    BY DEF results
  <2> QED
    BY <2>1, <2>2
<1>14. reads' = [n \in Names |-> IF n = t THEN c ELSE IF n \in S THEN Nothing ELSE reads[n]]
  <2> DEFINE W == [n \in Names |-> IF n = t THEN c ELSE IF n \in S THEN Nothing ELSE reads[n]]
  <2>1. (\A n \in Names : reads'[n] = W[n]) /\ W = [n \in Names |-> W[n]]
    BY <1>8, <1>9, <1>10
  <2> HIDE DEF W
  <2>2. reads' = W
    BY <2>1, ReadsAre
  <2> QED
    BY <2>2 DEF W
<1>15. P!SetAside(S, t, c)
  BY <1>7, <1>9, <1>10, <1>11, <1>13, <1>14 DEF P!SetAside
<1> QED
  BY <1>3, <1>11, <1>12, <1>15

LEMMA PromiseNext ==
  ASSUME IInv, [Next]_vars
  PROVE  [P!Next]_(P!vars)
<1>1. CASE TryWrite
  <2>1. PICK i \in Inodes :
          /\ IsResults(i) /\ fs' = [fs EXCEPT ![ResultsFile] = i]
          /\ data' = [data EXCEPT ![i] = Empty]
    BY <1>1 DEF TryWrite
  <2>2. options.makeresultsfile /\ options' = options /\ pc # "idle" /\ pc' # "idle"
    BY <1>1 DEF IInv, ResultsAreThere, TryWrite
  <2>3. P!Report(Empty) /\ Empty \in Contents
    BY <2>1, <2>2, PromiseReport, ContentsAssumption
  <2> QED
    BY <2>3 DEF P!Next
<1>2. CASE PrintToFile
  <2>1. PICK i \in Inodes, c \in Reports :
          /\ IsResults(i) /\ fs' = [fs EXCEPT ![ResultsFile] = i]
          /\ data' = [data EXCEPT ![i] = c]
    BY <1>2 DEF PrintToFile
  <2>2. options.makeresultsfile /\ options' = options /\ pc # "idle" /\ pc' # "idle"
    BY <1>2 DEF IInv, ResultsAreThere, PrintToFile
  <2>3. P!Report(c) /\ c \in Contents
    BY <2>1, <2>2, PromiseReport, ContentsAssumption
  <2> QED
    BY <2>3 DEF P!Next
<1>3. CASE StartRun
  BY <1>3, PromiseStart DEF P!Next
<1>4. CASE Scan \/ Compare \/ Announce
  <2>1. options' = options /\ UNCHANGED disk /\ running' = running
    BY <1>4 DEF Scan, Compare, Announce, running
  <2> QED
    BY <2>1, PromiseStutter
<1>5. CASE Finish \/ Crash \/ (CannotWrite /\ pc = "open")
  <2>1. pc # "idle" /\ Exits /\ options' = options /\ UNCHANGED disk
    BY <1>5 DEF Finish, Crash, CannotWrite
  <2> QED
    BY <2>1, PromiseStop DEF P!Next
<1>6. CASE CannotWrite /\ pc # "open"
  <2>1. options' = options /\ UNCHANGED disk /\ running' = running
    BY <1>6 DEF CannotWrite, running
  <2> QED
    BY <2>1, PromiseStutter
<1>7. CASE \E k \in Names : DeleteDuplicate(k)
  BY <1>7, PromiseForget DEF P!Next
<1>8. CASE \E k \in Names : MakeLink(k)
  BY <1>8, PromiseLink
<1>9. CASE \E k \in Names : NothingDone(k)
  <2>1. options' = options /\ UNCHANGED disk /\ running' = running
    BY <1>9 DEF NothingDone, Handled, disk, running
  <2> QED
    BY <2>1, PromiseStutter
<1>10. CASE \E k \in Names : TemporaryLeft(k)
  BY <1>10, PromiseSetAside DEF P!Next
<1>11. CASE User
  BY <1>11, PromiseUser DEF P!Next
<1>12. CASE UNCHANGED vars
  <2>1. options' = options /\ UNCHANGED disk /\ running' = running
    BY <1>12 DEF vars, disk, running
  <2> QED
    BY <2>1, PromiseStutter
<1> QED
  BY <1>1, <1>2, <1>3, <1>4, <1>5, <1>6, <1>7, <1>8, <1>9, <1>10, <1>11, <1>12
     DEF Next, System, Failure

(* Run after run, whatever fails or is killed, and with the results file    *)
(* and the temporary names in the directory that is scanned, main() does to *)
(* what can be read no more than Promise allows.                            *)
THEOREM RunsKeepTheirPromise ==
  ASSUME IgnoresEmpty
  PROVE  Spec => KeepsItsPromise
<1>1. Init => P!Init
  BY PromiseInit
<1>2. IInv /\ [Next]_vars => [P!Next]_(P!vars)
  BY PromiseNext
<1>3. Spec => P!Spec
  BY <1>1, <1>2, InductiveRuns, PTL DEF Spec, P!Spec
<1> QED
  BY <1>3 DEF KeepsItsPromise

-----------------------------------------------------------------------------
(* What follows from the promise.                                           *)

K == INSTANCE PromiseProofs

LEMMA SamePromise == (P!Spec <=> K!Spec) /\ (P!NothingIsLost <=> K!NothingIsLost)
<1>1. P!vars = K!vars /\ (P!vars)' = (K!vars)'
  BY DEF P!vars, K!vars
<1>2. P!Init <=> K!Init
  BY DEF P!Init, K!Init
<1>3. P!Next <=> K!Next
  <2>1. /\ P!User <=> K!User
        /\ P!Start <=> K!Start
        /\ P!Stop <=> K!Stop
    BY DEF P!User, K!User, P!Start, K!Start, P!Stop, K!Stop
  <2>2. \A c : P!Report(c) <=> K!Report(c)
    BY DEF P!Report, K!Report
  <2>3. \A S : P!Forget(S) <=> K!Forget(S)
    BY DEF P!Forget, K!Forget
  <2>4. \A S, t, c : P!SetAside(S, t, c) <=> K!SetAside(S, t, c)
    BY DEF P!SetAside, K!SetAside
  <2> QED
    BY <2>1, <2>2, <2>3, <2>4 DEF P!Next, K!Next
<1>4. [P!Next]_(P!vars) <=> [K!Next]_(K!vars)
  BY <1>1, <1>3
<1>5. P!Readable = K!Readable /\ P!Readable' = K!Readable'
  BY DEF P!Readable, K!Readable
<1>6. [running => P!Readable \subseteq P!Readable']_(P!vars)
        <=> [running => K!Readable \subseteq K!Readable']_(K!vars)
  BY <1>1, <1>5
<1>7. P!Spec <=> K!Spec
  BY <1>2, <1>4, PTL DEF P!Spec, K!Spec
<1>8. P!NothingIsLost <=> K!NothingIsLost
  BY <1>6, PTL DEF P!NothingIsLost, K!NothingIsLost
<1> QED
  BY <1>7, <1>8

(* No step of any run takes away what can be read under the names in the    *)
(* directory, except what the results file held: a failure or a kill at any *)
(* point, and whatever links and copies of the results file there are, lose *)
(* no data.                                                                 *)
THEOREM RunsLoseNothing ==
  ASSUME IgnoresEmpty
  PROVE  Spec => P!NothingIsLost
<1>1. K!NothingIsNoContent
  BY ContentsAssumption DEF K!NothingIsNoContent
<1>2. K!Spec => K!NothingIsLost
  BY <1>1, K!KeptPromiseLosesNothing
<1>3. Spec => P!Spec
  BY RunsKeepTheirPromise DEF KeepsItsPromise
<1> QED
  BY <1>2, <1>3, SamePromise
=============================================================================
