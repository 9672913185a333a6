----------------------------- MODULE Induction ------------------------------
(***************************************************************************)
(* Induction over data.  The induction theorems of the library take a      *)
(* predicate, which has no instance the provers could find; WFMin, which   *)
(* only takes sets, says the same of least counterexamples, and from it    *)
(* come induction over the numbers, and over finite sets, for any set that *)
(* one can name, and the existence of what a recursion or a fold computes. *)
(***************************************************************************)
EXTENDS Integers, FiniteSets, FiniteSetsExt, FiniteSetTheorems, TLAPS

LEMMA LeastNat ==
    ASSUME NEW T, T \subseteq Nat, T # {}
    PROVE  \E x \in T : \A y \in T : x <= y
<1> DEFINE R == OpToRel(<, Nat)
<1>1. IsWellFoundedOn(R, Nat)
  BY NatLessThanWellFounded
<1>2. \A x, y \in Nat : y < x => <<y, x>> \in R
  BY DEF OpToRel
<1> HIDE DEF R
<1>3. PICK x \in T : \A y \in T : ~(<<y, x>> \in R)
  BY <1>1, WFMin
<1>4. \A y \in T : ~(y < x)
  BY <1>2, <1>3
<1> QED
  BY <1>4

LEMMA NatInduction1 ==
    ASSUME NEW S, 0 \in S, \A n \in Nat : n \in S => n + 1 \in S
    PROVE  Nat \subseteq S
<1> SUFFICES ASSUME Nat \ S # {} PROVE FALSE
  OBVIOUS
<1>1. PICK x \in Nat \ S : \A y \in Nat \ S : x <= y
  BY LeastNat
<1>2. x - 1 \in Nat /\ x - 1 \notin S
  BY <1>1
<1> QED
  BY <1>1, <1>2

\* What holds of the empty set and, of a finite set, whenever it holds of the set
\* without one of its elements.
LEMMA FiniteInduction ==
    ASSUME NEW D, IsFiniteSet(D), NEW S, {} \in S,
           \A T \in SUBSET D : T # {} /\ (\A x \in T : T \ {x} \in S) => T \in S
    PROVE  D \in S
<1> DEFINE N == {n \in Nat : \A T \in SUBSET D : Cardinality(T) = n => T \in S}
<1>1. \A T \in SUBSET D : IsFiniteSet(T) /\ Cardinality(T) \in Nat
  BY FS_Subset, FS_CardinalityType
<1>2. 0 \in N
  BY <1>1, FS_EmptySet
<1>3. ASSUME NEW n \in Nat, n \in N PROVE n + 1 \in N
  <2> SUFFICES ASSUME NEW T \in SUBSET D, Cardinality(T) = n + 1 PROVE T \in S
    OBVIOUS
  <2>1. T # {}
    BY FS_EmptySet, <1>1
  <2>2. ASSUME NEW x \in T PROVE T \ {x} \in S
    <3>1. Cardinality(T \ {x}) = n
      BY <1>1, FS_RemoveElement
    <3> QED
      BY <3>1, <1>3
  <2> QED
    BY <2>1, <2>2
<1> HIDE DEF N
<1>4. Nat \subseteq N
  BY <1>2, <1>3, NatInduction1
<1> QED
  BY <1>1, <1>4 DEF N

\* A recursion over the numbers up to n, and a fold over the set D which takes the
\* element pick[T] of what is left of it.
IsRecursion(g, n, V, base, step) ==
    /\ g \in [0 .. n -> V]
    /\ g[0] = base
    /\ \A i \in 1 .. n : g[i] = step[<<i, g[i - 1]>>]
IsFold(g, D, V, base, step, pick) ==
    /\ g \in [SUBSET D -> V]
    /\ \A T \in SUBSET D :
           g[T] = IF T = {} THEN base ELSE step[<<pick[T], g[T \ {pick[T]}]>>]

\* Something satisfies the equations of a recursion.
LEMMA Recursion ==
    ASSUME NEW n \in Nat, NEW V, NEW base \in V, NEW step \in [(1 .. n) \X V -> V]
    PROVE  \E g : IsRecursion(g, n, V, base, step)
<1> DEFINE Ok(g, m) == g[0] = base /\ \A i \in 1 .. m : g[i] = step[<<i, g[i - 1]>>]
           S == {m \in Nat : m <= n => \E g \in [0 .. m -> V] : Ok(g, m)}
<1>1. 0 \in S
  <2>1. Ok([i \in 0 .. 0 |-> base], 0)
    OBVIOUS
  <2> QED
    BY <2>1
<1>2. ASSUME NEW m \in Nat, m \in S PROVE m + 1 \in S
  <2> SUFFICES ASSUME m + 1 <= n PROVE \E g \in [0 .. m + 1 -> V] : Ok(g, m + 1)
    OBVIOUS
  <2>1. PICK g \in [0 .. m -> V] : Ok(g, m)
    BY <1>2
  <2> DEFINE h == [i \in 0 .. m + 1 |-> IF i = m + 1 THEN step[<<m + 1, g[m]>>] ELSE g[i]]
  <2>2. h \in [0 .. m + 1 -> V]
    <3>1. <<m + 1, g[m]>> \in (1 .. n) \X V
      OBVIOUS
    <3> QED
      BY <3>1
  <2>3. Ok(h, m + 1)
    <3>1. h[0] = base
      BY <2>1
    <3>2. ASSUME NEW i \in 1 .. m + 1 PROVE h[i] = step[<<i, h[i - 1]>>]
      <4>1. CASE i = m + 1
        <5>1. h[m + 1] = step[<<m + 1, g[m]>>] /\ h[m] = g[m] /\ (m + 1) - 1 = m
          OBVIOUS
        <5> QED
          BY <4>1, <5>1
      <4>2. CASE i \in 1 .. m
        BY <2>1, <4>2
      <4> QED
        BY <4>1, <4>2
    <3> QED
      BY <3>1, <3>2
  <2> HIDE DEF h
  <2> QED
    BY <2>2, <2>3
<1> HIDE DEF S
<1>3. n \in S
  BY <1>1, <1>2, NatInduction1
<1> QED
  BY <1>3 DEF S, IsRecursion

\* Something satisfies those of a fold over a finite set, whatever element is taken
\* next.
LEMMA Folding ==
    ASSUME NEW D, IsFiniteSet(D), NEW V, NEW base \in V, NEW step \in [D \X V -> V],
           NEW pick, \A T \in SUBSET D : T # {} => pick[T] \in T
    PROVE  \E g : IsFold(g, D, V, base, step, pick)
<1> DEFINE Small(n) == {T \in SUBSET D : Cardinality(T) <= n}
           Ok(g, n) == \A T \in Small(n) :
               g[T] = IF T = {} THEN base ELSE step[<<pick[T], g[T \ {pick[T]}]>>]
           P(n) == \E g \in [Small(n) -> V] : Ok(g, n)
           S == {n \in Nat : P(n)}
<1>1. \A T \in SUBSET D : IsFiniteSet(T) /\ Cardinality(T) \in Nat
                          /\ Cardinality(T) <= Cardinality(D) /\ Cardinality(D) \in Nat
  BY FS_Subset, FS_CardinalityType
<1>2. P(0)
  <2> DEFINE g == [T \in Small(0) |-> base]
  <2>1. g \in [Small(0) -> V]
    OBVIOUS
  <2>2. \A T \in Small(0) : T = {}
    BY <1>1, FS_EmptySet
  <2>3. Ok(g, 0)
    BY <2>2
  <2> HIDE DEF g, Small
  <2> QED
    BY <2>1, <2>3
<1>3. ASSUME NEW n \in Nat, P(n) PROVE P(n + 1)
  <2>1. PICK g \in [Small(n) -> V] : Ok(g, n)
    BY <1>3
  <2> DEFINE h == [T \in Small(n + 1) |->
                       IF T = {} THEN base ELSE step[<<pick[T], g[T \ {pick[T]}]>>]]
  <2>2. \A T \in Small(n + 1) : T # {} =>
            T \ {pick[T]} \in Small(n) /\ T \ {pick[T]} \in Small(n + 1) /\ pick[T] \in D
    <3> SUFFICES ASSUME NEW T \in Small(n + 1), T # {}
                 PROVE  /\ T \ {pick[T]} \in Small(n) /\ T \ {pick[T]} \in Small(n + 1)
                        /\ pick[T] \in D
      OBVIOUS
    <3>1. pick[T] \in T
      OBVIOUS
    <3>2. Cardinality(T \ {pick[T]}) = Cardinality(T) - 1
      BY <1>1, <3>1, FS_RemoveElement
    <3> QED
      BY <1>1, <3>1, <3>2
  <2>3. h \in [Small(n + 1) -> V]
    <3> SUFFICES ASSUME NEW T \in Small(n + 1), T # {}
                 PROVE  step[<<pick[T], g[T \ {pick[T]}]>>] \in V
      OBVIOUS
    <3>1. g[T \ {pick[T]}] \in V /\ pick[T] \in D
      BY <2>2
    <3> QED
      BY <3>1
  <2>4. \A T \in Small(n) : T \in Small(n + 1) /\ h[T] = g[T]
    BY <1>1, <2>1
  <2>5. Ok(h, n + 1)
    <3> SUFFICES ASSUME NEW T \in Small(n + 1), T # {}
                 PROVE  h[T] = step[<<pick[T], h[T \ {pick[T]}]>>]
      OBVIOUS
    <3>1. h[T] = step[<<pick[T], g[T \ {pick[T]}]>>]
      OBVIOUS
    <3>2. h[T \ {pick[T]}] = g[T \ {pick[T]}]
      BY <2>2, <2>4
    <3> QED
      BY <3>1, <3>2
  <2> HIDE DEF h, Small
  <2> QED
    BY <2>3, <2>5
<1>4. Cardinality(D) \in S
  <2> HIDE DEF P
  <2>1. 0 \in S /\ \A n \in Nat : n \in S => n + 1 \in S
    BY <1>2, <1>3
  <2> HIDE DEF S
  <2>2. Nat \subseteq S
    BY <2>1, NatInduction1
  <2> QED
    BY <1>1, <2>2, FS_EmptySet
<1>5. Small(Cardinality(D)) = SUBSET D
  BY <1>1
<1> HIDE DEF Small
<1> QED
  BY <1>4, <1>5 DEF IsFold

LEMMA MaxFacts ==
    ASSUME NEW n \in Nat, NEW T \in SUBSET (1 .. n), T # {}
    PROVE  Max(T) \in T /\ \A x \in T : x <= Max(T)
<1> DEFINE Below == {n - x : x \in T}
<1>1. PICK y \in Below : \A z \in Below : y <= z
  <2>1. \A x \in T : n - x \in Nat
    OBVIOUS
  <2>2. Below \subseteq Nat /\ Below # {}
    BY <2>1, Zenon
  <2> HIDE DEF Below
  <2> QED
    BY <2>2, LeastNat
<1>2. n - y \in T /\ \A x \in T : x <= n - y
  BY <1>1
<1> QED
  BY <1>2 DEF Max

\* A fold from left to right, as FoldLeft defines it: over sets of positions, the
\* last one taken first.
LastOf(n) == [T \in SUBSET (1 .. n) |-> Max(T)]

LEMMA LastFacts ==
    ASSUME NEW n \in Nat
    PROVE  /\ \A T \in SUBSET (1 .. n) : LastOf(n)[T] = Max(T)
           /\ \A T \in SUBSET (1 .. n) : T # {} => Max(T) \in T
           /\ \A i \in 1 .. n : Max(1 .. i) = i /\ (1 .. i) \ {i} = 1 .. i - 1
           /\ \A i \in 0 .. n : 1 .. i \in SUBSET (1 .. n)
<1>1. \A T \in SUBSET (1 .. n) : T # {} => Max(T) \in T /\ \A x \in T : x <= Max(T)
  BY MaxFacts
<1>2. \A T \in SUBSET (1 .. n) : LastOf(n)[T] = Max(T)
  BY DEF LastOf
<1>3. \A i \in 0 .. n : 1 .. i \in SUBSET (1 .. n)
  OBVIOUS
<1>4. ASSUME NEW i \in 1 .. n PROVE Max(1 .. i) = i
  <2>1. 1 .. i \in SUBSET (1 .. n) /\ i \in 1 .. i
    OBVIOUS
  <2>2. Max(1 .. i) \in 1 .. i /\ i <= Max(1 .. i)
    BY <2>1, <1>1
  <2> QED
    BY <2>2
<1>5. \A i \in 1 .. n : (1 .. i) \ {i} = 1 .. i - 1
  OBVIOUS
<1> QED
  BY <1>1, <1>2, <1>3, <1>4, <1>5

LEMMA LeftFoldExists ==
    ASSUME NEW n \in Nat, NEW V, NEW base \in V, NEW step \in [(1 .. n) \X V -> V]
    PROVE  \E it : IsFold(it, 1 .. n, V, base, step, LastOf(n))
<1>1. \A T \in SUBSET (1 .. n) : T # {} => LastOf(n)[T] \in T
  BY LastFacts
<1>2. IsFiniteSet(1 .. n)
  BY FS_Interval
<1> QED
  BY <1>1, <1>2, Folding

\* Whatever satisfies these equations computes the recursion over the positions.
IsLeftFold(it, n, V, base, step) ==
    /\ it[{}] = base
    /\ \A T \in SUBSET (1 .. n) : T # {} /\ it[T \ {Max(T)}] \in V =>
           it[T] = step[<<Max(T), it[T \ {Max(T)}]>>]

Unwinds(g, it, n, V, base, step) ==
    IsRecursion(g, n, V, base, step) /\ it[1 .. n] = g[n]

LEMMA LeftFoldTurns ==
    ASSUME NEW n \in Nat, NEW V, NEW base \in V, NEW step \in [(1 .. n) \X V -> V],
           NEW it, IsLeftFold(it, n, V, base, step)
    PROVE  \E g : Unwinds(g, it, n, V, base, step)
<1>1. PICK g : IsRecursion(g, n, V, base, step)
  BY Recursion
<1> DEFINE S == {m \in Nat : m <= n => it[1 .. m] = g[m]}
<1>2. 0 \in S
  BY <1>1 DEF IsRecursion, IsLeftFold
<1>3. ASSUME NEW m \in Nat, m \in S PROVE m + 1 \in S
  <2> SUFFICES ASSUME m + 1 <= n PROVE it[1 .. m + 1] = g[m + 1]
    OBVIOUS
  <2>1. /\ Max(1 .. m + 1) = m + 1 /\ (1 .. m + 1) \ {m + 1} = 1 .. m
        /\ 1 .. m + 1 \in SUBSET (1 .. n)
    BY LastFacts
  <2>2. it[1 .. m] = g[m] /\ g[m] \in V
    BY <1>1, <1>3 DEF IsRecursion
  <2>3. 1 .. m + 1 # {}
    OBVIOUS
  <2>4. it[1 .. m + 1] = step[<<m + 1, g[m]>>]
    BY <2>1, <2>2, <2>3 DEF IsLeftFold
  <2>5. g[m + 1] = step[<<m + 1, g[(m + 1) - 1]>>] /\ (m + 1) - 1 = m
    BY <1>1 DEF IsRecursion
  <2> QED
    BY <2>4, <2>5
<1> HIDE DEF S
<1>4. n \in S
  BY <1>2, <1>3, NatInduction1
<1> QED
  BY <1>1, <1>4 DEF S, Unwinds

\* Of finitely many whole numbers one is the greatest.
LEMMA Greatest ==
    ASSUME NEW D, IsFiniteSet(D), D # {}, NEW f, \A x \in D : f[x] \in Int
    PROVE  \E x \in D : \A y \in D : f[x] >= f[y]
<1> DEFINE S == {T \in SUBSET D : T = {} \/ \E x \in T : \A y \in T : f[x] >= f[y]}
<1>1. {} \in S
  OBVIOUS
<1>2. ASSUME NEW T \in SUBSET D, T # {}, \A x \in T : T \ {x} \in S PROVE T \in S
  <2>1. PICK x \in T : TRUE
    BY <1>2
  <2>2. CASE T \ {x} = {}
    <3>1. \A y \in T : y = x
      BY <2>2
    <3> QED
      BY <2>1, <3>1
  <2>3. CASE T \ {x} # {}
    <3>1. PICK z \in T \ {x} : \A y \in T \ {x} : f[z] >= f[y]
      BY <1>2, <2>1, <2>3
    <3>2. CASE f[z] >= f[x]
      <4>1. \A y \in T : f[z] >= f[y]
        BY <3>1, <3>2
      <4> QED
        BY <3>1, <4>1
    <3>3. CASE ~(f[z] >= f[x])
      <4>1. f[x] \in Int /\ f[z] \in Int /\ \A y \in T : f[y] \in Int
        BY <2>1, <3>1
      <4>2. \A y \in T \ {x} : f[x] >= f[y]
        BY <3>1, <3>3, <4>1
      <4>3. \A y \in T : f[x] >= f[y]
        BY <4>1, <4>2
      <4> QED
        BY <2>1, <4>3
    <3> QED
      BY <3>2, <3>3
  <2> QED
    BY <2>2, <2>3
<1> HIDE DEF S
<1>3. D \in S
  BY <1>1, <1>2, FiniteInduction
<1> QED
  BY <1>3 DEF S
=============================================================================
