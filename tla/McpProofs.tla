----------------------------- MODULE McpProofs ------------------------------
(***************************************************************************)
(* Theorems about the MCP server, for every set of URLs, vaults, paths,    *)
(* searches and requests: what its sessions serve, where its calls reach   *)
(* and what a search of a scope answers.                                   *)
(*                                                                         *)
(* First what the operators on sequences and texts do (Without, Join,      *)
(* IsPrefix), then scopes and answers, then the invariant and its steps,   *)
(* then the rankings of a search, their spread over the paths, and the     *)
(* search of a scope.                                                      *)
(***************************************************************************)
EXTENDS Mcp, Induction, SequenceTheorems

----------------------------------------------------------------------------
(* Without: what a filter leaves.                                          *)

IsFilter(g, s, out) ==
    /\ g[0] = <<>>
    /\ \A i \in 1 .. Len(s) : g[i] = IF s[i] \in out THEN g[i - 1] ELSE Append(g[i - 1], s[i])

Filters(g, S, s, out) ==
    g \in [0 .. Len(s) -> Seq(S)] /\ IsFilter(g, s, out) /\ Without(s, out) = g[Len(s)]

LEMMA WithoutTurns ==
    ASSUME NEW S, NEW s \in Seq(S), NEW out
    PROVE  \E g : Filters(g, S, s, out)
<1> DEFINE n == Len(s)
           V == Seq(S)
           op(i, kept) == IF s[i] \in out THEN kept ELSE Append(kept, s[i])
           step == [p \in (1 .. n) \X V |-> op(p[1], p[2])]
           Eq(it) == it = [T \in SUBSET (1 .. n) |->
                               IF T = {} THEN <<>> ELSE op(Max(T), it[T \ {Max(T)}])]
           fold == CHOOSE it : Eq(it)
<1>1. n \in Nat /\ DOMAIN s = 1 .. n /\ \A i \in 1 .. n : s[i] \in S
  BY LenProperties, ElementOfSeq
<1>2. <<>> \in V
  BY EmptySeq
<1>3. \A i \in 1 .. n, kept \in V : op(i, kept) \in V /\ step[<<i, kept>>] = op(i, kept)
  BY <1>1, AppendProperties
<1>4. step \in [(1 .. n) \X V -> V]
  BY <1>3
<1>5. Without(s, out) = fold[1 .. n]
  BY <1>1, Zenon DEF Without, FoldLeft, MapThenFoldSet
<1> HIDE DEF step, op, V, n
<1>6. PICK it : IsFold(it, 1 .. n, V, <<>>, step, LastOf(n))
  BY <1>1, <1>2, <1>4, LeftFoldExists
<1>7. Eq(it)
  <2>1. ASSUME NEW T \in SUBSET (1 .. n)
        PROVE  it[T] = IF T = {} THEN <<>> ELSE op(Max(T), it[T \ {Max(T)}])
    <3>1. it[T] = IF T = {} THEN <<>> ELSE step[<<Max(T), it[T \ {Max(T)}]>>]
      BY <1>1, <1>6, LastFacts DEF IsFold
    <3>2. T # {} => Max(T) \in 1 .. n /\ it[T \ {Max(T)}] \in V
      BY <1>1, <1>6, LastFacts DEF IsFold
    <3> QED
      BY <1>3, <3>1, <3>2
  <2> QED
    BY <1>6, <2>1 DEF IsFold
<1>8. Eq(fold)
  BY <1>7
<1> HIDE DEF fold
<1>9. fold[{}] = <<>>
  BY <1>8
<1>10. IsLeftFold(fold, n, V, <<>>, step)
  <2>1. ASSUME NEW T \in SUBSET (1 .. n), T # {}, fold[T \ {Max(T)}] \in V
        PROVE  fold[T] = step[<<Max(T), fold[T \ {Max(T)}]>>]
    <3>1. fold[T] = op(Max(T), fold[T \ {Max(T)}])
      BY <1>8, <2>1
    <3>2. Max(T) \in 1 .. n
      BY <1>1, <2>1, LastFacts
    <3> QED
      BY <1>3, <2>1, <3>1, <3>2
  <2> QED
    BY <1>9, <2>1 DEF IsLeftFold
<1>11. PICK g : Unwinds(g, fold, n, V, <<>>, step)
  BY <1>1, <1>2, <1>4, <1>10, LeftFoldTurns
<1>12. IsFilter(g, s, out)
  <2>1. ASSUME NEW i \in 1 .. n PROVE g[i] = op(i, g[i - 1])
    <3>1. g[i - 1] \in V /\ g[i] = step[<<i, g[i - 1]>>]
      BY <1>1, <1>11 DEF IsRecursion, Unwinds
    <3> QED
      BY <1>3, <3>1
  <2> QED
    BY <1>11, <2>1 DEF IsRecursion, Unwinds, IsFilter, op, n
<1> QED
  BY <1>5, <1>11, <1>12 DEF IsRecursion, Unwinds, Filters, n, V

\* What is left is what was there and is not in `out`, in as many places at most, and
\* in different places where it was.
Distinct(s) == \A i, j \in 1 .. Len(s) : s[i] = s[j] => i = j

LEMMA WithoutFacts ==
    ASSUME NEW S, NEW s \in Seq(S), NEW out
    PROVE  /\ Without(s, out) \in Seq(S)
           /\ Range(Without(s, out)) = Range(s) \ out
           /\ Len(Without(s, out)) <= Len(s)
           /\ Distinct(s) => Distinct(Without(s, out))
<1>1. PICK g : Filters(g, S, s, out)
  BY WithoutTurns
<1> DEFINE n == Len(s)
           Inv(i) == /\ \A y : y \in Range(g[i]) <=> \E j \in 1 .. i : s[j] = y /\ y \notin out
                     /\ Len(g[i]) <= i
                     /\ Distinct(s) => Distinct(g[i])
           N == {i \in Nat : i <= n => Inv(i)}
<1>2. n \in Nat /\ \A i \in 1 .. n : s[i] \in S
  BY LenProperties, ElementOfSeq
<1>3. \A t \in Seq(S) : Len(t) \in Nat /\ Range(t) = {t[i] : i \in 1 .. Len(t)}
  BY LenProperties, RangeEquality
<1>4. 0 \in N
  <2>1. g[0] = <<>> /\ Len(g[0]) = 0 /\ g[0] \in Seq(S)
    BY <1>1, <1>2 DEF Filters, IsFilter
  <2>2. Range(g[0]) = {}
    BY <2>1 DEF Range
  <2>3. Distinct(g[0])
    BY <2>1 DEF Distinct
  <2> QED
    BY <2>1, <2>2, <2>3
<1>5. ASSUME NEW i \in Nat, i \in N PROVE i + 1 \in N
  <2> SUFFICES ASSUME i + 1 <= n PROVE Inv(i + 1)
    OBVIOUS
  <2>1. Inv(i) /\ g[i] \in Seq(S) /\ s[i + 1] \in S
    <3>1. i <= n /\ i \in 0 .. n /\ i + 1 \in 1 .. n
      BY <1>2
    <3>2. Inv(i)
      BY <1>5, <3>1
    <3>3. g[i] \in Seq(S) /\ s[i + 1] \in S
      BY <1>1, <1>2, <3>1 DEF Filters
    <3> QED
      BY <3>2, <3>3
  <2>2. g[i + 1] = IF s[i + 1] \in out THEN g[i] ELSE Append(g[i], s[i + 1])
    <3>1. i + 1 \in 1 .. Len(s) /\ (i + 1) - 1 = i
      BY <1>2
    <3> QED
      BY <1>1, <3>1 DEF Filters, IsFilter
  <2>3. CASE s[i + 1] \in out
    <3>1. g[i + 1] = g[i]
      BY <2>2, <2>3
    <3>2. \A y : (\E j \in 1 .. i + 1 : s[j] = y /\ y \notin out)
                 <=> \E j \in 1 .. i : s[j] = y /\ y \notin out
      BY <2>3
    <3> QED
      BY <1>3, <2>1, <3>1, <3>2
  <2>4. CASE s[i + 1] \notin out
    <3>1. /\ g[i + 1] = Append(g[i], s[i + 1]) /\ g[i + 1] \in Seq(S)
          /\ Len(g[i + 1]) = Len(g[i]) + 1
          /\ \A k \in 1 .. Len(g[i]) : g[i + 1][k] = g[i][k]
          /\ g[i + 1][Len(g[i]) + 1] = s[i + 1]
      BY <2>1, <2>2, <2>4, AppendProperties
    <3>2. \A y : y \in Range(g[i + 1]) <=> y \in Range(g[i]) \/ y = s[i + 1]
      <4>1. /\ Range(g[i]) = {g[i][k] : k \in 1 .. Len(g[i])}
            /\ Range(g[i + 1]) = {g[i + 1][k] : k \in 1 .. Len(g[i + 1])}
            /\ Len(g[i]) \in Nat
        BY <1>3, <2>1, <3>1, Zenon
      <4>2. \A k \in 1 .. Len(g[i + 1]) : k \in 1 .. Len(g[i]) \/ k = Len(g[i]) + 1
        BY <3>1, <4>1
      <4>3. /\ \A k \in 1 .. Len(g[i]) : k \in 1 .. Len(g[i + 1])
            /\ Len(g[i]) + 1 \in 1 .. Len(g[i + 1])
        BY <3>1, <4>1
      <4> QED
        BY <3>1, <4>1, <4>2, <4>3
    <3>3. \A y : y \in Range(g[i + 1]) <=> \E j \in 1 .. i + 1 : s[j] = y /\ y \notin out
      BY <2>1, <2>4, <3>2
    <3>4. ASSUME Distinct(s), NEW k \in 1 .. Len(g[i]) PROVE g[i + 1][k] # s[i + 1]
      <4>1. g[i][k] \in Range(g[i])
        BY <1>3, <2>1
      <4>2. PICK j \in 1 .. i : s[j] = g[i][k]
        BY <2>1, <4>1
      <4> QED
        BY <1>2, <3>1, <3>4, <4>2 DEF Distinct
    <3>5. ASSUME Distinct(s) PROVE Distinct(g[i + 1])
      <4>1. Distinct(g[i])
        BY <2>1, <3>5
      <4> QED
        BY <1>3, <2>1, <3>1, <3>4, <3>5, <4>1 DEF Distinct
    <3>6. Len(g[i + 1]) <= i + 1
      BY <1>3, <2>1, <3>1
    <3> QED
      BY <3>3, <3>5, <3>6
  <2> QED
    BY <2>3, <2>4
<1> HIDE DEF N
<1>6. n \in N
  BY <1>2, <1>4, <1>5, NatInduction1
<1>7. Inv(n)
  BY <1>2, <1>6 DEF N
<1>8. g[n] \in Seq(S) /\ Without(s, out) = g[n]
  BY <1>1, <1>2 DEF Filters
<1>9. Range(g[n]) = Range(s) \ out
  <2>1. Range(s) = {s[j] : j \in 1 .. n}
    BY <1>3
  <2> QED
    BY <1>7, <2>1
<1> QED
  BY <1>7, <1>8, <1>9

LEMMA WithoutNothing ==
    ASSUME NEW S, NEW s \in Seq(S), NEW out, \A i \in 1 .. Len(s) : s[i] \notin out
    PROVE  Without(s, out) = s
<1>1. PICK g : Filters(g, S, s, out)
  BY WithoutTurns
<1> DEFINE n == Len(s)
           N == {i \in Nat : i <= n => Len(g[i]) = i /\ \A j \in 1 .. i : g[i][j] = s[j]}
<1>2. n \in Nat /\ \A i \in 1 .. n : s[i] \in S
  BY LenProperties, ElementOfSeq
<1>3. 0 \in N
  BY <1>1 DEF Filters, IsFilter
<1>4. ASSUME NEW i \in Nat, i \in N PROVE i + 1 \in N
  <2> SUFFICES ASSUME i + 1 <= n
               PROVE  Len(g[i + 1]) = i + 1 /\ \A j \in 1 .. i + 1 : g[i + 1][j] = s[j]
    OBVIOUS
  <2>1. g[i] \in Seq(S) /\ s[i + 1] \in S /\ Len(g[i]) = i /\ \A j \in 1 .. i : g[i][j] = s[j]
    BY <1>1, <1>2, <1>4 DEF Filters
  <2>2. g[i + 1] = Append(g[i], s[i + 1])
    <3>1. i + 1 \in 1 .. Len(s) /\ (i + 1) - 1 = i
      BY <1>2
    <3> QED
      BY <1>1, <3>1 DEF Filters, IsFilter
  <2>3. /\ Len(g[i + 1]) = Len(g[i]) + 1
        /\ \A k \in 1 .. Len(g[i]) : g[i + 1][k] = g[i][k]
        /\ g[i + 1][Len(g[i]) + 1] = s[i + 1]
    BY <2>1, <2>2, AppendProperties
  <2> QED
    BY <2>1, <2>3
<1> HIDE DEF N
<1>5. n \in N
  BY <1>2, <1>3, <1>4, NatInduction1
<1>6. Without(s, out) \in Seq(S) /\ Len(Without(s, out)) = Len(s)
      /\ \A i \in 1 .. Len(s) : Without(s, out)[i] = s[i]
  BY <1>1, <1>2, <1>5 DEF N, Filters
<1> QED
  BY <1>6, SeqEqual

Shifts(p, t, e) == Append(p \o t, e) = p \o Append(t, e)

LEMMA AppendLast ==
    ASSUME NEW S, NEW p \in Seq(S), NEW t \in Seq(S), NEW e \in S
    PROVE  Shifts(p, t, e)
<1> DEFINE one == <<e>>
<1>1. one \in Seq(S) /\ p \o t \in Seq(S)
  OBVIOUS
<1>2. Append(t, e) = t \o one /\ Append(p \o t, e) = (p \o t) \o one
  BY <1>1, AppendIsConcat
<1> HIDE DEF one
<1>3. (p \o t) \o one = p \o (t \o one)
  BY <1>1, ConcatAssociative
<1> QED
  BY <1>2, <1>3 DEF Shifts

IsHead(p, x) == Len(p) = 1 /\ p[1] = x

Follows(l, x, s, S) ==
    l \in Seq(S) /\ Len(l) = Len(s) + 1 /\ l[1] = x /\ \A i \in 1 .. Len(s) : l[i + 1] = s[i]

LEMMA HeadConcat ==
    ASSUME NEW S, NEW p \in Seq(S), NEW s \in Seq(S), NEW x, IsHead(p, x)
    PROVE  Follows(p \o s, x, s, S)
<1> DEFINE l == p \o s
           n == Len(s)
<1>1. n \in Nat
  BY LenProperties
<1>2. Len(p) = 1 /\ p[1] = x
  BY DEF IsHead
<1>3. /\ l \in Seq(S) /\ Len(l) = Len(p) + Len(s)
      /\ \A i \in 1 .. Len(p) + Len(s) : l[i] = IF i <= Len(p) THEN p[i] ELSE s[i - Len(p)]
  BY ConcatProperties, Zenon
<1> HIDE DEF l, n
<1>4. l[1] = x
  BY <1>1, <1>2, <1>3 DEF n
<1>5. ASSUME NEW i \in 1 .. n PROVE l[i + 1] = s[i]
  <2>1. i + 1 \in 1 .. Len(p) + Len(s) /\ ~(i + 1 <= Len(p)) /\ (i + 1) - Len(p) = i
    BY <1>1, <1>2 DEF n
  <2> QED
    BY <1>3, <2>1
<1>6. Len(l) = n + 1
  BY <1>1, <1>2, <1>3 DEF n
<1> QED
  BY <1>3, <1>4, <1>5, <1>6 DEF l, n, Follows

LEMMA WithoutHead ==
    ASSUME NEW S, NEW p \in Seq(S), NEW s \in Seq(S), NEW out,
           NEW x, IsHead(p, x), x \notin out
    PROVE  Without(p \o s, out) = p \o Without(s, out)
<1> DEFINE l == p \o s
           n == Len(s)
<1>1. n \in Nat /\ \A i \in 1 .. n : s[i] \in S
  BY LenProperties, ElementOfSeq
<1>0. Len(p) = 1 /\ p[1] = x
  BY DEF IsHead
<1>2. l \in Seq(S) /\ Len(l) = n + 1 /\ l[1] = x /\ \A i \in 1 .. n : l[i + 1] = s[i]
  BY HeadConcat DEF Follows
<1> HIDE DEF l
<1>3. PICK g : Filters(g, S, s, out)
  BY WithoutTurns
<1>4. PICK h : Filters(h, S, l, out)
  BY <1>2, WithoutTurns
<1> DEFINE N == {i \in Nat : i <= n => h[i + 1] = p \o g[i]}
<1>5. 0 \in N
  <2>1. h[1] = Append(h[0], x) /\ h[0] = <<>>
    <3>1. 1 \in 1 .. Len(l) /\ 1 - 1 = 0
      BY <1>1, <1>2
    <3> QED
      BY <1>2, <1>4, <3>1 DEF Filters, IsFilter
  <2>2. h[1] \in Seq(S) /\ Len(h[1]) = 1 /\ h[1][1] = x
    <3>1. x \in S
      <4>1. \A i \in 1 .. Len(p) : p[i] \in S
        BY ElementOfSeq
      <4> QED
        BY <1>0, <4>1
    <3> QED
      BY <2>1, <3>1, AppendProperties, EmptySeq
  <2>3. h[1] = p
    BY <1>0, <2>2, SeqEqual
  <2>4. p \o <<>> = p /\ g[0] = <<>>
    BY <1>3, ConcatEmptySeq DEF Filters, IsFilter
  <2> QED
    BY <2>3, <2>4
<1>6. ASSUME NEW i \in Nat, i \in N PROVE i + 1 \in N
  <2> SUFFICES ASSUME i + 1 <= n PROVE h[(i + 1) + 1] = p \o g[i + 1]
    OBVIOUS
  <2>1. g[i] \in Seq(S) /\ s[i + 1] \in S /\ h[i + 1] = p \o g[i]
    <3>1. i \in 0 .. Len(s) /\ i + 1 \in 1 .. n /\ i <= n
      BY <1>1
    <3> QED
      BY <1>1, <1>3, <1>6, <3>1 DEF Filters
  <2>2. g[i + 1] = IF s[i + 1] \in out THEN g[i] ELSE Append(g[i], s[i + 1])
    <3>1. i + 1 \in 1 .. Len(s) /\ (i + 1) - 1 = i
      BY <1>1
    <3> QED
      BY <1>3, <3>1 DEF Filters, IsFilter
  <2>3. h[(i + 1) + 1] = IF s[i + 1] \in out THEN h[i + 1] ELSE Append(h[i + 1], s[i + 1])
    <3>1. (i + 1) + 1 \in 1 .. Len(l) /\ ((i + 1) + 1) - 1 = i + 1 /\ l[(i + 1) + 1] = s[i + 1]
      BY <1>1, <1>2
    <3> QED
      BY <1>4, <3>1 DEF Filters, IsFilter
  <2>4. Append(p \o g[i], s[i + 1]) = p \o Append(g[i], s[i + 1])
    <3>1. Shifts(p, g[i], s[i + 1])
      BY <2>1, AppendLast
    <3> QED
      BY <3>1 DEF Shifts
  <2> QED
    BY <2>1, <2>2, <2>3, <2>4
<1> HIDE DEF N
<1>7. n \in N
  BY <1>1, <1>5, <1>6, NatInduction1
<1>8. h[n + 1] = p \o g[n]
  BY <1>1, <1>7 DEF N
<1> QED
  BY <1>2, <1>3, <1>4, <1>8 DEF l, Filters

----------------------------------------------------------------------------
(* Texts: prefixes, and segments that are joined.                          *)

\* The provers know strings apart, and not that a string is in STRING.
Character == STRING \cup {"/", ".", "a", "NUL"}
Text == Seq(Character)
Slash == <<"/">>
Joined(s, t) == (s \o Slash) \o t

LEMMA TextFacts ==
    /\ <<>> \in Text /\ Slash \in Text /\ Len(Slash) = 1
    /\ \A s \in Text : Len(s) \in Nat /\ (Len(s) = 0 <=> s = <<>>)
    /\ \A s, t \in Text : s \o t \in Text /\ Len(s \o t) = Len(s) + Len(t)
<1>1. <<>> \in Text
  BY EmptySeq DEF Text
<1>2. Slash \in Text /\ Len(Slash) = 1
  <2>1. "/" \in Character
    BY DEF Character
  <2>2. Slash \in Seq(Character) /\ Len(Slash) = 1
    BY <2>1 DEF Slash
  <2> QED
    BY <2>2 DEF Text
<1>3. \A s \in Text : Len(s) \in Nat /\ (Len(s) = 0 <=> s = <<>>)
  BY EmptySeq, LenProperties DEF Text
<1>4. ASSUME NEW s \in Text, NEW t \in Text
      PROVE  s \o t \in Text /\ Len(s \o t) = Len(s) + Len(t)
  BY ConcatProperties DEF Text
<1> QED
  BY <1>1, <1>2, <1>3, <1>4

Associates(s, t, u) == (s \o t) \o u = s \o (t \o u)

LEMMA Associative ==
    ASSUME NEW s \in Text, NEW t \in Text, NEW u \in Text
    PROVE  Associates(s, t, u)
  BY ConcatAssociative DEF Associates, Text

JoinsTwice(s, t, u) == Joined(Joined(s, t), u) = Joined(s, Joined(t, u))

LEMMA JoinedFacts ==
    ASSUME NEW s \in Text, NEW t \in Text
    PROVE  /\ Joined(s, t) \in Text /\ Len(Joined(s, t)) = Len(s) + 1 + Len(t)
           /\ Joined(s, t) # <<>>
<1> DEFINE a == s \o Slash
<1>1. a \in Text /\ Len(a) = Len(s) + 1
  BY TextFacts
<1> HIDE DEF a
<1>2. a \o t \in Text /\ Len(a \o t) = Len(s) + 1 + Len(t)
  BY <1>1, TextFacts
<1>3. Len(s) \in Nat /\ Len(t) \in Nat
  BY TextFacts
<1>4. Len(a \o t) # 0
  BY <1>2, <1>3
<1>5. a \o t # <<>>
  BY <1>2, <1>4, TextFacts
<1> QED
  BY <1>2, <1>5 DEF Joined, a

LEMMA JoinedAssociative ==
    ASSUME NEW s \in Text, NEW t \in Text, NEW u \in Text
    PROVE  JoinsTwice(s, t, u)
<1> DEFINE a == s \o Slash
           b == t \o Slash
<1>1. a \in Text /\ b \in Text /\ a \o t \in Text /\ Slash \in Text
  BY TextFacts
<1>2. Associates(a \o t, Slash, u) /\ Associates(a, t, Slash \o u) /\ Associates(t, Slash, u)
  BY <1>1, TextFacts, Associative
<1>3. Joined(Joined(s, t), u) = ((a \o t) \o Slash) \o u
  BY DEF Joined
<1>4. Joined(s, Joined(t, u)) = a \o (b \o u)
  BY DEF Joined
<1> QED
  BY <1>2, <1>3, <1>4 DEF Associates, JoinsTwice

Joins(g, s) ==
    /\ g \in [0 .. Len(s) -> Text]
    /\ g[0] = <<>>
    /\ \A i \in 1 .. Len(s) : g[i] = IF g[i - 1] = <<>> THEN s[i] ELSE Joined(g[i - 1], s[i])
    /\ Join(s) = g[Len(s)]

LEMMA JoinTurns ==
    ASSUME NEW s \in Seq(Text)
    PROVE  \E g : Joins(g, s)
<1> DEFINE n == Len(s)
           op(i, text) == IF text = <<>> THEN s[i] ELSE text \o <<"/">> \o s[i]
           step == [p \in (1 .. n) \X Text |-> op(p[1], p[2])]
           Eq(it) == it = [T \in SUBSET (1 .. n) |->
                               IF T = {} THEN <<>> ELSE op(Max(T), it[T \ {Max(T)}])]
           fold == CHOOSE it : Eq(it)
<1>1. n \in Nat /\ DOMAIN s = 1 .. n /\ \A i \in 1 .. n : s[i] \in Text
  BY LenProperties, ElementOfSeq
<1>2. \A i \in 1 .. n, text \in Text :
          op(i, text) = IF text = <<>> THEN s[i] ELSE Joined(text, s[i])
  BY DEF Joined, Slash
<1>3. \A i \in 1 .. n, text \in Text : op(i, text) \in Text /\ step[<<i, text>>] = op(i, text)
  <2>1. \A i \in 1 .. n, text \in Text : op(i, text) \in Text
    BY <1>1, <1>2, JoinedFacts
  <2> HIDE DEF op, n
  <2> QED
    BY <2>1
<1>4. step \in [(1 .. n) \X Text -> Text]
  BY <1>3
<1>5. Join(s) = fold[1 .. n]
  BY <1>1, Zenon DEF Join, FoldLeft, MapThenFoldSet
<1> HIDE DEF step, op, n
<1>6. PICK it : IsFold(it, 1 .. n, Text, <<>>, step, LastOf(n))
  BY <1>1, <1>4, TextFacts, LeftFoldExists
<1>7. Eq(it)
  <2>1. ASSUME NEW T \in SUBSET (1 .. n)
        PROVE  it[T] = IF T = {} THEN <<>> ELSE op(Max(T), it[T \ {Max(T)}])
    <3>1. it[T] = IF T = {} THEN <<>> ELSE step[<<Max(T), it[T \ {Max(T)}]>>]
      BY <1>1, <1>6, LastFacts DEF IsFold
    <3>2. T # {} => Max(T) \in 1 .. n /\ it[T \ {Max(T)}] \in Text
      BY <1>1, <1>6, LastFacts DEF IsFold
    <3> QED
      BY <1>3, <3>1, <3>2
  <2> QED
    BY <1>6, <2>1 DEF IsFold
<1>8. Eq(fold)
  BY <1>7
<1> HIDE DEF fold
<1>9. fold[{}] = <<>>
  BY <1>8
<1>10. IsLeftFold(fold, n, Text, <<>>, step)
  <2>1. ASSUME NEW T \in SUBSET (1 .. n), T # {}, fold[T \ {Max(T)}] \in Text
        PROVE  fold[T] = step[<<Max(T), fold[T \ {Max(T)}]>>]
    <3>1. fold[T] = op(Max(T), fold[T \ {Max(T)}])
      BY <1>8, <2>1
    <3>2. Max(T) \in 1 .. n
      BY <1>1, <2>1, LastFacts
    <3> QED
      BY <1>3, <2>1, <3>1, <3>2
  <2> QED
    BY <1>9, <2>1 DEF IsLeftFold
<1>11. PICK g : Unwinds(g, fold, n, Text, <<>>, step)
  BY <1>1, <1>4, <1>10, TextFacts, LeftFoldTurns
<1>12. ASSUME NEW i \in 1 .. n
       PROVE  g[i] = IF g[i - 1] = <<>> THEN s[i] ELSE Joined(g[i - 1], s[i])
  <2>1. g[i - 1] \in Text /\ g[i] = step[<<i, g[i - 1]>>]
    BY <1>1, <1>11 DEF IsRecursion, Unwinds
  <2> QED
    BY <1>2, <1>3, <2>1
<1> QED
  BY <1>5, <1>11, <1>12 DEF IsRecursion, Unwinds, Joins, n

LEMMA JoinType ==
    ASSUME NEW s \in Seq(Text)
    PROVE  Join(s) \in Text
<1>1. PICK g : Joins(g, s)
  BY JoinTurns
<1>2. Len(s) \in Nat
  BY LenProperties
<1> QED
  BY <1>1, <1>2 DEF Joins

LEMMA JoinNone == Join(<<>>) = <<>>
<1>1. PICK g : Joins(g, <<>>)
  BY JoinTurns, EmptySeq
<1> QED
  BY <1>1 DEF Joins

Filled(s) == \A i \in 1 .. Len(s) : s[i] # <<>>

LEMMA JoinHead ==
    ASSUME NEW p \in Seq(Text), NEW x \in Text, IsHead(p, x), x # <<>>,
           NEW s \in Seq(Text), Filled(s)
    PROVE  Join(p \o s) = IF s = <<>> THEN x ELSE Joined(x, Join(s))
<1> DEFINE l == p \o s
           n == Len(s)
<1>0. Len(p) = 1 /\ p[1] = x
  BY DEF IsHead
<1>1. n \in Nat /\ \A i \in 1 .. n : s[i] \in Text /\ s[i] # <<>>
  BY LenProperties, ElementOfSeq DEF Filled
<1>2. l \in Seq(Text) /\ Len(l) = n + 1 /\ l[1] = x /\ \A i \in 1 .. n : l[i + 1] = s[i]
  <2>1. Follows(p \o s, x, s, Text)
    BY HeadConcat
  <2> QED
    BY <2>1 DEF Follows
<1> HIDE DEF l
<1>3. PICK g : Joins(g, s)
  BY JoinTurns
<1>4. PICK h : Joins(h, l)
  BY <1>2, JoinTurns
<1> DEFINE N == {i \in Nat : i <= n => /\ h[i + 1] = IF i = 0 THEN x ELSE Joined(x, g[i])
                                       /\ i # 0 => g[i] # <<>>}
<1>5. 0 \in N
  <2>1. 1 \in 1 .. Len(l) /\ 1 - 1 = 0
    BY <1>1, <1>2
  <2> QED
    BY <1>2, <1>4, <2>1 DEF Joins
<1>6. ASSUME NEW i \in Nat, i \in N PROVE i + 1 \in N
  <2> SUFFICES ASSUME i + 1 <= n
               PROVE  h[(i + 1) + 1] = Joined(x, g[i + 1]) /\ g[i + 1] # <<>>
    OBVIOUS
  <2>1. /\ g[i] \in Text /\ s[i + 1] \in Text /\ s[i + 1] # <<>>
        /\ h[i + 1] = IF i = 0 THEN x ELSE Joined(x, g[i])
        /\ i # 0 => g[i] # <<>>
    <3>1. i \in 0 .. Len(s) /\ i + 1 \in 1 .. n /\ i <= n
      BY <1>1
    <3> QED
      BY <1>1, <1>3, <1>6, <3>1 DEF Joins
  <2>2. g[i + 1] = IF g[i] = <<>> THEN s[i + 1] ELSE Joined(g[i], s[i + 1])
    <3>1. i + 1 \in 1 .. Len(s) /\ (i + 1) - 1 = i
      BY <1>1
    <3> QED
      BY <1>3, <3>1 DEF Joins
  <2>3. h[(i + 1) + 1] = IF h[i + 1] = <<>> THEN s[i + 1] ELSE Joined(h[i + 1], s[i + 1])
    <3>1. (i + 1) + 1 \in 1 .. Len(l) /\ ((i + 1) + 1) - 1 = i + 1 /\ l[(i + 1) + 1] = s[i + 1]
      BY <1>1, <1>2
    <3> QED
      BY <1>4, <3>1 DEF Joins
  <2>4. CASE i = 0
    <3>1. g[i] = <<>>
      BY <1>3, <2>4 DEF Joins
    <3> QED
      BY <2>1, <2>2, <2>3, <2>4, <3>1
  <2>5. CASE i # 0
    <3>1. JoinsTwice(x, g[i], s[i + 1])
      BY <2>1, JoinedAssociative
    <3>2. Joined(x, g[i]) # <<>> /\ Joined(g[i], s[i + 1]) # <<>>
      BY <2>1, JoinedFacts
    <3> QED
      BY <2>1, <2>2, <2>3, <2>5, <3>1, <3>2 DEF JoinsTwice
  <2> QED
    BY <2>4, <2>5
<1> HIDE DEF N
<1>7. n \in N
  BY <1>1, <1>5, <1>6, NatInduction1
<1>8. h[n + 1] = IF n = 0 THEN x ELSE Joined(x, g[n])
  BY <1>1, <1>7 DEF N
<1>9. n = 0 <=> s = <<>>
  BY <1>1, EmptySeq
<1> QED
  BY <1>2, <1>3, <1>4, <1>8, <1>9 DEF l, Joins

\* What is left of a text without its first n characters.
Rest(t, n) == SubSeq(t, n + 1, Len(t))

IsRest(r, t, n) ==
    r \in Text /\ Len(r) = Len(t) - n /\ \A i \in 1 .. Len(t) - n : r[i] = t[n + i]

LEMMA RestFacts ==
    ASSUME NEW t \in Text, NEW n \in 0 .. Len(t)
    PROVE  IsRest(Rest(t, n), t, n)
<1>1. Len(t) \in Nat /\ \A i \in 1 .. Len(t) : t[i] \in Character
  BY LenProperties, ElementOfSeq DEF Text
<1>2. n + 1 \in Int /\ Len(t) \in Int /\ \A i \in n + 1 .. Len(t) : t[i] \in Character
  BY <1>1
<1>3. /\ Rest(t, n) \in Seq(Character)
      /\ Len(Rest(t, n)) = IF n + 1 <= Len(t) THEN Len(t) - (n + 1) + 1 ELSE 0
      /\ \A i \in 1 .. Len(t) - (n + 1) + 1 : Rest(t, n)[i] = t[(n + 1) + i - 1]
  BY <1>2, SubSeqProperties DEF Rest
<1>4. Len(t) - (n + 1) + 1 = Len(t) - n /\ \A i \in 1 .. Len(t) - n : (n + 1) + i - 1 = n + i
  BY <1>1
<1>5. Len(Rest(t, n)) = Len(t) - n
  BY <1>1, <1>3
<1> QED
  BY <1>3, <1>4, <1>5 DEF IsRest, Text

Begins(s, t) == Len(s) <= Len(t) /\ \A i \in 1 .. Len(s) : t[i] = s[i]

LEMMA PrefixFacts ==
    ASSUME NEW s \in Text, NEW t \in Text
    PROVE  IsPrefix(s, t) <=> Begins(s, t)
<1>1. /\ Len(s) \in Nat /\ \A i \in 1 .. Len(s) : s[i] \in Character
      /\ Len(t) \in Nat /\ \A i \in 1 .. Len(t) : t[i] \in Character
  BY LenProperties, ElementOfSeq DEF Text
<1> SUFFICES ASSUME Len(s) <= Len(t)
             PROVE  SubSeq(s, 1, Len(s)) = SubSeq(t, 1, Len(s))
                    <=> \A i \in 1 .. Len(s) : t[i] = s[i]
  BY DEF IsPrefix, Begins
<1> DEFINE r == SubSeq(t, 1, Len(s))
<1>2. SubSeq(s, 1, Len(s)) = s
  BY SubSeqFull DEF Text
<1>3. 1 \in Int /\ Len(s) \in Int /\ \A i \in 1 .. Len(s) : t[i] \in Character
  BY <1>1
<1>4. /\ r \in Seq(Character)
      /\ Len(r) = IF 1 <= Len(s) THEN Len(s) - 1 + 1 ELSE 0
      /\ \A i \in 1 .. Len(s) - 1 + 1 : r[i] = t[1 + i - 1]
  BY <1>3, SubSeqProperties
<1> HIDE DEF r
<1>5. Len(r) = Len(s) /\ \A i \in 1 .. Len(s) : r[i] = t[i]
  BY <1>1, <1>4
<1>6. (\A i \in 1 .. Len(s) : t[i] = s[i]) => r = s
  BY <1>4, <1>5, SeqEqual DEF Text
<1>7. r = s => \A i \in 1 .. Len(s) : t[i] = s[i]
  BY <1>5
<1> QED
  BY <1>2, <1>6, <1>7 DEF r

IsConcat(u, s, t) ==
    /\ u \in Text /\ Len(u) = Len(s) + Len(t)
    /\ \A i \in 1 .. Len(s) : u[i] = s[i]
    /\ \A i \in 1 .. Len(t) : u[Len(s) + i] = t[i]

LEMMA ConcatFacts ==
    ASSUME NEW s \in Text, NEW t \in Text
    PROVE  IsConcat(s \o t, s, t)
<1> DEFINE u == s \o t
<1>1. Len(s) \in Nat /\ Len(t) \in Nat
  BY TextFacts
<1>2. /\ u \in Text /\ Len(u) = Len(s) + Len(t)
      /\ \A i \in 1 .. Len(s) + Len(t) : u[i] = IF i <= Len(s) THEN s[i] ELSE t[i - Len(s)]
  BY ConcatProperties, Zenon DEF Text
<1> HIDE DEF u
<1>3. \A i \in 1 .. Len(s) : u[i] = s[i]
  BY <1>1, <1>2
<1>4. ASSUME NEW i \in 1 .. Len(t) PROVE u[Len(s) + i] = t[i]
  <2>1. /\ Len(s) + i \in 1 .. Len(s) + Len(t) /\ ~(Len(s) + i <= Len(s))
        /\ (Len(s) + i) - Len(s) = i
    BY <1>1
  <2> QED
    BY <1>2, <2>1
<1> QED
  BY <1>2, <1>3, <1>4 DEF u, IsConcat

LEMMA SameText ==
    ASSUME NEW s \in Text, NEW t \in Text, Len(s) = Len(t), \A i \in 1 .. Len(s) : s[i] = t[i]
    PROVE  s = t
  BY SeqEqual DEF Text

\* A text is its prefix and the rest; a prefix of two parts is one of the text and one
\* of its rest.
LEMMA PrefixSplits ==
    ASSUME NEW s \in Text, NEW t \in Text, IsPrefix(s, t)
    PROVE  /\ s \o Rest(t, Len(s)) = t
           /\ Len(s) \in 0 .. Len(t)
           /\ Rest(t, Len(s)) \in Text
<1> DEFINE r == Rest(t, Len(s))
           u == s \o r
<1>1. Len(s) \in Nat /\ Len(t) \in Nat
  BY TextFacts
<1>2. Begins(s, t)
  BY PrefixFacts
<1>3. Len(s) \in 0 .. Len(t)
  BY <1>1, <1>2 DEF Begins
<1>4. IsRest(r, t, Len(s))
  BY <1>3, RestFacts
<1> HIDE DEF r
<1>5. r \in Text
  BY <1>4 DEF IsRest
<1>6. IsConcat(u, s, r)
  BY <1>5, ConcatFacts
<1> HIDE DEF u
<1>7. Len(r) = Len(t) - Len(s) /\ \A i \in 1 .. Len(r) : r[i] = t[Len(s) + i]
  BY <1>4 DEF IsRest
<1>8. u \in Text /\ Len(u) = Len(t)
  BY <1>1, <1>6, <1>7 DEF IsConcat
<1>9. ASSUME NEW i \in 1 .. Len(u) PROVE u[i] = t[i]
  <2>1. CASE i <= Len(s)
    <3>1. i \in 1 .. Len(s)
      BY <1>1, <2>1
    <3> QED
      BY <1>2, <1>6, <3>1 DEF IsConcat, Begins
  <2>2. CASE ~(i <= Len(s))
    <3>1. i - Len(s) \in 1 .. Len(r) /\ Len(s) + (i - Len(s)) = i
      BY <1>1, <1>7, <1>8, <2>2
    <3>2. u[Len(s) + (i - Len(s))] = r[i - Len(s)]
      BY <1>6, <3>1 DEF IsConcat
    <3>3. r[i - Len(s)] = t[Len(s) + (i - Len(s))]
      BY <1>7, <3>1
    <3> QED
      BY <3>1, <3>2, <3>3
  <2> QED
    BY <2>1, <2>2
<1>10. u = t
  BY <1>8, <1>9, SameText
<1> QED
  BY <1>3, <1>5, <1>10 DEF u, r

LEMMA ConcatIsPrefixed ==
    ASSUME NEW s \in Text, NEW t \in Text
    PROVE  IsPrefix(s, s \o t) /\ Rest(s \o t, Len(s)) = t
<1> DEFINE u == s \o t
<1>1. Len(s) \in Nat /\ Len(t) \in Nat
  BY TextFacts
<1>2. IsConcat(u, s, t)
  BY ConcatFacts
<1> HIDE DEF u
<1>3. u \in Text /\ Len(u) = Len(s) + Len(t)
  BY <1>2 DEF IsConcat
<1>4. Begins(s, u)
  BY <1>1, <1>2 DEF IsConcat, Begins
<1>5. Len(s) \in 0 .. Len(u)
  BY <1>1, <1>3
<1>6. IsRest(Rest(u, Len(s)), u, Len(s))
  BY <1>3, <1>5, RestFacts
<1>7. Rest(u, Len(s)) \in Text /\ Len(Rest(u, Len(s))) = Len(t)
  BY <1>1, <1>3, <1>6 DEF IsRest
<1>8. \A i \in 1 .. Len(t) : Rest(u, Len(s))[i] = t[i]
  <2>1. Len(u) - Len(s) = Len(t)
    BY <1>1, <1>3
  <2> QED
    BY <1>2, <1>6, <2>1 DEF IsRest, IsConcat
<1>9. Rest(u, Len(s)) = t
  BY <1>7, <1>8, SameText
<1> QED
  BY <1>3, <1>4, <1>9, PrefixFacts DEF u

LEMMA PrefixOfConcat ==
    ASSUME NEW a \in Text, NEW b \in Text, NEW t \in Text
    PROVE  IsPrefix(a \o b, t) <=> IsPrefix(a, t) /\ IsPrefix(b, Rest(t, Len(a)))
<1> DEFINE u == a \o b
           r == Rest(t, Len(a))
<1>1. Len(a) \in Nat /\ Len(b) \in Nat /\ Len(t) \in Nat
  BY TextFacts
<1>2. IsConcat(u, a, b)
  BY ConcatFacts
<1> HIDE DEF u
<1>3. u \in Text /\ Len(u) = Len(a) + Len(b)
  BY <1>2 DEF IsConcat
<1>4. (IsPrefix(u, t) <=> Begins(u, t)) /\ (IsPrefix(a, t) <=> Begins(a, t))
  BY <1>3, PrefixFacts
<1>5. Begins(u, t) => Begins(a, t)
  <2> SUFFICES ASSUME Begins(u, t) PROVE Begins(a, t)
    OBVIOUS
  <2>1. \A i \in 1 .. Len(a) : i \in 1 .. Len(u)
    BY <1>1, <1>3
  <2> QED
    BY <1>1, <1>2, <1>3, <2>1 DEF Begins, IsConcat
<1>6. ASSUME Begins(a, t) PROVE Begins(u, t) <=> IsPrefix(b, r)
  <2>1. Len(a) \in 0 .. Len(t)
    BY <1>1, <1>6 DEF Begins
  <2>2. IsRest(r, t, Len(a))
    BY <2>1, RestFacts
  <2> HIDE DEF r
  <2>3. r \in Text /\ Len(r) = Len(t) - Len(a) /\ \A i \in 1 .. Len(r) : r[i] = t[Len(a) + i]
    BY <2>2 DEF IsRest
  <2>4. IsPrefix(b, r) <=> Begins(b, r)
    BY <2>3, PrefixFacts
  <2>5. ASSUME Begins(u, t) PROVE Begins(b, r)
    <3>1. Len(b) <= Len(r)
      BY <1>1, <1>3, <2>3, <2>5 DEF Begins
    <3>2. ASSUME NEW i \in 1 .. Len(b) PROVE r[i] = b[i]
      <4>1. Len(a) + i \in 1 .. Len(u) /\ i \in 1 .. Len(r)
        BY <1>1, <1>3, <2>3, <3>1
      <4> QED
        BY <1>2, <2>3, <2>5, <4>1 DEF Begins, IsConcat
    <3> QED
      BY <3>1, <3>2 DEF Begins
  <2>6. ASSUME Begins(b, r) PROVE Begins(u, t)
    <3>1. Len(u) <= Len(t) /\ Len(b) <= Len(r)
      BY <1>1, <1>3, <2>3, <2>6 DEF Begins
    <3>2. ASSUME NEW i \in 1 .. Len(u) PROVE t[i] = u[i]
      <4>1. CASE i <= Len(a)
        <5>1. i \in 1 .. Len(a)
          BY <1>1, <4>1
        <5> QED
          BY <1>2, <1>6, <5>1 DEF Begins, IsConcat
      <4>2. CASE ~(i <= Len(a))
        <5> DEFINE k == i - Len(a)
        <5>1. k \in 1 .. Len(b) /\ k \in 1 .. Len(r) /\ Len(a) + k = i
          BY <1>1, <1>3, <3>1, <4>2
        <5> HIDE DEF k
        <5>2. u[Len(a) + k] = b[k] /\ r[k] = t[Len(a) + k] /\ r[k] = b[k]
          BY <1>2, <2>3, <2>6, <5>1 DEF Begins, IsConcat
        <5> QED
          BY <5>1, <5>2
      <4> QED
        BY <4>1, <4>2
    <3> QED
      BY <3>1, <3>2 DEF Begins
  <2> QED
    BY <2>4, <2>5, <2>6 DEF r
<1> QED
  BY <1>4, <1>5, <1>6 DEF u, r

LEMMA EmptyPrefix ==
    ASSUME NEW t \in Text
    PROVE  IsPrefix(<<>>, t) /\ Rest(t, 0) = t
<1>1. <<>> \in Text /\ Len(<<>>) = 0 /\ Len(t) \in Nat
  BY TextFacts
<1>2. Begins(<<>>, t)
  BY <1>1 DEF Begins
<1>3. Rest(t, 0) = SubSeq(t, 1, Len(t))
  BY DEF Rest
<1> QED
  BY <1>1, <1>2, <1>3, PrefixFacts, SubSeqFull DEF Text

----------------------------------------------------------------------------
(* Scopes: what a URL is read as, its key, and where a path leads.         *)

LEMMA WithoutDropped ==
    ASSUME NEW S, NEW p \in Seq(S), NEW s \in Seq(S), NEW out,
           NEW x, IsHead(p, x), x \in out
    PROVE  Without(p \o s, out) = Without(s, out)
<1> DEFINE l == p \o s
           n == Len(s)
<1>1. n \in Nat /\ \A i \in 1 .. n : s[i] \in S
  BY LenProperties, ElementOfSeq
<1>2. l \in Seq(S) /\ Len(l) = n + 1 /\ l[1] = x /\ \A i \in 1 .. n : l[i + 1] = s[i]
  <2>1. Follows(p \o s, x, s, S)
    BY HeadConcat
  <2> QED
    BY <2>1 DEF Follows
<1> HIDE DEF l
<1>3. PICK g : Filters(g, S, s, out)
  BY WithoutTurns
<1>4. PICK h : Filters(h, S, l, out)
  BY <1>2, WithoutTurns
<1> DEFINE N == {i \in Nat : i <= n => h[i + 1] = g[i]}
<1>5. 0 \in N
  <2>1. 1 \in 1 .. Len(l) /\ 1 - 1 = 0
    BY <1>1, <1>2
  <2>2. h[1] = h[0] /\ h[0] = <<>> /\ g[0] = <<>>
    BY <1>2, <1>3, <1>4, <2>1 DEF Filters, IsFilter
  <2> QED
    BY <2>2
<1>6. ASSUME NEW i \in Nat, i \in N PROVE i + 1 \in N
  <2> SUFFICES ASSUME i + 1 <= n PROVE h[(i + 1) + 1] = g[i + 1]
    OBVIOUS
  <2>1. h[i + 1] = g[i]
    BY <1>1, <1>6
  <2>2. g[i + 1] = IF s[i + 1] \in out THEN g[i] ELSE Append(g[i], s[i + 1])
    <3>1. i + 1 \in 1 .. Len(s) /\ (i + 1) - 1 = i
      BY <1>1
    <3> QED
      BY <1>3, <3>1 DEF Filters, IsFilter
  <2>3. h[(i + 1) + 1] = IF s[i + 1] \in out THEN h[i + 1] ELSE Append(h[i + 1], s[i + 1])
    <3>1. (i + 1) + 1 \in 1 .. Len(l) /\ ((i + 1) + 1) - 1 = i + 1 /\ l[(i + 1) + 1] = s[i + 1]
      BY <1>1, <1>2
    <3> QED
      BY <1>4, <3>1 DEF Filters, IsFilter
  <2> QED
    BY <2>1, <2>2, <2>3
<1> HIDE DEF N
<1>7. n \in N
  BY <1>1, <1>5, <1>6, NatInduction1
<1>8. h[n + 1] = g[n]
  BY <1>1, <1>7 DEF N
<1> QED
  BY <1>2, <1>3, <1>4, <1>8 DEF l, Filters

Dot == <<".">>
Plain(s) == \A i \in 1 .. Len(s) : s[i] # <<>> /\ s[i] # Dot

LEMMA KeptFacts ==
    ASSUME NEW path \in Seq(Text)
    PROVE  /\ Kept(path) \in Seq(Text) /\ Plain(Kept(path)) /\ Filled(Kept(path))
           /\ Join(Kept(path)) \in Text
<1> DEFINE k == Kept(path)
           out == {<<>>, Dot}
<1>1. k = Without(path, out)
  BY DEF Kept, Dot
<1>2. k \in Seq(Text) /\ Range(k) = Range(path) \ out
  BY <1>1, WithoutFacts
<1>3. \A i \in 1 .. Len(k) : k[i] \in Range(k)
  BY <1>2, RangeEquality
<1>4. Plain(k) /\ Filled(k)
  BY <1>2, <1>3 DEF Plain, Filled
<1>5. Join(k) \in Text
  BY <1>2, JoinType
<1> HIDE DEF k
<1> QED
  BY <1>1, <1>2, <1>4, <1>5 DEF k

LEMMA Longer ==
    ASSUME NEW a \in Nat, NEW b \in Nat, NEW n, n = a + 1 + b
    PROVE  n # 0 /\ (a # 0 => n # 1)
  OBVIOUS

LEMMA JoinNotDot ==
    ASSUME NEW s \in Seq(Text), Plain(s)
    PROVE  Join(s) # Dot /\ (s # <<>> => Join(s) # <<>>)
<1> DEFINE n == Len(s)
<1>1. n \in Nat /\ (\A i \in 1 .. n : s[i] \in Text /\ s[i] # <<>> /\ s[i] # Dot)
      /\ (n = 0 <=> s = <<>>)
  BY LenProperties, EmptySeq, ElementOfSeq DEF Plain
<1>2. PICK g : Joins(g, s)
  BY JoinTurns
<1> DEFINE N == {i \in Nat : i <= n => g[i] # Dot /\ (i # 0 => g[i] # <<>>)}
<1>3. Len(Dot) = 1 /\ Dot # <<>>
  BY DEF Dot
<1>4. 0 \in N
  BY <1>2, <1>3 DEF Joins
<1>5. ASSUME NEW i \in Nat, i \in N PROVE i + 1 \in N
  <2> SUFFICES ASSUME i + 1 <= n PROVE g[i + 1] # Dot /\ g[i + 1] # <<>>
    OBVIOUS
  <2>1. i \in 0 .. Len(s) /\ i + 1 \in 1 .. Len(s) /\ i + 1 \in 1 .. n /\ (i + 1) - 1 = i
    BY <1>1
  <2>2. g[i] \in Text /\ s[i + 1] \in Text /\ s[i + 1] # <<>> /\ s[i + 1] # Dot
    BY <1>1, <1>2, <2>1 DEF Joins
  <2>3. g[i + 1] = IF g[i] = <<>> THEN s[i + 1] ELSE Joined(g[i], s[i + 1])
    BY <1>2, <2>1 DEF Joins
  <2>4. g[i] # <<>> => Joined(g[i], s[i + 1]) # <<>> /\ Joined(g[i], s[i + 1]) # Dot
    <3> SUFFICES ASSUME g[i] # <<>>
                 PROVE  Joined(g[i], s[i + 1]) # <<>> /\ Joined(g[i], s[i + 1]) # Dot
      OBVIOUS
    <3>1. /\ Len(Joined(g[i], s[i + 1])) = Len(g[i]) + 1 + Len(s[i + 1])
          /\ Joined(g[i], s[i + 1]) # <<>>
      BY <2>2, JoinedFacts
    <3>2. Len(g[i]) \in Nat \ {0} /\ Len(s[i + 1]) \in Nat
      BY <2>2, TextFacts
    <3>3. Len(Joined(g[i], s[i + 1])) # 1
      BY <3>1, <3>2, Longer
    <3> QED
      BY <1>3, <3>1, <3>3
  <2> QED
    BY <2>2, <2>3, <2>4
<1> HIDE DEF N
<1>6. n \in N
  BY <1>1, <1>4, <1>5, NatInduction1
<1>7. g[n] # Dot /\ (n # 0 => g[n] # <<>>)
  BY <1>1, <1>6 DEF N
<1> QED
  BY <1>1, <1>2, <1>7 DEF Joins

LEMMA FunctionSeq ==
    ASSUME NEW S, NEW n \in Nat, NEW f \in [1 .. n -> S]
    PROVE  f \in Seq(S) /\ Len(f) = n
<1>1. f \in Seq(S)
  BY SeqDef
<1> QED
  BY <1>1, LenProperties

\* The scopes that a URL can stand for.
Served(scope) ==
    \/ scope = Unscoped
    \/ scope \in [slug : Slugs, prefix : Text] /\ scope.prefix # Dot

LEMMA NoScopeFacts ==
    /\ \A scope : Served(scope) => scope # NoScope /\ scope.prefix \in Text
    /\ \A scope : Served(scope) /\ scope # Unscoped => scope.slug \in Slugs /\ scope.slug # <<>>
    /\ NoScope # Unscoped /\ Unscoped.slug = <<>> /\ Unscoped.prefix = <<>>
  BY McpAssumption, TextFacts DEF Served, NoScope, Unscoped

LEMMA DecodedType ==
    ASSUME NEW raw \in Seq(Seq(STRING))
    PROVE  decoded(raw) \in Seq(Text) /\ Len(decoded(raw)) = Len(raw)
<1>1. Len(raw) \in Nat /\ DOMAIN raw = 1 .. Len(raw)
      /\ \A i \in 1 .. Len(raw) : raw[i] \in Seq(STRING)
  BY LenProperties, ElementOfSeq
<1>2. ASSUME NEW segment \in Seq(STRING) PROVE decodeURIComponent(segment) \in Text
  <2>1. Len(segment) \in Nat /\ DOMAIN segment = 1 .. Len(segment)
        /\ \A i \in 1 .. Len(segment) : segment[i] \in STRING
    BY LenProperties, ElementOfSeq
  <2>2. \A e \in DOMAIN Escapes : Escapes[e] \in Character
    BY DEF Escapes, Character
  <2>3. \A i \in 1 .. Len(segment) : segment[i] \in Character
    BY <2>1 DEF Character
  <2>4. decodeURIComponent(segment) \in [1 .. Len(segment) -> Character]
    BY <2>1, <2>2, <2>3 DEF decodeURIComponent
  <2> QED
    BY <2>1, <2>4, FunctionSeq DEF Text
<1>3. decoded(raw) \in [1 .. Len(raw) -> Text]
  BY <1>1, <1>2 DEF decoded
<1> QED
  BY <1>1, <1>3, FunctionSeq

LEMMA ResolvedIsServed ==
    ASSUME NEW url \in Urls, resolveScope(url) # NoScope
    PROVE  Served(resolveScope(url))
<1> SUFFICES ASSUME url.raw # <<>> PROVE Served(parseScope(url.raw))
  BY DEF resolveScope, Served
<1> DEFINE d == decoded(url.raw)
<1>1. url.raw \in Seq(Seq(STRING)) /\ parseScope(url.raw) # NoScope
  BY McpAssumption DEF resolveScope
<1>2. Len(url.raw) # 0
  BY <1>1, EmptySeq
<1>3. d \in Seq(Text) /\ d # <<>>
  <2>1. d \in Seq(Text) /\ Len(d) = Len(url.raw)
    BY <1>1, DecodedType
  <2> QED
    BY <1>2, <2>1, EmptySeq
<1> HIDE DEF d
<1>4. Tail(d) \in Seq(Text)
  BY <1>3, HeadTailProperties
<1> DEFINE k == Kept(Tail(d))
<1>5. k \in Seq(Text) /\ Plain(k) /\ Join(k) \in Text
  BY <1>4, KeptFacts
<1> HIDE DEF k
<1>6. Join(k) # Dot
  BY <1>5, JoinNotDot
<1>7. parseScope(url.raw) = [slug |-> d[1], prefix |-> Join(k)] /\ d[1] \in Slugs
  BY <1>1 DEF parseScope, d, k
<1> QED
  BY <1>5, <1>6, <1>7 DEF Served

\* Two scopes have one key only if they are one: the separator is in no slug.
KeyText(slug, prefix) == (slug \o <<"NUL">>) \o prefix

IsKey(k, slug, prefix) ==
    /\ k \in Text /\ Len(k) = Len(slug) + 1 + Len(prefix)
    /\ \A i \in 1 .. Len(slug) : k[i] = slug[i]
    /\ k[Len(slug) + 1] = "NUL"
    /\ \A i \in 1 .. Len(prefix) : k[Len(slug) + 1 + i] = prefix[i]

LEMMA SlugFacts ==
    ASSUME NEW slug \in Slugs
    PROVE  /\ slug \in Text /\ Len(slug) \in Nat \ {0}
           /\ \A i \in 1 .. Len(slug) : slug[i] # "NUL"
<1>1. slug \in Seq(STRING) /\ slug # <<>> /\ "NUL" \notin Range(slug)
  BY McpAssumption
<1>2. slug \in Text
  BY <1>1, SeqMonotonic DEF Text, Character
<1>3. \A i \in 1 .. Len(slug) : slug[i] \in Range(slug)
  BY <1>1, RangeEquality
<1> QED
  BY <1>1, <1>2, <1>3, EmptySeq

LEMMA KeyFacts ==
    ASSUME NEW slug \in Text, NEW prefix \in Text
    PROVE  IsKey(KeyText(slug, prefix), slug, prefix)
<1> DEFINE nul == <<"NUL">>
           a == slug \o nul
           k == a \o prefix
<1>1. nul \in Text /\ Len(nul) = 1 /\ nul[1] = "NUL"
  <2>1. "NUL" \in Character
    BY DEF Character
  <2>2. nul \in Seq(Character)
    BY <2>1
  <2> QED
    BY <2>2 DEF Text
<1>2. Len(slug) \in Nat /\ Len(prefix) \in Nat
  BY TextFacts
<1> HIDE DEF nul
<1>3. IsConcat(a, slug, nul)
  BY <1>1, ConcatFacts
<1> HIDE DEF a
<1>4. a \in Text /\ Len(a) = Len(slug) + 1 /\ a[Len(slug) + 1] = "NUL"
      /\ \A i \in 1 .. Len(slug) : a[i] = slug[i]
  BY <1>1, <1>2, <1>3 DEF IsConcat
<1>5. IsConcat(k, a, prefix)
  BY <1>4, ConcatFacts
<1> HIDE DEF k
<1>6. k \in Text /\ Len(k) = Len(slug) + 1 + Len(prefix)
  BY <1>4, <1>5 DEF IsConcat
<1>7. ASSUME NEW i \in 1 .. Len(a) PROVE k[i] = a[i]
  BY <1>5 DEF IsConcat
<1>8. \A i \in 1 .. Len(prefix) : k[Len(slug) + 1 + i] = prefix[i]
  BY <1>4, <1>5 DEF IsConcat
<1>9. (\A i \in 1 .. Len(slug) : i \in 1 .. Len(a)) /\ Len(slug) + 1 \in 1 .. Len(a)
  BY <1>2, <1>4
<1>10. IsKey(k, slug, prefix)
  BY <1>4, <1>6, <1>7, <1>8, <1>9 DEF IsKey
<1> QED
  BY <1>10 DEF k, a, nul, KeyText

LEMMA KeysDiffer ==
    ASSUME NEW slug \in Slugs, NEW prefix \in Text, NEW slug2 \in Slugs, NEW prefix2 \in Text,
           KeyText(slug, prefix) = KeyText(slug2, prefix2)
    PROVE  slug = slug2 /\ prefix = prefix2
<1> DEFINE k == KeyText(slug, prefix)
<1>1. /\ slug \in Text /\ Len(slug) \in Nat /\ Len(prefix) \in Nat
      /\ slug2 \in Text /\ Len(slug2) \in Nat /\ Len(prefix2) \in Nat
      /\ \A i \in 1 .. Len(slug) : slug[i] # "NUL"
      /\ \A i \in 1 .. Len(slug2) : slug2[i] # "NUL"
  BY SlugFacts, TextFacts
<1>2. IsKey(k, slug, prefix) /\ IsKey(k, slug2, prefix2)
  BY <1>1, KeyFacts
<1> HIDE DEF k
<1>3. ~(Len(slug) < Len(slug2))
  <2> SUFFICES ASSUME Len(slug) < Len(slug2) PROVE FALSE
    OBVIOUS
  <2>1. Len(slug) + 1 \in 1 .. Len(slug2)
    BY <1>1
  <2> QED
    BY <1>1, <1>2, <2>1 DEF IsKey
<1>4. ~(Len(slug2) < Len(slug))
  <2> SUFFICES ASSUME Len(slug2) < Len(slug) PROVE FALSE
    OBVIOUS
  <2>1. Len(slug2) + 1 \in 1 .. Len(slug)
    BY <1>1
  <2> QED
    BY <1>1, <1>2, <2>1 DEF IsKey
<1>5. Len(slug) = Len(slug2)
  BY <1>1, <1>3, <1>4
<1>6. \A i \in 1 .. Len(slug) : slug[i] = slug2[i]
  BY <1>2, <1>5 DEF IsKey
<1>7. slug = slug2
  BY <1>1, <1>5, <1>6, SameText
<1>8. Len(prefix) = Len(prefix2)
  <2>1. Len(slug) + 1 + Len(prefix) = Len(slug) + 1 + Len(prefix2)
    BY <1>2, <1>5 DEF IsKey
  <2> QED
    BY <1>1, <2>1
<1>9. \A i \in 1 .. Len(prefix) : prefix[i] = prefix2[i]
  BY <1>2, <1>5, <1>8 DEF IsKey
<1>10. prefix = prefix2
  BY <1>8, <1>9, SameText
<1> QED
  BY <1>7, <1>10

\* No two scopes share a key of the memo, for the separator occurs in no slug: a
\* surface that is found is that of the scope asked for (scopeKey in mcp/index.ts).
THEOREM ScopeKeys ==
    ASSUME NEW scope, Served(scope), NEW other, Served(other), scopeKey(scope) = scopeKey(other)
    PROVE  scope = other
<1>1. ASSUME NEW s, Served(s), s # Unscoped
      PROVE  s \in [slug : Slugs, prefix : Text] /\ scopeKey(s) = KeyText(s.slug, s.prefix)
  BY <1>1 DEF Served, scopeKey, KeyText
<1>2. ASSUME NEW s, Served(s), s # Unscoped PROVE scopeKey(s) # <<>>
  <2>1. s.slug \in Text /\ Len(s.slug) \in Nat /\ s.prefix \in Text /\ Len(s.prefix) \in Nat
    BY <1>1, <1>2, SlugFacts, TextFacts
  <2>2. IsKey(scopeKey(s), s.slug, s.prefix)
    BY <1>1, <1>2, <2>1, KeyFacts
  <2>3. Len(scopeKey(s)) = Len(s.slug) + 1 + Len(s.prefix)
    BY <2>2 DEF IsKey
  <2>4. Len(scopeKey(s)) # 0
    BY <2>1, <2>3, Longer
  <2> QED
    BY <2>4
<1>3. scopeKey(Unscoped) = <<>>
  BY DEF scopeKey
<1>4. CASE scope # Unscoped /\ other # Unscoped
  <2>1. scope.slug = other.slug /\ scope.prefix = other.prefix
    BY <1>1, <1>4, KeysDiffer
  <2> QED
    BY <1>1, <1>4, <2>1
<1> QED
  BY <1>2, <1>3, <1>4

\* Where a path leads that a tool is called with.
LEMMA NamedFacts ==
    ASSUME NEW scope, Served(scope), NEW path \in Seq(Text), Kept(path) # <<>>
    PROVE  /\ Join(Kept(path)) \in Text /\ Join(Kept(path)) # <<>>
           /\ Named(scope, path) = IF scope.prefix = <<>> THEN Join(Kept(path))
                                   ELSE Joined(scope.prefix, Join(Kept(path)))
<1> DEFINE x == scope.prefix
           one == <<x>>
           k == Kept(path)
           out == {<<>>, Dot}
<1>1. x \in Text /\ x # Dot
  <2>1. <<>> # Dot
    BY DEF Dot
  <2> QED
    BY <2>1, NoScopeFacts DEF Served
<1> HIDE DEF x
<1>2. one \in Seq(Text) /\ IsHead(one, x)
  BY <1>1 DEF IsHead
<1>3. Named(scope, path) = Join(Kept(one \o path))
  BY DEF Named, x
<1> HIDE DEF one
<1>4. /\ k \in Seq(Text) /\ Plain(k) /\ Filled(k) /\ Join(k) \in Text /\ k # <<>>
  BY KeptFacts
<1>5. Kept(one \o path) = Without(one \o path, out) /\ k = Without(path, out)
  BY DEF Kept, Dot
<1>6. Join(k) # <<>>
  BY <1>4, JoinNotDot
<1>7. CASE x = <<>>
  <2>1. Without(one \o path, out) = Without(path, out)
    <3>1. x \in out
      BY <1>7
    <3> HIDE DEF out
    <3> QED
      BY <1>2, <3>1, WithoutDropped
  <2> QED
    BY <1>3, <1>4, <1>5, <1>6, <1>7, <2>1 DEF x
<1>8. CASE x # <<>>
  <2>1. Without(one \o path, out) = one \o Without(path, out)
    <3>1. x \notin out
      BY <1>1, <1>8
    <3> HIDE DEF out
    <3> QED
      BY <1>2, <3>1, WithoutHead
  <2>2. Kept(one \o path) = one \o k
    BY <1>5, <2>1
  <2> HIDE DEF k
  <2>3. Join(one \o k) = IF k = <<>> THEN x ELSE Joined(x, Join(k))
    BY <1>1, <1>2, <1>4, <1>8, JoinHead
  <2> QED
    BY <1>3, <1>4, <1>6, <1>8, <2>2, <2>3 DEF x, k
<1> QED
  BY <1>7, <1>8

----------------------------------------------------------------------------
(* What a call answers with.                                               *)

PathTools == {"wrote", "appended", "patched", "deleted", "removed", "read", "created", "resource"}

StaysIn(scope, answer) ==
    /\ "vault" \in DOMAIN answer => VaultFound(scope, answer.vault)
    /\ "vaults" \in DOMAIN answer => answer.vaults = VaultsListed(scope)
    /\ "file" \in DOMAIN answer => \A p \in answer.indexed \cup {answer.file} : Inside(scope, p)
    /\ "paths" \in DOMAIN answer =>
           /\ VaultFound(scope, answer.vault)
           /\ \A p \in answer.paths :
                  IF answer.did = "folders"
                  THEN InFolder(answer.vault, (Folder(scope) \o p) \o Slash) # {}
                  ELSE Folder(scope) \o p \in Notes(answer.vault)
Found(scope, answer) ==
    answer.did = "searched" =>
        /\ answer.asked \in Asked /\ answer.vault \in Slugs
        /\ answer.hits = Stripped(scope, search(Table(answer.vault), answer.asked.query,
                                                withScopedFilter(answer.asked.opts, scope)))
Good(scope, answer) == StaysIn(scope, answer) /\ Found(scope, answer)

LEMMA PathType ==
    ASSUME NEW path \in Paths
    PROVE  path \in Seq(Text)
<1>1. \A s \in Seq(STRING) : s \in Text
  BY SeqMonotonic DEF Text, Character
<1>2. path \in Seq(Seq(STRING)) /\ Seq(STRING) \subseteq Text
  BY <1>1, McpAssumption
<1> QED
  BY <1>2, SeqMonotonic

LEMMA RowType ==
    ASSUME NEW c \in DOMAIN Chunks
    PROVE  Chunks[c].path \in Seq(STRING) /\ Chunks[c].of \in Seq(STRING)
<1> DEFINE Row == [path : Seq(STRING), of : Seq(STRING)]
<1>1. Chunks \in Seq(Row)
  BY SearchAssumption
<1> HIDE DEF Row
<1>2. c \in 1 .. Len(Chunks)
  BY <1>1, LenProperties
<1>3. Chunks[c] \in Row
  BY <1>1, <1>2, ElementOfSeq
<1> QED
  BY <1>3 DEF Row

LEMMA NoteType ==
    ASSUME NEW slug, NEW n \in Notes(slug)
    PROVE  n \in Text
<1>1. PICK c \in DOMAIN Chunks : n = Chunks[c].path
  BY DEF Notes, Table, PathOf
<1>2. Chunks[c].path \in Seq(STRING)
  BY RowType
<1> QED
  BY <1>1, <1>2, SeqMonotonic DEF Text, Character

LEMMA FolderFacts ==
    ASSUME NEW scope, Served(scope)
    PROVE  /\ Folder(scope) \in Text
           /\ scope.prefix = <<>> => Folder(scope) = <<>>
           /\ \A p \in Text : under(scope, p) = Folder(scope) \o p
<1>1. scope.prefix \in Text
  BY NoScopeFacts
<1>2. Folder(scope) = IF scope.prefix = <<>> THEN <<>> ELSE scope.prefix \o Slash
  BY DEF Folder, Slash
<1>3. \A p \in Text : <<>> \o p = p
  BY ConcatEmptySeq DEF Text
<1> QED
  BY <1>1, <1>2, <1>3, TextFacts DEF under, Slash

LEMMA UnderIsInside ==
    ASSUME NEW scope, Served(scope), NEW p \in Text
    PROVE  under(scope, p) \in Text /\ Inside(scope, under(scope, p))
<1>1. Folder(scope) \in Text /\ under(scope, p) = Folder(scope) \o p
  BY FolderFacts
<1>2. under(scope, p) \in Text
  BY <1>1, TextFacts
<1>3. IsPrefix(Folder(scope), Folder(scope) \o p)
  BY <1>1, ConcatIsPrefixed
<1> QED
  BY <1>1, <1>2, <1>3 DEF Inside, Folder

LEMMA NamedIsUnder ==
    ASSUME NEW scope, Served(scope), NEW path \in Seq(Text), Kept(path) # <<>>
    PROVE  /\ Join(Kept(path)) \in Text
           /\ Named(scope, path) = under(scope, Join(Kept(path)))
  BY NamedFacts DEF under, Joined, Slash

LEMMA RestOfNote ==
    ASSUME NEW f \in Text, NEW n \in Text, IsPrefix(f \o Slash, n)
    PROVE  SubSeq(n, Len(f \o Slash), Len(n)) \in Text
<1>1. Len(f \o Slash) = Len(f) + 1 /\ Slash \in Text
  <2>1. Slash \in Text /\ Len(Slash) = 1
    BY TextFacts
  <2>2. Len(f \o Slash) = Len(f) + Len(Slash)
    BY <2>1, TextFacts, Zenon
  <2> QED
    BY <2>1, <2>2
<1>2. SubSeq(n, Len(f \o Slash), Len(n)) = Rest(n, Len(f))
  BY <1>1 DEF Rest
<1>3. IsPrefix(f, n)
  BY <1>1, PrefixOfConcat
<1> QED
  BY <1>2, <1>3, PrefixSplits

LEMMA PathAnswer ==
    ASSUME NEW scope, Served(scope), NEW vault, VaultFound(scope, vault),
           NEW path \in Paths, safeJoin(path),
           NEW tool \in PathTools, NEW rows \in SUBSET Text
    PROVE  Good(scope, [did |-> tool, vault |-> vault, file |-> Named(scope, path),
                        indexed |-> {under(scope, p) : p \in rows}])
<1> DEFINE f == Named(scope, path)
           indexed == {under(scope, p) : p \in rows}
           a == [did |-> tool, vault |-> vault, file |-> f, indexed |-> indexed]
<1>1. path \in Seq(Text) /\ Kept(path) # <<>>
  BY PathType DEF safeJoin
<1>2. Join(Kept(path)) \in Text /\ f = under(scope, Join(Kept(path)))
  BY <1>1, NamedIsUnder
<1> HIDE DEF f
<1>3. f \in Text /\ Inside(scope, f)
  BY <1>2, UnderIsInside
<1>4. \A p \in indexed : Inside(scope, p)
  BY UnderIsInside
<1> HIDE DEF indexed
<1>5. DOMAIN a = {"did", "vault", "file", "indexed"} /\ a.did = tool /\ a.indexed = indexed
      /\ a.file = f /\ a.vault = vault
  OBVIOUS
<1> HIDE DEF a
<1>6. StaysIn(scope, a)
  BY <1>3, <1>4, <1>5 DEF StaysIn
<1>7. Found(scope, a)
  BY <1>5 DEF Found, PathTools
<1>8. Good(scope, a)
  BY <1>6, <1>7 DEF Good
<1> QED
  BY <1>8 DEF a, f, indexed

\* The notes of a scope, by their paths in it, and the folders on their way.
LEMMA WalkFacts ==
    ASSUME NEW scope, Served(scope), NEW slug, NEW p \in walkVault(scope, slug)
    PROVE  p \in Text /\ Folder(scope) \o p \in InFolder(slug, Folder(scope))
<1>1. PICK n \in InFolder(slug, Folder(scope)) : p = strip(scope, n)
  BY DEF walkVault
<1>2. n \in Text /\ IsPrefix(Folder(scope), n) /\ Folder(scope) \in Text
  BY NoteType, FolderFacts DEF InFolder
<1>3. p = Rest(n, Len(Folder(scope)))
  BY <1>1 DEF strip, Rest
<1> QED
  BY <1>2, <1>3, PrefixSplits

LEMMA WalkFolders ==
    ASSUME NEW scope, Served(scope), NEW slug, NEW q \in walkVaultFolders(scope, slug)
    PROVE  InFolder(slug, (Folder(scope) \o q) \o Slash) # {}
<1> DEFINE F == Folder(scope)
<1>0. PICK p \in walkVault(scope, slug) :
          q \in {SubSeq(p, 1, i - 1) : i \in {j \in DOMAIN p : p[j] = "/"}}
  BY DEF walkVaultFolders
<1>1. PICK i \in DOMAIN p : p[i] = "/" /\ q = SubSeq(p, 1, i - 1)
  BY <1>0
<1>2. p \in Text /\ F \o p \in Notes(slug) /\ F \in Text
  BY WalkFacts, FolderFacts DEF InFolder
<1>3. Len(p) \in Nat /\ i \in 1 .. Len(p) /\ \A j \in 1 .. Len(p) : p[j] \in Character
  BY <1>2, LenProperties, ElementOfSeq DEF Text
<1>4. q \in Text /\ Len(q) = i - 1 /\ \A j \in 1 .. i - 1 : q[j] = p[j]
  <2>1. 1 \in Int /\ i - 1 \in Int /\ \A j \in 1 .. i - 1 : p[j] \in Character
    BY <1>3
  <2>2. /\ q \in Seq(Character)
        /\ Len(q) = IF 1 <= i - 1 THEN (i - 1) - 1 + 1 ELSE 0
        /\ \A j \in 1 .. (i - 1) - 1 + 1 : q[j] = p[1 + j - 1]
    BY <1>1, <2>1, SubSeqProperties
  <2> QED
    BY <1>3, <2>2 DEF Text
<1>5. IsPrefix(q \o Slash, p)
  <2> DEFINE u == q \o Slash
  <2>1. IsConcat(u, q, Slash)
    BY <1>4, TextFacts, ConcatFacts
  <2> HIDE DEF u
  <2>2. Len(Slash) = 1 /\ Slash[1] = "/"
    BY DEF Slash
  <2>3. u \in Text /\ Len(u) = i /\ u[i] = "/" /\ \A j \in 1 .. i - 1 : u[j] = p[j]
    BY <1>3, <1>4, <2>1, <2>2 DEF IsConcat
  <2>4. Begins(u, p)
    <3>1. \A j \in 1 .. Len(u) : j = i \/ j \in 1 .. i - 1
      BY <1>3, <2>3
    <3>2. \A j \in 1 .. Len(u) : p[j] = u[j]
      BY <1>1, <2>3, <3>1
    <3>3. Len(u) <= Len(p)
      BY <1>3, <2>3
    <3> QED
      BY <3>2, <3>3 DEF Begins
  <2> QED
    BY <1>2, <2>3, <2>4, PrefixFacts DEF u
<1>6. (F \o q) \o Slash = F \o (q \o Slash)
  <2>1. Associates(F, q, Slash)
    BY <1>2, <1>4, TextFacts, Associative
  <2> QED
    BY <2>1 DEF Associates
<1>7. IsPrefix(F, F \o p) /\ Rest(F \o p, Len(F)) = p /\ F \o p \in Text
  BY <1>2, ConcatIsPrefixed, TextFacts
<1>8. q \o Slash \in Text
  BY <1>4, TextFacts
<1>9. IsPrefix(F \o (q \o Slash), F \o p)
  <2> DEFINE t == F \o p
             b == q \o Slash
  <2>1. b \in Text /\ t \in Text /\ IsPrefix(F, t) /\ IsPrefix(b, Rest(t, Len(F)))
    BY <1>5, <1>7, <1>8
  <2> HIDE DEF t, b
  <2>2. IsPrefix(F \o b, t)
    BY <1>2, <2>1, PrefixOfConcat
  <2> QED
    BY <2>2 DEF t, b
<1>10. F \o p \in InFolder(slug, (F \o q) \o Slash)
  BY <1>2, <1>6, <1>9 DEF InFolder
<1> QED
  BY <1>10

----------------------------------------------------------------------------
(* The invariant: what a session, a memoised surface or a request serves   *)
(* is what its URL stands for, and an answer is one of that scope.         *)

Entries == {e \in [key : Text, scope : [slug : Text, prefix : Text]] :
                Served(e.scope) /\ e.key = scopeKey(e.scope)}

IsSlot(x) == x = [stage |-> x.stage, url |-> x.url, sid |-> x.sid, scope |-> x.scope,
                  answer |-> x.answer]
Serves(x) == x.url \in Urls /\ Served(x.scope) /\ x.scope = resolveScope(x.url)
SlotOk(x) ==
    /\ IsSlot(x)
    /\ \/ x = Idle
       \/ x.stage \in {"binding", "connecting", "calling"} /\ Serves(x) /\ x.answer = NoAnswer
       \/ /\ x.stage = "deleting" /\ x.url \in Urls /\ resolveScope(x.url) # NoScope
          /\ x.answer = NoAnswer
       \/ /\ x.stage = "done" /\ x.url \in Urls
          /\ x.answer = NoAnswer \/ (Serves(x) /\ Good(x.scope, x.answer))

SlotsOk == slot = [r \in Slots |-> slot[r]] /\ \A r \in Slots : SlotOk(slot[r])
SessionsOk ==
    /\ DOMAIN sessions \subseteq Sids
    /\ \A s \in DOMAIN sessions :
           Served(sessions[s].scope) /\ sessions[s].key = scopeKey(sessions[s].scope)
CacheOk == cache \in Seq(Entries)
ServersOk ==
    /\ server \in [Sids -> {"unborn", "open", "closing", "closed"}]
    /\ OpenServersAreSessions
IInv == SlotsOk /\ SessionsOk /\ CacheOk /\ ServersOk

LEMMA NoAnswerFacts == NoAnswer.did = "nothing" /\ DOMAIN NoAnswer = {"did"}
  BY DEF NoAnswer

LEMMA IdleFacts ==
    /\ IsSlot(Idle) /\ Idle.stage = "idle" /\ Idle.scope = Unscoped /\ Idle.answer = NoAnswer
    /\ Idle.url = [raw |-> <<>>, means |-> Unscoped] /\ SlotOk(Idle)
  BY DEF Idle, IsSlot, SlotOk

LEMMA SlotStep ==
    ASSUME SlotsOk, NEW r \in Slots, NEW y, SlotOk(y), slot' = [slot EXCEPT ![r] = y]
    PROVE  SlotsOk'
  BY DEF SlotsOk

LEMMA DoneRecord ==
    ASSUME NEW x, IsSlot(x), NEW a, NEW y, y = [x EXCEPT !.stage = "done", !.answer = a]
    PROVE  y = [stage |-> "done", url |-> x.url, sid |-> x.sid, scope |-> x.scope, answer |-> a]
<1>1. PICK st, u, i, sc, an :
          x = [stage |-> st, url |-> u, sid |-> i, scope |-> sc, answer |-> an]
  BY Zenon DEF IsSlot
<1>2. x.url = u /\ x.sid = i /\ x.scope = sc
  BY <1>1
<1>3. y = [stage |-> "done", url |-> u, sid |-> i, scope |-> sc, answer |-> a]
  BY <1>1
<1> QED
  BY <1>2, <1>3

LEMMA AnswerStep ==
    ASSUME SlotsOk, NEW r \in Slots, slot[r] # Idle, slot[r].stage # "done",
           NEW a, a = NoAnswer \/ (slot[r].stage # "deleting" /\ Good(slot[r].scope, a)),
           Answer(r, a)
    PROVE  SlotsOk'
<1> DEFINE x == slot[r]
           y == [stage |-> "done", url |-> x.url, sid |-> x.sid, scope |-> x.scope, answer |-> a]
<1>1. SlotOk(x) /\ slot = [q \in Slots |-> slot[q]]
  BY DEF SlotsOk
<1>2. x = [stage |-> x.stage, url |-> x.url, sid |-> x.sid, scope |-> x.scope,
           answer |-> x.answer]
  BY <1>1 DEF SlotOk, IsSlot
<1>3. slot' = [slot EXCEPT ![r] = y]
  <2>1. slot' = [slot EXCEPT ![r].stage = "done", ![r].answer = a]
    BY DEF Answer
  <2>2. /\ DOMAIN slot' = Slots /\ \A q \in Slots \ {r} : slot'[q] = slot[q]
        /\ slot' = [q \in Slots |-> slot'[q]]
    BY <1>1, <2>1
  <2>3. slot'[r] = [x EXCEPT !.stage = "done", !.answer = a]
    BY <1>1, <2>1
  <2>4. slot'[r] = y
    <3> HIDE DEF x
    <3>1. IsSlot(x)
      BY <1>2 DEF IsSlot
    <3> QED
      BY <2>3, <3>1, DoneRecord
  <2> HIDE DEF x, y
  <2> QED
    BY <1>1, <2>2, <2>4
<1>4. /\ y.stage = "done" /\ y.url = x.url /\ y.sid = x.sid /\ y.scope = x.scope /\ y.answer = a
      /\ IsSlot(y)
  BY DEF IsSlot
<1> HIDE DEF y
<1>5. SlotOk(y)
  BY <1>1, <1>4 DEF SlotOk, Serves
<1> QED
  BY <1>3, <1>5, SlotStep

LEMMA CallingFacts ==
    ASSUME SlotsOk, NEW r \in Slots, slot[r].stage \in {"binding", "connecting", "calling"}
    PROVE  slot[r] # Idle /\ slot[r].stage # "done" /\ slot[r].stage # "deleting"
           /\ Serves(slot[r]) /\ IsSlot(slot[r]) /\ slot[r].answer = NoAnswer
  BY IdleFacts DEF SlotsOk, SlotOk

LEMMA OnPathOk ==
    ASSUME SlotsOk, NEW r \in Slots, NEW arg, NEW path \in Paths,
           NEW tool \in PathTools, NEW rows,
           safeJoin(path) => rows \subseteq Text,
           OnPath(r, tool, arg, path, rows)
    PROVE  SlotsOk'
<1> DEFINE scope == slot[r].scope
           vault == VaultArgument(scope, arg)
           found == [did |-> tool, vault |-> vault, file |-> Named(scope, path),
                     indexed |-> {under(scope, p) : p \in rows}]
<1>1. slot[r].stage = "calling" /\ Answer(r, IF VaultFound(scope, vault) /\ safeJoin(path)
                                             THEN found ELSE NoAnswer)
  BY DEF OnPath, At
<1>2. slot[r] # Idle /\ slot[r].stage # "done" /\ slot[r].stage # "deleting" /\ Served(scope)
  BY <1>1, CallingFacts DEF Serves
<1>3. ASSUME VaultFound(scope, vault), safeJoin(path) PROVE Good(scope, found)
  <2> HIDE DEF vault, scope
  <2>1. rows \in SUBSET Text
    BY <1>3
  <2> QED
    BY <1>2, <1>3, <2>1, PathAnswer
<1> HIDE DEF found, vault
<1>4. PICK a : Answer(r, a) /\ (a = NoAnswer \/ Good(scope, a))
  BY <1>1, <1>3
<1> QED
  BY <1>2, <1>4, AnswerStep

LEMMA NoRowsOk ==
    ASSUME SlotsOk, NEW r \in Slots, NEW arg, NEW path \in Paths,
           NEW tool \in {"read", "created", "resource"}, OnPath(r, tool, arg, path, {})
    PROVE  SlotsOk'
<1> DEFINE rows == {}
<1>1. tool \in PathTools
  BY DEF PathTools
<1>2. rows \subseteq Text /\ OnPath(r, tool, arg, path, rows)
  OBVIOUS
<1> HIDE DEF rows
<1> QED
  BY <1>1, <1>2, OnPathOk

LEMMA RowsType ==
    ASSUME NEW path \in Paths
    PROVE  RowsOf(path) \subseteq Text
  BY PathType, JoinType DEF RowsOf

LEMMA CanonicalType ==
    ASSUME NEW path \in Paths
    PROVE  Join(canonicalFolderPath(path)) \in Text
<1> DEFINE filled == {i \in DOMAIN path : \E j \in i .. Len(path) : path[j] # <<>>}
           n == Len(path)
           m == Cardinality(filled)
<1>1. /\ path \in Seq(Text) /\ n \in Nat /\ DOMAIN path = 1 .. n
      /\ \A i \in 1 .. n : path[i] \in Text
  BY PathType, LenProperties, ElementOfSeq
<1>2. 1 \in Int /\ n \in Int
  BY <1>1
<1>3. filled \subseteq 1 .. n
  BY <1>1
<1> HIDE DEF filled, n
<1>4. IsFiniteSet(1 .. n) /\ Cardinality(1 .. n) = IF 1 > n THEN 0 ELSE n - 1 + 1
  BY <1>2, FS_Interval, Zenon
<1>5. IsFiniteSet(filled) /\ m <= Cardinality(1 .. n)
  BY <1>3, <1>4, FS_Subset
<1>6. m \in Nat
  BY <1>5, FS_CardinalityType
<1> HIDE DEF m
<1>7. m <= n
  BY <1>1, <1>4, <1>5, <1>6
<1>8. SubSeq(path, 1, m) \in Seq(Text)
  <2>1. 1 \in Int /\ m \in Int /\ \A i \in 1 .. m : path[i] \in Text
    BY <1>1, <1>6, <1>7
  <2> QED
    BY <2>1, SubSeqProperties
<1>9. canonicalFolderPath(path) = SubSeq(path, 1, m)
  BY DEF canonicalFolderPath, m, filled
<1> QED
  BY <1>8, <1>9, JoinType

LEMMA PathCallsOk ==
    ASSUME SlotsOk, NEW r \in Slots, NEW arg, NEW path \in Paths, PathCalls(r, arg, path)
    PROVE  SlotsOk'
<1>1. RowsOf(path) \subseteq Text
  BY RowsType
<1>2. CASE writeFileTool(r, arg, path)
  <2>1. OnPath(r, "wrote", arg, path, RowsOf(path)) /\ "wrote" \in PathTools
    BY <1>2 DEF writeFileTool, PathTools
  <2> QED
    BY <1>1, <2>1, OnPathOk
<1>3. CASE appendFileTool(r, arg, path)
  <2>1. OnPath(r, "appended", arg, path, RowsOf(path)) /\ "appended" \in PathTools
    BY <1>3 DEF appendFileTool, PathTools
  <2> QED
    BY <1>1, <2>1, OnPathOk
<1>4. CASE patchFileTool(r, arg, path)
  <2>1. OnPath(r, "patched", arg, path, RowsOf(path)) /\ "patched" \in PathTools
    BY <1>4 DEF patchFileTool, PathTools
  <2> QED
    BY <1>1, <2>1, OnPathOk
<1>5. CASE deleteFileTool(r, arg, path)
  <2>1. OnPath(r, "deleted", arg, path, RowsOf(path)) /\ "deleted" \in PathTools
    BY <1>5 DEF deleteFileTool, PathTools
  <2> QED
    BY <1>1, <2>1, OnPathOk
<1>6. CASE readFileTool(r, arg, path)
  <2>1. OnPath(r, "read", arg, path, {})
    BY <1>6 DEF readFileTool
  <2> QED
    BY <2>1, NoRowsOk
<1>7. CASE createFolderTool(r, arg, path)
  <2>1. OnPath(r, "created", arg, path, {})
    BY <1>7 DEF createFolderTool
  <2> QED
    BY <2>1, NoRowsOk
<1>8. ASSUME NEW recursive \in BOOLEAN, deleteFolderTool(r, arg, path, recursive)
      PROVE  SlotsOk'
  <2> DEFINE scope == slot[r].scope
             f == Named(scope, path)
             notes == InFolder(VaultArgument(scope, arg), f \o Slash)
             rows == {Join(canonicalFolderPath(path)) \o SubSeq(n, Len(f \o Slash), Len(n)) : n \in notes}
  <2>1. OnPath(r, "removed", arg, path, rows) /\ "removed" \in PathTools
    BY <1>8 DEF deleteFolderTool, PathTools, Slash
  <2>2. slot[r].stage = "calling"
    BY <2>1 DEF OnPath, At
  <2>3. Served(scope)
    BY <2>2, CallingFacts DEF Serves
  <2>4. ASSUME safeJoin(path), NEW n \in notes
        PROVE  Join(canonicalFolderPath(path)) \o SubSeq(n, Len(f \o Slash), Len(n)) \in Text
    <3>1. path \in Seq(Text) /\ Kept(path) # <<>>
      BY <2>4, PathType DEF safeJoin
    <3>2. Join(Kept(path)) \in Text /\ f = under(scope, Join(Kept(path)))
      BY <2>3, <3>1, NamedIsUnder
    <3> HIDE DEF f
    <3>3. f \in Text
      BY <2>3, <3>2, UnderIsInside
    <3>4. n \in Text /\ IsPrefix(f \o Slash, n)
      BY NoteType DEF InFolder
    <3> HIDE DEF notes
    <3>5. SubSeq(n, Len(f \o Slash), Len(n)) \in Text
      BY <3>3, <3>4, RestOfNote
    <3> QED
      BY <3>5, CanonicalType, TextFacts
  <2>5. safeJoin(path) => rows \subseteq Text
    <3> HIDE DEF notes, f, scope
    <3> QED
      BY <2>4
  <2> QED
    BY <2>1, <2>5, OnPathOk
<1> QED
  BY <1>2, <1>3, <1>4, <1>5, <1>6, <1>7, <1>8 DEF PathCalls

LEMMA ResourceOk ==
    ASSUME SlotsOk, NEW r \in Slots, NEW slug, NEW path \in Paths, readResource(r, slug, path)
    PROVE  SlotsOk'
<1>1. OnPath(r, "resource", slug, path, {})
  BY DEF readResource
<1> QED
  BY <1>1, NoRowsOk

\* A call that answers for a vault.
LEMMA OnVaultOk ==
    ASSUME SlotsOk, NEW r \in Slots, NEW found, NEW vault, slot[r].stage = "calling",
           VaultFound(slot[r].scope, vault) => Good(slot[r].scope, found),
           Answer(r, IF VaultFound(slot[r].scope, vault) THEN found ELSE NoAnswer)
    PROVE  SlotsOk'
<1>1. slot[r] # Idle /\ slot[r].stage # "done" /\ slot[r].stage # "deleting"
  BY CallingFacts
<1>2. PICK a : Answer(r, a) /\ (a = NoAnswer \/ Good(slot[r].scope, a))
  OBVIOUS
<1> QED
  BY <1>1, <1>2, AnswerStep

LEMMA PathsAnswer ==
    ASSUME NEW scope, Served(scope), NEW vault, VaultFound(scope, vault),
           NEW did \in {"files", "folders", "resources"}, NEW paths,
           \A p \in paths : IF did = "folders" THEN p \in walkVaultFolders(scope, vault)
                            ELSE p \in walkVault(scope, vault)
    PROVE  Good(scope, [did |-> did, vault |-> vault, paths |-> paths])
<1> DEFINE a == [did |-> did, vault |-> vault, paths |-> paths]
<1>1. /\ DOMAIN a = {"did", "vault", "paths"}
      /\ a.did = did /\ a.vault = vault /\ a.paths = paths
  OBVIOUS
<1> HIDE DEF a
<1>2. ASSUME NEW p \in paths, did = "folders"
      PROVE  InFolder(vault, (Folder(scope) \o p) \o Slash) # {}
  BY <1>2, WalkFolders
<1>3. ASSUME NEW p \in paths, did # "folders" PROVE Folder(scope) \o p \in Notes(vault)
  BY <1>3, WalkFacts DEF InFolder
<1>4. StaysIn(scope, a)
  BY <1>1, <1>2, <1>3 DEF StaysIn
<1>5. Found(scope, a)
  BY <1>1 DEF Found
<1> QED
  BY <1>4, <1>5 DEF Good, a

LEMMA VaultCallsOk ==
    ASSUME SlotsOk, NEW r \in Slots, NEW arg, VaultCalls(r, arg)
    PROVE  SlotsOk'
<1> DEFINE scope == slot[r].scope
           vault == VaultArgument(scope, arg)
<1>1. slot[r].stage = "calling"
  BY DEF VaultCalls, vaultStatusTool, searchTool, listFilesTool, listFoldersTool, OnVault, At
<1>2. Served(scope)
  BY <1>1, CallingFacts DEF Serves
<1>3. CASE vaultStatusTool(r, arg)
  <2> DEFINE a == [did |-> "status", vault |-> vault]
  <2>1. Answer(r, IF VaultFound(scope, vault) THEN a ELSE NoAnswer)
    BY <1>3 DEF vaultStatusTool, OnVault
  <2>2. DOMAIN a = {"did", "vault"} /\ a.did = "status" /\ a.vault = vault
    OBVIOUS
  <2> HIDE DEF a, vault
  <2>3. VaultFound(scope, vault) => Good(scope, a)
    BY <2>2 DEF Good, StaysIn, Found
  <2> QED
    BY <1>1, <2>1, <2>3, OnVaultOk
<1>4. ASSUME NEW asked \in Asked, searchTool(r, arg, asked) PROVE SlotsOk'
  <2> DEFINE a == [did |-> "searched", vault |-> vault, asked |-> asked,
                   hits |-> Stripped(scope, search(Table(vault), asked.query,
                                                   withScopedFilter(asked.opts, scope)))]
  <2>1. Answer(r, IF VaultFound(scope, vault) THEN a ELSE NoAnswer)
    BY <1>4 DEF searchTool, OnVault
  <2>2. /\ DOMAIN a = {"did", "vault", "asked", "hits"} /\ a.did = "searched"
        /\ a.vault = vault /\ a.asked = asked
        /\ a.hits = Stripped(scope, search(Table(vault), asked.query,
                                           withScopedFilter(asked.opts, scope)))
    OBVIOUS
  <2> HIDE DEF a, vault
  <2>3. VaultFound(scope, vault) => Good(scope, a)
    BY <2>2 DEF Good, StaysIn, Found, VaultFound
  <2> QED
    BY <1>1, <2>1, <2>3, OnVaultOk
<1>5. ASSUME NEW asked \in Asked, listFilesTool(r, arg, asked.opts.prefix) PROVE SlotsOk'
  <2> DEFINE paths == {p \in walkVault(scope, vault) : IsPrefix(asked.opts.prefix, p)}
             a == [did |-> "files", vault |-> vault, paths |-> paths]
  <2>1. Answer(r, IF VaultFound(scope, vault) THEN a ELSE NoAnswer)
    BY <1>5 DEF listFilesTool, OnVault
  <2>2. \A p \in paths : p \in walkVault(scope, vault)
    OBVIOUS
  <2> HIDE DEF paths, vault
  <2>3. VaultFound(scope, vault) => Good(scope, a)
    BY <1>2, <2>2, PathsAnswer
  <2> HIDE DEF a
  <2> QED
    BY <1>1, <2>1, <2>3, OnVaultOk
<1>6. ASSUME NEW asked \in Asked, listFoldersTool(r, arg, asked.opts.prefix) PROVE SlotsOk'
  <2> DEFINE paths == {p \in walkVaultFolders(scope, vault) : IsPrefix(asked.opts.prefix, p)}
             a == [did |-> "folders", vault |-> vault, paths |-> paths]
  <2>1. Answer(r, IF VaultFound(scope, vault) THEN a ELSE NoAnswer)
    BY <1>6 DEF listFoldersTool, OnVault
  <2>2. \A p \in paths : p \in walkVaultFolders(scope, vault)
    OBVIOUS
  <2> HIDE DEF paths, vault
  <2>3. VaultFound(scope, vault) => Good(scope, a)
    BY <1>2, <2>2, PathsAnswer
  <2> HIDE DEF a
  <2> QED
    BY <1>1, <2>1, <2>3, OnVaultOk
<1> QED
  BY <1>3, <1>4, <1>5, <1>6 DEF VaultCalls

LEMMA ListResourcesOk ==
    ASSUME SlotsOk, NEW r \in Slots, NEW slug, listResources(r, slug)
    PROVE  SlotsOk'
<1> DEFINE scope == slot[r].scope
           vault == VaultArgument(scope, slug)
           paths == walkVault(scope, vault)
           a == [did |-> "resources", vault |-> vault, paths |-> paths]
<1>1. slot[r].stage = "calling" /\ Answer(r, IF VaultFound(scope, vault) THEN a ELSE NoAnswer)
  BY DEF listResources, OnVault, At
<1>2. Served(scope)
  BY <1>1, CallingFacts DEF Serves
<1>3. \A p \in paths : p \in walkVault(scope, vault)
  OBVIOUS
<1> HIDE DEF paths, vault
<1>4. VaultFound(scope, vault) => Good(scope, a)
  BY <1>2, <1>3, PathsAnswer
<1> HIDE DEF a
<1> QED
  BY <1>1, <1>4, OnVaultOk

LEMMA ListVaultsOk ==
    ASSUME SlotsOk, NEW r \in Slots, listVaultsTool(r)
    PROVE  SlotsOk'
<1> DEFINE scope == slot[r].scope
           a == [did |-> "listed", vaults |-> VaultsListed(scope)]
<1>1. slot[r].stage = "calling" /\ Answer(r, a)
  BY DEF listVaultsTool, At
<1>2. slot[r] # Idle /\ slot[r].stage # "done" /\ slot[r].stage # "deleting"
  BY <1>1, CallingFacts
<1>3. DOMAIN a = {"did", "vaults"} /\ a.did = "listed" /\ a.vaults = VaultsListed(scope)
  OBVIOUS
<1> HIDE DEF a
<1>4. Good(scope, a)
  BY <1>3 DEF Good, StaysIn, Found
<1> QED
  BY <1>1, <1>2, <1>4, AnswerStep

LEMMA ConnectingRecord ==
    ASSUME NEW x, IsSlot(x), NEW y,
           y = [x EXCEPT !.stage = "connecting"] \/
           y = [x EXCEPT !.stage = "connecting", !.scope = x.scope]
    PROVE  y = [stage |-> "connecting", url |-> x.url, sid |-> x.sid, scope |-> x.scope,
                answer |-> x.answer]
<1>1. PICK st, u, i, sc, an :
          x = [stage |-> st, url |-> u, sid |-> i, scope |-> sc, answer |-> an]
  BY Zenon DEF IsSlot
<1>2. x.url = u /\ x.sid = i /\ x.scope = sc /\ x.answer = an
  BY <1>1
<1>3. CASE y = [x EXCEPT !.stage = "connecting"]
  BY <1>1, <1>2, <1>3
<1>4. CASE y = [x EXCEPT !.stage = "connecting", !.scope = x.scope]
  <2>1. y = [x EXCEPT !.stage = "connecting", !.scope = sc]
    BY <1>2, <1>4
  <2>2. y = [stage |-> "connecting", url |-> u, sid |-> i, scope |-> sc, answer |-> an]
    BY <1>1, <2>1
  <2> QED
    BY <1>2, <2>2
<1> QED
  BY <1>3, <1>4

LEMMA RefusedOk ==
    ASSUME SlotsOk, NEW r \in Slots, NEW url \in Urls, NEW s, NEW method,
           Refused(r, url, s, method)
    PROVE  SlotsOk'
<1>1. PICK y : y = [Idle EXCEPT !.stage = "done", !.url = url]
  OBVIOUS
<1>2. y = [stage |-> "done", url |-> url, sid |-> Idle.sid, scope |-> Idle.scope,
           answer |-> Idle.answer]
  BY <1>1 DEF Idle
<1>3. slot' = [slot EXCEPT ![r] = y]
  BY <1>1 DEF Refused
<1>4. SlotOk(y)
  BY <1>2, IdleFacts DEF SlotOk, IsSlot
<1> QED
  BY <1>3, <1>4, SlotStep

LEMMA BindOk ==
    ASSUME SlotsOk, NEW r \in Slots, NEW url \in Urls, Bind(r, url)
    PROVE  SlotsOk'
<1>1. PICK y : y = [Idle EXCEPT !.stage = "binding", !.url = url, !.scope = resolveScope(url)]
  OBVIOUS
<1>2. y = [stage |-> "binding", url |-> url, sid |-> Idle.sid, scope |-> resolveScope(url),
           answer |-> Idle.answer]
  BY <1>1 DEF Idle
<1>3. slot' = [slot EXCEPT ![r] = y] /\ resolveScope(url) # NoScope
  BY <1>1 DEF Bind
<1>4. SlotOk(y)
  BY <1>2, <1>3, IdleFacts, ResolvedIsServed DEF SlotOk, IsSlot, Serves
<1> QED
  BY <1>3, <1>4, SlotStep

LEMMA RouteOk ==
    ASSUME SlotsOk, SessionsOk, NEW r \in Slots, NEW url \in Urls, NEW s, NEW method,
           Route(r, url, s, method)
    PROVE  SlotsOk'
<1>1. /\ resolveScope(url) # NoScope /\ s \in DOMAIN sessions
      /\ sessions[s].key = scopeKey(resolveScope(url))
  BY DEF Route, pairFor
<1>2. Served(resolveScope(url)) /\ sessions[s].scope = resolveScope(url)
  BY <1>1, ResolvedIsServed, ScopeKeys DEF SessionsOk
<1>3. CASE method = "POST"
  <2>1. PICK y : y = [Idle EXCEPT !.stage = "calling", !.url = url, !.scope = sessions[s].scope]
    OBVIOUS
  <2>2. y = [stage |-> "calling", url |-> url, sid |-> Idle.sid, scope |-> sessions[s].scope,
             answer |-> Idle.answer]
    BY <2>1 DEF Idle
  <2>3. slot' = [slot EXCEPT ![r] = y]
    BY <1>3, <2>1 DEF Route
  <2>4. SlotOk(y)
    BY <1>2, <2>2, IdleFacts DEF SlotOk, IsSlot, Serves
  <2> QED
    BY <2>3, <2>4, SlotStep
<1>4. CASE method # "POST"
  <2>1. PICK y : y = [Idle EXCEPT !.stage = "deleting", !.url = url, !.sid = s]
    OBVIOUS
  <2>2. y = [stage |-> "deleting", url |-> url, sid |-> s, scope |-> Idle.scope,
             answer |-> Idle.answer]
    BY <2>1 DEF Idle
  <2>3. slot' = [slot EXCEPT ![r] = y]
    BY <1>4, <2>1 DEF Route
  <2>4. SlotOk(y)
    BY <1>1, <2>2, IdleFacts DEF SlotOk, IsSlot
  <2> QED
    BY <2>3, <2>4, SlotStep
<1> QED
  BY <1>3, <1>4

\* The memo holds surfaces under the keys of their scopes, and goes on to.
LEMMA SurfaceFacts ==
    ASSUME CacheOk, NEW scope, Served(scope)
    PROVE  scopedSurface(scope) = scope /\ Memo(scope) \in Seq(Entries)
<1>1. ASSUME NEW e \in Known(scopeKey(scope)) PROVE e.scope = scope
  <2>1. e \in Entries /\ e.key = scopeKey(scope)
    BY RangeOfSeq DEF Known, CacheOk
  <2>2. Served(e.scope) /\ scopeKey(e.scope) = scopeKey(scope)
    BY <2>1 DEF Entries
  <2> QED
    BY <2>2, ScopeKeys
<1>2. scopedSurface(scope) = scope
  <2> DEFINE e == CHOOSE e \in Known(scopeKey(scope)) : TRUE
  <2>1. Known(scopeKey(scope)) # {} => e \in Known(scopeKey(scope))
    OBVIOUS
  <2>2. scopedSurface(scope) = IF Known(scopeKey(scope)) = {} THEN scope ELSE e.scope
    BY DEF scopedSurface
  <2> HIDE DEF e
  <2> QED
    BY <1>1, <2>1, <2>2
<1> DEFINE entry == [key |-> scopeKey(scope), scope |-> scopedSurface(scope)]
           left == Without(cache, Known(entry.key))
           all == Append(left, entry)
           from == IF Len(all) > CacheMax THEN Len(all) - CacheMax + 1 ELSE 1
<1>3. entry \in Entries
  <2>1. scope.slug \in Text /\ scope.prefix \in Text /\ scope \in [slug : Text, prefix : Text]
    BY SlugFacts, TextFacts DEF Served, Unscoped
  <2>2. scopeKey(scope) \in Text
    <3>1. IsKey(KeyText(scope.slug, scope.prefix), scope.slug, scope.prefix)
      BY <2>1, KeyFacts
    <3> QED
      BY <3>1, TextFacts DEF IsKey, scopeKey, KeyText
  <2> QED
    BY <1>2, <2>1, <2>2 DEF Entries
<1>4. left \in Seq(Entries)
  BY WithoutFacts DEF CacheOk
<1> HIDE DEF left, entry
<1>5. all \in Seq(Entries) /\ Len(all) \in Nat
  <2>1. all \in Seq(Entries)
    BY <1>3, <1>4, AppendProperties
  <2> QED
    BY <2>1, LenProperties
<1> HIDE DEF all
<1>6. SubSeq(all, from, Len(all)) \in Seq(Entries)
  <2>1. CacheMax \in Nat \ {0}
    BY McpAssumption
  <2>2. from \in Int /\ Len(all) \in Int /\ \A i \in from .. Len(all) : i \in 1 .. Len(all)
    BY <1>5, <2>1
  <2> HIDE DEF from
  <2>3. \A i \in from .. Len(all) : all[i] \in Entries
    BY <1>5, <2>2, ElementOfSeq
  <2> QED
    BY <2>2, <2>3, SubSeqProperties
<1> QED
  BY <1>2, <1>6 DEF Memo, all, left, entry

LEMMA CreatePairOk ==
    ASSUME SlotsOk, CacheOk, NEW r \in Slots, createPair(r)
    PROVE  SlotsOk' /\ CacheOk'
<1> DEFINE x == slot[r]
<1>1. x.stage = "binding" /\ IsSlot(x) /\ Serves(x) /\ x.answer = NoAnswer
  BY CallingFacts DEF createPair, At
<1>2. scopedSurface(x.scope) = x.scope /\ Memo(x.scope) \in Seq(Entries)
  BY <1>1, SurfaceFacts DEF Serves
<1>3. slot' = [slot EXCEPT ![r].stage = "connecting"] \/
      slot' = [slot EXCEPT ![r].stage = "connecting", ![r].scope = scopedSurface(@)]
  BY DEF createPair
<1>4. slot' = [slot EXCEPT ![r] = slot'[r]]
  BY <1>3 DEF SlotsOk
<1>5. slot'[r] = [x EXCEPT !.stage = "connecting"] \/
      slot'[r] = [x EXCEPT !.stage = "connecting", !.scope = x.scope]
  BY <1>2, <1>3 DEF SlotsOk
<1> DEFINE y == [stage |-> "connecting", url |-> x.url, sid |-> x.sid, scope |-> x.scope,
                 answer |-> x.answer]
<1>6. slot'[r] = y
  <2> HIDE DEF x
  <2> QED
    BY <1>1, <1>5, ConnectingRecord
<1>7. SlotOk(y)
  BY <1>1 DEF SlotOk, IsSlot, Serves
<1>8. SlotsOk'
  <2> HIDE DEF y
  <2> QED
    BY <1>4, <1>6, <1>7, SlotStep
<1>9. CacheOk'
  BY <1>2 DEF createPair, CacheOk
<1> QED
  BY <1>8, <1>9

LEMMA InitializedOk ==
    ASSUME IInv, NEW r \in Slots, NEW s \in Sids, onsessioninitialized(r, s)
    PROVE  SlotsOk' /\ SessionsOk' /\ ServersOk'
<1> DEFINE x == slot[r]
           entry == [key |-> scopeKey(resolveScope(x.url)), scope |-> x.scope]
<1>1. x.stage = "connecting" /\ server[s] = "unborn" /\ server' = [server EXCEPT ![s] = "open"]
      /\ sessions' = [t \in DOMAIN sessions \cup {s} |-> IF t = s THEN entry ELSE sessions[t]]
      /\ Answer(r, [did |-> "initialised"])
  BY DEF onsessioninitialized, At
<1>2. x # Idle /\ x.stage # "done" /\ x.stage # "deleting" /\ Serves(x) /\ SlotsOk
  BY <1>1, CallingFacts DEF IInv
<1>3. SlotsOk'
  <2> DEFINE a == [did |-> "initialised"]
  <2>1. DOMAIN a = {"did"} /\ a.did = "initialised"
    OBVIOUS
  <2> HIDE DEF a
  <2>2. Good(x.scope, a)
    BY <2>1 DEF Good, StaysIn, Found
  <2>3. Answer(r, a)
    BY <1>1 DEF a
  <2> QED
    BY <1>2, <2>2, <2>3, AnswerStep
<1>4. Served(entry.scope) /\ entry.key = scopeKey(entry.scope)
  BY <1>2 DEF Serves
<1> HIDE DEF entry
<1>5. DOMAIN sessions' = DOMAIN sessions \cup {s}
      /\ \A t \in DOMAIN sessions' : sessions'[t] = IF t = s THEN entry ELSE sessions[t]
  BY <1>1
<1>6. SessionsOk'
  BY <1>4, <1>5 DEF IInv, SessionsOk
<1>7. ServersOk'
  BY <1>1, <1>5 DEF IInv, ServersOk, OpenServersAreSessions
<1> QED
  BY <1>3, <1>6, <1>7

LEMMA ClosedOk ==
    ASSUME SessionsOk, ServersOk, NEW s \in DOMAIN sessions, disposeServer(s), Forget(s)
    PROVE  SessionsOk' /\ ServersOk'
<1>1. DOMAIN sessions' = DOMAIN sessions \ {s} /\ \A t \in DOMAIN sessions' : sessions'[t] = sessions[t]
  BY DEF Forget
<1>2. SessionsOk'
  BY <1>1 DEF SessionsOk
<1>3. s \in Sids
  BY DEF SessionsOk
<1>4. ServersOk'
  BY <1>1, <1>3 DEF ServersOk, OpenServersAreSessions, disposeServer
<1> QED
  BY <1>2, <1>4

LEMMA OnSessionClosedOk ==
    ASSUME IInv, NEW r \in Slots, onsessionclosed(r)
    PROVE  IInv'
<1>1. slot[r].stage = "deleting" /\ Answer(r, NoAnswer) /\ UNCHANGED cache
  BY DEF onsessionclosed, At
<1>2. SlotsOk'
  BY <1>1, IdleFacts, AnswerStep DEF IInv
<1>3. SessionsOk' /\ ServersOk'
  <2>1. CASE slot[r].sid \in DOMAIN sessions
    BY <2>1, ClosedOk DEF onsessionclosed, IInv
  <2>2. CASE slot[r].sid \notin DOMAIN sessions
    BY <2>2 DEF onsessionclosed, IInv, SessionsOk, ServersOk, OpenServersAreSessions
  <2> QED
    BY <2>1, <2>2
<1> QED
  BY <1>1, <1>2, <1>3 DEF IInv, CacheOk

LEMMA NothingAnswered ==
    ASSUME SlotsOk, NEW r \in Slots, slot[r].stage \in {"binding", "connecting", "calling"},
           Answer(r, NoAnswer)
    PROVE  SlotsOk'
  BY CallingFacts, AnswerStep

LEMMA CallsOk ==
    ASSUME SlotsOk, NEW r \in Slots, Calls(r)
    PROVE  SlotsOk'
<1>1. CASE \E arg \in Arguments(r), path \in Paths : PathCalls(r, arg, path)
  BY <1>1, PathCallsOk
<1>2. CASE \E arg \in Arguments(r) : VaultCalls(r, arg)
  BY <1>2, VaultCallsOk
<1>3. CASE \E slug \in Slugs : Resources(r, slug)
  BY <1>3, ListResourcesOk, ResourceOk DEF Resources
<1> QED
  BY <1>1, <1>2, <1>3 DEF Calls

LEMMA CallsKeep ==
    ASSUME NEW r \in Slots, Calls(r)
    PROVE  UNCHANGED <<sessions, server, cache>>
<1>1. ASSUME NEW tool, NEW arg, NEW path, NEW rows, OnPath(r, tool, arg, path, rows)
      PROVE  UNCHANGED <<sessions, server, cache>>
  BY <1>1 DEF OnPath
<1>2. ASSUME NEW arg, NEW path, PathCalls(r, arg, path)
      PROVE  UNCHANGED <<sessions, server, cache>>
  BY <1>1, <1>2 DEF PathCalls, writeFileTool, appendFileTool, patchFileTool, deleteFileTool,
                    readFileTool, createFolderTool, deleteFolderTool
<1>3. ASSUME NEW arg, VaultCalls(r, arg)
      PROVE  UNCHANGED <<sessions, server, cache>>
  BY <1>3 DEF VaultCalls, vaultStatusTool, searchTool, listFilesTool, listFoldersTool, OnVault
<1>4. ASSUME NEW slug, Resources(r, slug)
      PROVE  UNCHANGED <<sessions, server, cache>>
  BY <1>1, <1>4 DEF Resources, listResources, readResource, OnVault
<1> QED
  BY <1>2, <1>3, <1>4 DEF Calls

LEMMA Unchanged ==
    ASSUME IInv, UNCHANGED <<sessions, server, cache>>
    PROVE  SessionsOk' /\ CacheOk' /\ ServersOk'
  BY DEF IInv, SessionsOk, CacheOk, ServersOk, OpenServersAreSessions

LEMMA InitOk == Init => IInv
<1> SUFFICES ASSUME Init PROVE IInv
  OBVIOUS
<1>1. SlotsOk
  BY IdleFacts DEF Init, SlotsOk
<1>2. CacheOk
  BY EmptySeq DEF Init, CacheOk
<1>3. DOMAIN sessions = {}
  BY DEF Init
<1>4. SessionsOk /\ ServersOk
  BY <1>3 DEF Init, SessionsOk, ServersOk, OpenServersAreSessions
<1> QED
  BY <1>1, <1>2, <1>4 DEF IInv

LEMMA StepOk == IInv /\ [Next]_vars => IInv'
<1> SUFFICES ASSUME IInv, [Next]_vars PROVE IInv'
  OBVIOUS
<1> USE DEF IInv
<1>1. ASSUME NEW r \in Slots, Arrives(r) PROVE IInv'
  <2>1. SlotsOk'
    BY <1>1, RefusedOk, BindOk, RouteOk DEF Arrives
  <2>2. UNCHANGED <<sessions, server, cache>>
    BY <1>1 DEF Arrives, Refused, Bind, Route
  <2> QED
    BY <2>1, <2>2, Unchanged
<1>2. ASSUME NEW r \in Slots, createPair(r) PROVE IInv'
  <2>1. SessionsOk' /\ ServersOk'
    BY <1>2 DEF createPair, SessionsOk, ServersOk, OpenServersAreSessions
  <2> QED
    BY <1>2, <2>1, CreatePairOk
<1>3. ASSUME NEW r \in Slots, NotInitialized(r) PROVE IInv'
  BY <1>3, NothingAnswered, Unchanged DEF NotInitialized, At
<1>4. ASSUME NEW r \in Slots, NEW s \in Sids, onsessioninitialized(r, s) PROVE IInv'
  BY <1>4, InitializedOk DEF onsessioninitialized, CacheOk
<1>5. ASSUME NEW r \in Slots, RootRefused(r) PROVE IInv'
  BY <1>5, NothingAnswered, Unchanged DEF RootRefused
<1>6. ASSUME NEW r \in Slots, listVaultsTool(r) PROVE IInv'
  BY <1>6, ListVaultsOk, Unchanged DEF listVaultsTool
<1>7. ASSUME NEW r \in Slots, Fails(r) PROVE IInv'
  BY <1>7, NothingAnswered, Unchanged DEF Fails, At
<1>8. ASSUME NEW r \in Slots, onsessionclosed(r) PROVE IInv'
  BY <1>8, OnSessionClosedOk
<1>9. ASSUME NEW r \in Slots, Return(r) PROVE IInv'
  BY <1>9, IdleFacts, SlotStep, Unchanged DEF Return
<1>10. ASSUME NEW r \in Callers, Calls(r) PROVE IInv'
  <2>1. r \in Slots
    BY McpAssumption
  <2> QED
    BY <1>10, <2>1, CallsOk, CallsKeep, Unchanged
<1>11. ASSUME NEW s \in Sids, onclose(s) PROVE IInv'
  BY <1>11, ClosedOk DEF onclose, SlotsOk, CacheOk
<1>12. ASSUME NEW s \in Sids, ServerCloses(s) PROVE IInv'
  BY <1>12 DEF ServerCloses, SlotsOk, SessionsOk, CacheOk, ServersOk, OpenServersAreSessions
<1>13. CASE UNCHANGED vars
  BY <1>13, Unchanged DEF vars, SlotsOk
<1> QED
  BY <1>1, <1>2, <1>3, <1>4, <1>5, <1>6, <1>7, <1>8, <1>9, <1>10, <1>11, <1>12, <1>13
     DEF Next, Binds

\* Whatever sessions, surfaces and requests there have been.
THEOREM Invariance == Spec => []IInv
  BY InitOk, StepOk, PTL DEF Spec

\* A server that was opened for a session is closed with it, and no other
\* (createPair, onsessionclosed and onclose in mcp/index.ts).
THEOREM ServersFollowSessions == Spec => []OpenServersAreSessions
<1>1. IInv => OpenServersAreSessions
  BY DEF IInv, ServersOk
<1> QED
  BY <1>1, Invariance, PTL

\* The URLs mean to their readers what parseScope reads in them.
ReadAsMeant == \A url \in Urls : resolveScope(url) = url.means

LEMMA InScope ==
    ASSUME ReadAsMeant, IInv
    PROVE  CallsStayInScope
<1> SUFFICES ASSUME NEW r \in Slots
    PROVE  LET meant == slot[r].url.means
               answer == slot[r].answer
               Says(field) == At(r, "done") /\ field \in DOMAIN answer
           IN  /\ meant = NoScope => slot[r].stage \in {"idle", "done"} /\ answer = NoAnswer
               /\ meant \notin {Unscoped, NoScope} =>
                      /\ Says("vault") => answer.vault = meant.slug
                      /\ Says("vaults") => answer.vaults = {meant.slug}
                      /\ Says("file") => \A p \in answer.indexed \cup {answer.file} :
                                             Inside(meant, p)
                      /\ Says("paths") => \A p \in answer.paths :
                             LET path == Folder(meant) \o p
                             IN  IF Answered(r, "folders")
                                 THEN InFolder(meant.slug, path \o <<"/">>) # {}
                                 ELSE path \in Notes(meant.slug)
  BY DEF CallsStayInScope
<1> DEFINE x == slot[r]
           meant == x.url.means
           answer == x.answer
<1>1. SlotOk(x)
  BY DEF IInv, SlotsOk
<1>2. CASE x = Idle
  BY <1>2, IdleFacts, NoScopeFacts DEF At
<1>3. CASE x # Idle
  <2>1. x.url \in Urls /\ meant = resolveScope(x.url)
    BY <1>1, <1>3 DEF SlotOk, Serves, ReadAsMeant
  <2>2. meant = NoScope => x.stage = "done" /\ answer = NoAnswer
    BY <1>1, <1>3, <2>1, NoScopeFacts DEF SlotOk, Serves
  <2>3. ASSUME meant \notin {Unscoped, NoScope}, x.stage = "done", answer # NoAnswer
        PROVE  Served(meant) /\ meant # Unscoped /\ StaysIn(meant, answer)
    BY <1>1, <1>3, <2>1, <2>3, IdleFacts DEF SlotOk, Serves, Good
  <2>4. ASSUME NEW field \in {"vault", "vaults", "file", "paths"}, field \in DOMAIN answer
        PROVE  answer # NoAnswer
    BY <2>4, NoAnswerFacts
  <2>5. ASSUME Served(meant), meant # Unscoped, NEW vault, VaultFound(meant, vault)
        PROVE  vault = meant.slug
    BY <2>5, NoScopeFacts DEF VaultFound
  <2>6. ASSUME Served(meant), meant # Unscoped
        PROVE  VaultsListed(meant) = {meant.slug}
    BY <2>6, NoScopeFacts DEF VaultsListed, VaultFound
  <2>7. ASSUME meant \notin {Unscoped, NoScope}, x.stage = "done"
        PROVE  /\ "vault" \in DOMAIN answer => answer.vault = meant.slug
               /\ "vaults" \in DOMAIN answer => answer.vaults = {meant.slug}
               /\ "file" \in DOMAIN answer => \A p \in answer.indexed \cup {answer.file} :
                                                  Inside(meant, p)
               /\ "paths" \in DOMAIN answer => \A p \in answer.paths :
                      IF answer.did = "folders"
                      THEN InFolder(meant.slug, (Folder(meant) \o p) \o Slash) # {}
                      ELSE Folder(meant) \o p \in Notes(meant.slug)
    <3> HIDE DEF meant, answer
    <3>1. "vault" \in DOMAIN answer => answer.vault = meant.slug
      BY <2>3, <2>4, <2>5, <2>7 DEF StaysIn
    <3>2. "vaults" \in DOMAIN answer => answer.vaults = {meant.slug}
      BY <2>3, <2>4, <2>6, <2>7 DEF StaysIn
    <3>3. "file" \in DOMAIN answer => \A p \in answer.indexed \cup {answer.file} :
                                          Inside(meant, p)
      BY <2>3, <2>4, <2>7 DEF StaysIn
    <3>4. ASSUME "paths" \in DOMAIN answer, NEW p \in answer.paths
          PROVE  IF answer.did = "folders"
                 THEN InFolder(meant.slug, (Folder(meant) \o p) \o Slash) # {}
                 ELSE Folder(meant) \o p \in Notes(meant.slug)
      <4>1. StaysIn(meant, answer) /\ Served(meant) /\ meant # Unscoped
        BY <2>3, <2>4, <2>7, <3>4
      <4>2. answer.vault = meant.slug
        BY <2>5, <3>4, <4>1 DEF StaysIn
      <4>3. IF answer.did = "folders"
            THEN InFolder(answer.vault, (Folder(meant) \o p) \o Slash) # {}
            ELSE Folder(meant) \o p \in Notes(answer.vault)
        BY <3>4, <4>1 DEF StaysIn
      <4> QED
        BY <4>2, <4>3
    <3> QED
      BY <3>1, <3>2, <3>3, <3>4
  <2> QED
    BY <2>2, <2>7 DEF At, Answered, Slash
<1> QED
  BY <1>2, <1>3

\* Sessions, aliases of a URL, evicted surfaces and requests that outlive their
\* session never take a call out of the folder that its own URL is read as
\* (pairFor and scopedSurface in mcp/index.ts, scopeDeps in mcp/scope.ts).
THEOREM ScopeHolds ==
    ASSUME ReadAsMeant
    PROVE  Spec => []CallsStayInScope
<1>1. IInv => CallsStayInScope
  BY InScope
<1> QED
  BY <1>1, Invariance, PTL

----------------------------------------------------------------------------
(* Search: rankings.                                                       *)

Hits == [chunk : DOMAIN Chunks, path : Seq(STRING), score : Nat]
HitsOf(rows) == {h \in Hits : h.chunk \in rows /\ h.path = PathOf(h.chunk)}

AllDiffer(H) == \A g, h \in H : g.chunk = h.chunk => g = h
Better(g, h) == g.score > h.score \/ (g.score = h.score /\ g.chunk < h.chunk)
Above(H, h) == {g \in H : Better(g, h)}
Rank(H, h) == Cardinality(Above(H, h))

Sorted(s) == \A i, j \in 1 .. Len(s) : i < j => s[i].score >= s[j].score
IsRanking(s, H) ==
    /\ s \in Seq(H) /\ Len(s) = Cardinality(H)
    /\ Distinct(s) /\ Sorted(s)

LEMMA HitFacts ==
    ASSUME NEW h \in Hits
    PROVE  h.chunk \in Nat /\ h.score \in Nat /\ h.path \in Seq(STRING) /\ h.chunk \in DOMAIN Chunks
<1>1. DOMAIN Chunks = 1 .. Len(Chunks) /\ Len(Chunks) \in Nat
  BY SearchAssumption, LenProperties
<1> QED
  BY <1>1 DEF Hits

LEMMA RankFacts ==
    ASSUME NEW H \in SUBSET Hits, IsFiniteSet(H), AllDiffer(H)
    PROVE  /\ Cardinality(H) \in Nat
           /\ \A h \in H : Rank(H, h) \in 0 .. Cardinality(H) - 1
           /\ \A g, h \in H : Better(g, h) => Rank(H, g) < Rank(H, h)
           /\ \A g, h \in H : g # h => Better(g, h) \/ Better(h, g)
<1>1. Cardinality(H) \in Nat
  BY FS_CardinalityType
<1>2. \A h \in H : h.chunk \in Nat /\ h.score \in Nat
  BY HitFacts
<1>3. ASSUME NEW h \in H
      PROVE  IsFiniteSet(Above(H, h)) /\ Rank(H, h) \in Nat /\ h \notin Above(H, h)
  <2>1. Above(H, h) \subseteq H
    BY DEF Above
  <2>2. ~Better(h, h)
    BY <1>2 DEF Better
  <2> QED
    BY <2>1, <2>2, FS_Subset, FS_CardinalityType DEF Above, Rank
<1>4. ASSUME NEW h \in H PROVE Rank(H, h) \in 0 .. Cardinality(H) - 1
  <2>1. Above(H, h) \subseteq H \ {h}
    BY <1>3 DEF Above
  <2>2. IsFiniteSet(H \ {h}) /\ Cardinality(H \ {h}) = Cardinality(H) - 1
    BY FS_RemoveElement
  <2>3. Rank(H, h) <= Cardinality(H \ {h})
    BY <2>1, <2>2, FS_Subset DEF Rank
  <2> QED
    BY <1>1, <1>3, <2>2, <2>3
<1>5. ASSUME NEW g \in H, NEW h \in H, Better(g, h) PROVE Rank(H, g) < Rank(H, h)
  <2>1. g \in Above(H, h)
    BY <1>5 DEF Above
  <2>2. \A k \in H : Better(k, g) => Better(k, h)
    BY <1>2, <1>5 DEF Better
  <2>3. Above(H, g) \subseteq Above(H, h) \ {g}
    BY <1>3, <2>2 DEF Above
  <2>4. /\ IsFiniteSet(Above(H, h) \ {g})
        /\ Cardinality(Above(H, h) \ {g}) = Cardinality(Above(H, h)) - 1
    BY <1>3, <2>1, FS_RemoveElement
  <2>5. Cardinality(Above(H, g)) <= Cardinality(Above(H, h) \ {g})
    BY <2>3, <2>4, FS_Subset
  <2>6. Rank(H, g) <= Rank(H, h) - 1
    BY <2>4, <2>5 DEF Rank
  <2> QED
    BY <1>3, <2>6
<1>6. ASSUME NEW g \in H, NEW h \in H, g # h PROVE Better(g, h) \/ Better(h, g)
  <2>1. g.chunk # h.chunk
    BY <1>6 DEF AllDiffer
  <2> QED
    BY <1>2, <2>1 DEF Better
<1> QED
  BY <1>1, <1>4, <1>5, <1>6

LEMMA RankTaken ==
    ASSUME NEW H \in SUBSET Hits, IsFiniteSet(H), AllDiffer(H), NEW k \in 0 .. Cardinality(H) - 1
    PROVE  \E h \in H : Rank(H, h) = k
<1> DEFINE n == Cardinality(H)
           f == [h \in H |-> Rank(H, h)]
           T == 0 .. n - 1
<1>1. n \in Nat /\ \A h \in H : Rank(H, h) \in T
  BY RankFacts
<1>2. \A g, h \in H : Rank(H, g) = Rank(H, h) => g = h
  <2>1. ASSUME NEW g \in H, NEW h \in H, Better(g, h) PROVE Rank(H, g) # Rank(H, h)
    <3>1. Rank(H, g) < Rank(H, h) /\ Rank(H, g) \in Nat /\ Rank(H, h) \in Nat
      BY <1>1, <2>1, RankFacts
    <3> QED
      BY <3>1
  <2> QED
    BY <2>1, RankFacts
<1> HIDE DEF n, T
<1>3. f \in Injection(H, T)
  BY <1>1, <1>2 DEF Injection, IsInjective
<1>4. IsFiniteSet(T) /\ Cardinality(T) = n
  BY <1>1, FS_Interval DEF T
<1>5. f \in Surjection(H, T)
  BY <1>3, <1>4, FS_Injection DEF n
<1>6. \A t \in T : \E h \in H : f[h] = t
  BY <1>5 DEF Surjection
<1> QED
  BY <1>6 DEF T, n

LEMMA RankedFacts ==
    ASSUME NEW H \in SUBSET Hits, IsFiniteSet(H), AllDiffer(H)
    PROVE  IsRanking(Ranked(H), H)
<1> DEFINE n == Cardinality(H)
           s == Ranked(H)
<1>1. n \in Nat
  BY FS_CardinalityType
<1>2. s = [i \in 1 .. n |-> CHOOSE h \in H : Rank(H, h) = i - 1]
  BY DEF Ranked, Rank, Above, Better
<1> HIDE DEF s
<1>3. ASSUME NEW i \in 1 .. n PROVE s[i] \in H /\ Rank(H, s[i]) = i - 1
  <2>1. i - 1 \in 0 .. Cardinality(H) - 1
    BY <1>1
  <2>2. \E h \in H : Rank(H, h) = i - 1
    BY <2>1, RankTaken
  <2>3. s[i] = CHOOSE h \in H : Rank(H, h) = i - 1
    BY <1>2
  <2> QED
    BY <2>2, <2>3
<1>4. s \in [1 .. n -> H]
  BY <1>2, <1>3
<1>5. s \in Seq(H) /\ Len(s) = n
  BY <1>1, <1>4, FunctionSeq
<1>6. Distinct(s)
  BY <1>1, <1>3, <1>5 DEF Distinct
<1>7. ASSUME NEW i \in 1 .. n, NEW j \in 1 .. n, i < j PROVE s[i].score >= s[j].score
  <2>1. s[i] # s[j] /\ ~Better(s[j], s[i])
    <3>1. Rank(H, s[i]) < Rank(H, s[j]) /\ Rank(H, s[i]) \in Int /\ Rank(H, s[j]) \in Int
      BY <1>1, <1>3, <1>7
    <3> QED
      BY <1>3, <3>1, RankFacts
  <2>2. Better(s[i], s[j])
    BY <1>3, <2>1, RankFacts
  <2> QED
    BY <1>3, <2>2, HitFacts DEF Better
<1> QED
  BY <1>5, <1>6, <1>7 DEF IsRanking, Sorted, s, n

LEMMA HitsOfFacts ==
    ASSUME NEW rows, NEW h \in HitsOf(rows)
    PROVE  /\ h \in Hits /\ h.chunk \in rows /\ h.path = PathOf(h.chunk)
           /\ h.chunk \in DOMAIN Chunks /\ h.score \in Nat
  BY HitFacts DEF HitsOf

LEMMA HitType ==
    ASSUME NEW c \in DOMAIN Chunks, NEW score \in Nat
    PROVE  /\ Hit(c, score) \in Hits /\ Hit(c, score).chunk = c
           /\ Hit(c, score).score = score /\ Hit(c, score).path = PathOf(c)
<1>1. PathOf(c) \in Seq(STRING)
  BY RowType DEF PathOf
<1> QED
  BY <1>1 DEF Hit, Hits

ChunksDiffer(s) == \A i, j \in 1 .. Len(s) : s[i].chunk = s[j].chunk => i = j
IsListing(s, rows) == s \in Seq(HitsOf(rows)) /\ Sorted(s) /\ ChunksDiffer(s)

LEMMA RankedListing ==
    ASSUME NEW rows, NEW H \in SUBSET HitsOf(rows), IsFiniteSet(H), AllDiffer(H)
    PROVE  IsListing(Ranked(H), rows)
<1> DEFINE s == Ranked(H)
<1>1. IsRanking(s, H)
  <2>1. H \in SUBSET Hits
    BY DEF HitsOf
  <2> QED
    BY <2>1, RankedFacts
<1> HIDE DEF s
<1>2. s \in Seq(H) /\ Distinct(s) /\ Sorted(s) /\ \A i \in 1 .. Len(s) : s[i] \in H
  BY <1>1, ElementOfSeq DEF IsRanking
<1>3. s \in Seq(HitsOf(rows))
  BY <1>2, SeqMonotonic
<1>4. ChunksDiffer(s)
  BY <1>2 DEF ChunksDiffer, Distinct, AllDiffer
<1> QED
  BY <1>2, <1>3, <1>4 DEF IsListing, s

IsCut(r, s, n) ==
    /\ Len(r) = IF n < Len(s) THEN n ELSE Len(s)
    /\ \A i \in 1 .. Len(r) : i \in 1 .. Len(s) /\ r[i] = s[i]

LEMMA CutFacts ==
    ASSUME NEW S, NEW s \in Seq(S), NEW n \in Nat
    PROVE  Cut(s, n) \in Seq(S) /\ IsCut(Cut(s, n), s, n)
<1> DEFINE m == IF n < Len(s) THEN n ELSE Len(s)
           r == SubSeq(s, 1, m)
<1>1. Len(s) \in Nat /\ m \in 0 .. Len(s)
  BY LenProperties
<1>2. r = Cut(s, n)
  BY DEF Cut
<1>3. m = IF n < Len(s) THEN n ELSE Len(s)
  OBVIOUS
<1> HIDE DEF m
<1>4. 1 \in Int /\ m \in Int /\ \A i \in 1 .. m : s[i] \in S
  BY <1>1, ElementOfSeq
<1>5. /\ r \in Seq(S) /\ Len(r) = IF 1 <= m THEN m - 1 + 1 ELSE 0
      /\ \A i \in 1 .. m - 1 + 1 : r[i] = s[1 + i - 1]
  BY <1>4, SubSeqProperties
<1> HIDE DEF r
<1>6. Len(r) = m /\ \A i \in 1 .. m : r[i] = s[i] /\ i \in 1 .. Len(s)
  BY <1>1, <1>5
<1> QED
  BY <1>2, <1>3, <1>5, <1>6 DEF IsCut

LEMMA CutListing ==
    ASSUME NEW rows, NEW s, IsListing(s, rows), NEW n \in Nat
    PROVE  IsListing(Cut(s, n), rows)
<1> DEFINE r == Cut(s, n)
<1>1. r \in Seq(HitsOf(rows)) /\ IsCut(r, s, n)
  BY CutFacts DEF IsListing
<1> HIDE DEF r
<1>2. \A i \in 1 .. Len(r) : i \in 1 .. Len(s) /\ r[i] = s[i]
  BY <1>1 DEF IsCut
<1>3. Sorted(r) /\ ChunksDiffer(r)
  BY <1>2 DEF IsListing, Sorted, ChunksDiffer
<1> QED
  BY <1>1, <1>3 DEF r, IsListing

\* A hit for each of some chunks: how every ranked set is made.
LEMMA HitsMade ==
    ASSUME NEW rows \in SUBSET DOMAIN Chunks, NEW D \in SUBSET rows,
           NEW f \in [D -> HitsOf(rows)], \A c \in D : f[c].chunk = c,
           NEW H, H = {f[c] : c \in D}
    PROVE  H \in SUBSET HitsOf(rows) /\ IsFiniteSet(H) /\ AllDiffer(H)
<1>1. IsFiniteSet(D)
  <2>1. DOMAIN Chunks = 1 .. Len(Chunks) /\ Len(Chunks) \in Nat
    BY SearchAssumption, LenProperties
  <2>2. IsFiniteSet(DOMAIN Chunks)
    BY <2>1, FS_Interval
  <2> QED
    BY <2>2, FS_Subset
<1>2. f \in Surjection(D, H)
  BY DEF Surjection
<1>3. IsFiniteSet(H)
  BY <1>1, <1>2, FS_Surjection
<1>4. AllDiffer(H)
  BY DEF AllDiffer
<1> QED
  BY <1>3, <1>4

LEMMA candidatesType ==
    ASSUME NEW limit \in Nat
    PROVE  candidates(limit) \in Nat
  BY SearchAssumption DEF candidates

LEMMA ArmListing ==
    ASSUME NEW rows \in SUBSET DOMAIN Chunks, NEW signal \in [DOMAIN Chunks -> Nat],
           NEW limit \in Nat
    PROVE  IsListing(Arm(rows, signal, limit), rows)
<1> DEFINE D == {d \in rows : signal[d] > 0}
           points(c) == signal[c]
           f == [c \in D |-> Hit(c, points(c))]
           H == {Hit(c, points(c)) : c \in D}
<1>1. D \in SUBSET rows
  OBVIOUS
<1>2. Arm(rows, signal, limit) = Cut(Ranked(H), candidates(limit))
  BY DEF Arm
<1> HIDE DEF D
<1>3. \A c \in D : points(c) \in Nat
  BY <1>1
<1> HIDE DEF points
<1>4. \A c \in D : Hit(c, points(c)) \in HitsOf(rows) /\ Hit(c, points(c)).chunk = c
  BY <1>1, <1>3, HitType DEF HitsOf
<1>5. f \in [D -> HitsOf(rows)] /\ (\A c \in D : f[c].chunk = c) /\ H = {f[c] : c \in D}
  BY <1>4
<1> HIDE DEF f, H
<1>6. H \in SUBSET HitsOf(rows) /\ IsFiniteSet(H) /\ AllDiffer(H)
  BY <1>1, <1>5, HitsMade
<1>7. IsListing(Ranked(H), rows)
  BY <1>6, RankedListing
<1>8. IsListing(Cut(Ranked(H), candidates(limit)), rows)
  BY <1>7, candidatesType, CutListing
<1> QED
  BY <1>2, <1>8

LEMMA Quotient ==
    ASSUME NEW a \in Nat, NEW b \in Nat \ {0}
    PROVE  a \div b \in Nat
  OBVIOUS

LEMMA Product ==
    ASSUME NEW a \in Nat, NEW b \in Nat
    PROVE  a * b \in Nat
  OBVIOUS

LEMMA PointsType ==
    ASSUME NEW rows, NEW arm, IsListing(arm, rows), NEW c
    PROVE  Points(arm, c, 2) \in Nat
<1>1. Scale \in Nat \ {0} /\ RrfK \in Nat \ {0}
  BY SearchAssumption
<1>2. DOMAIN arm = 1 .. Len(arm) /\ Len(arm) \in Nat
  BY LenProperties DEF IsListing
<1>3. CASE \E i \in DOMAIN arm : arm[i].chunk = c
  <2> DEFINE rank == CHOOSE i \in DOMAIN arm : arm[i].chunk = c
  <2>1. rank \in DOMAIN arm
    BY <1>3
  <2>2. Points(arm, c, 2) = (Scale * (RrfK + 1)) \div (2 * (RrfK + rank))
    BY <1>3 DEF Points
  <2> HIDE DEF rank
  <2>3. rank \in Nat
    BY <1>2, <2>1
  <2>4. Scale * (RrfK + 1) \in Nat
    BY <1>1, Product
  <2>5. 2 * (RrfK + rank) \in Nat \ {0}
    BY <1>1, <2>3
  <2> QED
    BY <2>2, <2>4, <2>5, Quotient
<1>4. CASE ~\E i \in DOMAIN arm : arm[i].chunk = c
  BY <1>4 DEF Points
<1> QED
  BY <1>3, <1>4

LEMMA FusedListing ==
    ASSUME NEW rows \in SUBSET DOMAIN Chunks, NEW vector, IsListing(vector, rows),
           NEW fts, IsListing(fts, rows)
    PROVE  IsListing(Ranked({h \in Fused(vector, fts) : h.score > 0}), rows)
<1> DEFINE D == {h.chunk : h \in Range(vector) \cup Range(fts)}
           points(c) == Points(vector, c, 2) + Points(fts, c, 2)
           f == [c \in D |-> Hit(c, points(c))]
           H == {Hit(c, points(c)) : c \in D}
           G == {h \in H : h.score > 0}
<1>1. Range(vector) \subseteq HitsOf(rows) /\ Range(fts) \subseteq HitsOf(rows)
  BY RangeOfSeq DEF IsListing
<1>2. D \in SUBSET rows
  BY <1>1, HitsOfFacts
<1>3. H = Fused(vector, fts)
  BY DEF Fused
<1> HIDE DEF D
<1>4. \A c \in D : points(c) \in Nat
  BY PointsType
<1> HIDE DEF points
<1>5. \A c \in D : Hit(c, points(c)) \in HitsOf(rows) /\ Hit(c, points(c)).chunk = c
  BY <1>2, <1>4, HitType DEF HitsOf
<1>6. f \in [D -> HitsOf(rows)] /\ (\A c \in D : f[c].chunk = c) /\ H = {f[c] : c \in D}
  BY <1>5
<1> HIDE DEF f, H
<1>7. H \in SUBSET HitsOf(rows) /\ IsFiniteSet(H) /\ AllDiffer(H)
  BY <1>2, <1>6, HitsMade
<1>8. G \in SUBSET HitsOf(rows) /\ IsFiniteSet(G) /\ AllDiffer(G)
  BY <1>7, FS_Subset DEF AllDiffer
<1>9. IsListing(Ranked(G), rows)
  BY <1>8, RankedListing
<1> QED
  BY <1>3, <1>9

Queries == [vector : [DOMAIN Chunks -> Nat], fts : [DOMAIN Chunks -> Nat]]
Options == [limit : Nat \ {0}, lambda : 0 .. 100, maxPerPath : Nat \ {0}, threshold : Nat,
            prefix : Seq(STRING), mode : {"vector", "fts", "hybrid"}]

\* What is asked of a scope has a prefix that is only known to be a text.
ScopedOptions ==
    [limit : Nat \ {0}, lambda : 0 .. 100, maxPerPath : Nat \ {0}, threshold : Nat,
     prefix : Text, mode : {"vector", "fts", "hybrid"}]

LEMMA HybridListing ==
    ASSUME NEW table \in SUBSET DOMAIN Chunks, NEW query \in Queries, NEW opts \in ScopedOptions
    PROVE  IsListing(searchHybrid(table, query, opts), buildFilterClause(table, opts.prefix))
<1> DEFINE rows == buildFilterClause(table, opts.prefix)
           vector == Arm(rows, query.vector, opts.limit)
           fts == Arm(rows, query.fts, opts.limit)
<1>1. rows \in SUBSET DOMAIN Chunks
  BY DEF buildFilterClause
<1>2. /\ query.vector \in [DOMAIN Chunks -> Nat] /\ query.fts \in [DOMAIN Chunks -> Nat]
      /\ opts.limit \in Nat /\ opts.mode \in {"vector", "fts", "hybrid"}
  BY DEF Queries, ScopedOptions
<1> HIDE DEF rows
<1>3. IsListing(vector, rows) /\ IsListing(fts, rows)
  BY <1>1, <1>2, ArmListing
<1> HIDE DEF vector, fts
<1>4. IsListing(Ranked({h \in Fused(vector, fts) : h.score > 0}), rows)
  BY <1>1, <1>3, FusedListing
<1>5. CASE opts.mode = "vector"
  <2>1. searchHybrid(table, query, opts) = vector
    BY <1>5 DEF searchHybrid, vector, rows
  <2> QED
    BY <1>3, <2>1 DEF rows
<1>6. CASE opts.mode = "fts"
  <2>1. searchHybrid(table, query, opts) = fts
    BY <1>6 DEF searchHybrid, fts, rows
  <2> QED
    BY <1>3, <2>1 DEF rows
<1>7. CASE opts.mode = "hybrid"
  <2>1. searchHybrid(table, query, opts) = Ranked({h \in Fused(vector, fts) : h.score > 0})
    BY <1>7 DEF searchHybrid, vector, fts, rows
  <2> QED
    BY <1>4, <2>1 DEF rows
<1> QED
  BY <1>2, <1>5, <1>6, <1>7

----------------------------------------------------------------------------
(* The spread over the paths.                                              *)

SamePath(pool, picked, i) == {j \in Range(picked) : pool[j].path = pool[i].path}
Open(pool, picked, most) ==
    {i \in 1 .. Len(pool) \ Range(picked) : Taken(pool, picked, i) < most}

\* Of a path the best positions have been picked, no more than its share.
GoodPick(pool, picked, most) ==
    /\ picked \in Seq(1 .. Len(pool)) /\ Distinct(picked)
    /\ \A i \in 1 .. Len(pool) : Taken(pool, picked, i) <= most
    /\ \A i \in 1 .. Len(pool), j \in Range(picked) :
           i \notin Range(picked) /\ pool[j].path = pool[i].path => pool[j].score >= pool[i].score

\* A pool of positions, with a score and a path each.
IsPool(pool) ==
    /\ Len(pool) \in Nat /\ DOMAIN pool = 1 .. Len(pool)
    /\ \A i \in 1 .. Len(pool) : pool[i].score \in Nat
    /\ Sorted(pool)

LEMMA TakenFacts ==
    ASSUME NEW pool, IsPool(pool), NEW picked \in Seq(1 .. Len(pool)), NEW i
    PROVE  /\ Taken(pool, picked, i) \in Nat /\ IsFiniteSet(SamePath(pool, picked, i))
           /\ Taken(pool, picked, i) = Cardinality(SamePath(pool, picked, i))
<1>1. Range(picked) \in SUBSET (1 .. Len(pool))
  BY RangeOfSeq
<1>2. IsFiniteSet(1 .. Len(pool))
  BY FS_Interval DEF IsPool
<1>3. SamePath(pool, picked, i) \in SUBSET (1 .. Len(pool))
  BY <1>1 DEF SamePath
<1>4. IsFiniteSet(SamePath(pool, picked, i))
  BY <1>2, <1>3, FS_Subset
<1> QED
  BY <1>4, FS_CardinalityType DEF Taken, SamePath

LEMMA Heavier ==
    ASSUME NEW l \in Nat, NEW a \in Nat, NEW b \in Nat, NEW p \in Int,
           l * a - p > l * b - p \/ (l * a - p = l * b - p /\ (l = 0 => a >= b))
    PROVE  a >= b
<1>1. l * a \in Int /\ l * b \in Int
  OBVIOUS
<1>2. l * a >= l * b
  BY <1>1
<1>3. CASE l = 0
  BY <1>3
<1>4. CASE l # 0 /\ a < b
  <2>1. b = a + (b - a) /\ b - a \in Nat \ {0}
    BY <1>4
  <2>2. l * b = l * a + l * (b - a)
    BY <2>1
  <2>3. l * (b - a) > 0
    BY <1>4, <2>1
  <2> QED
    BY <1>1, <1>2, <2>2, <2>3
<1> QED
  BY <1>3, <1>4

\* What a turn picks: the best that is still to be had, and so the best of its path.
Takes(pool, picked, most, best) ==
    /\ best \in Open(pool, picked, most)
    /\ \A j \in Open(pool, picked, most) :
           pool[j].path = pool[best].path => pool[best].score >= pool[j].score

LEMMA BestIsTaken ==
    ASSUME NEW pool, IsPool(pool), NEW lambda \in 0 .. 100, NEW most \in Nat,
           NEW picked \in Seq(1 .. Len(pool)), Open(pool, picked, most) # {}
    PROVE  \E best : /\ Takes(pool, picked, most, best)
                     /\ Pick(pool, picked, lambda, most) = Append(picked, best)
<1> DEFINE open == Open(pool, picked, most)
           penalty(i) == IF Taken(pool, picked, i) > 0 THEN (100 - lambda) * Scale ELSE 0
           worth(i) == mmrScore(pool, picked, i, lambda)
           Best(i) == \A j \in open : worth(i) > worth(j) \/ (worth(i) = worth(j) /\ i <= j)
           best == CHOOSE i \in open : Best(i)
           f == [i \in open |-> worth(i)]
<1>0. lambda \in Nat
  OBVIOUS
<1>1. Len(pool) \in Nat /\ DOMAIN pool = 1 .. Len(pool) /\ open \subseteq 1 .. Len(pool)
      /\ \A i \in open : pool[i].score \in Nat
  BY DEF IsPool, Open
<1>2. \A i \in open : worth(i) = lambda * pool[i].score - penalty(i)
  BY DEF mmrScore
<1>3. \A i : penalty(i) \in Nat
  <2>1. 100 - lambda \in Nat /\ Scale \in Nat
    BY SearchAssumption
  <2>2. (100 - lambda) * Scale \in Nat
    BY <2>1, Product
  <2> QED
    BY <2>2
<1>4. \A i, j \in open : pool[i].path = pool[j].path => penalty(i) = penalty(j)
  <2>1. \A i, j \in open : pool[i].path = pool[j].path
                           => Taken(pool, picked, i) = Taken(pool, picked, j)
    BY DEF Taken
  <2> QED
    BY <2>1
<1>5. Pick(pool, picked, lambda, most) = Append(picked, best)
  BY <1>1 DEF Pick, Open
<1> HIDE DEF penalty, worth
<1>6. \A i \in open : worth(i) \in Int
  <2>1. ASSUME NEW i \in open PROVE worth(i) \in Int
    <3>1. lambda * pool[i].score \in Nat
      BY <1>0, <1>1, Product, Zenon
    <3>2. penalty(i) \in Nat
      BY <1>3
    <3> QED
      BY <1>2, <3>1, <3>2
  <2> QED
    BY <2>1
<1>7. IsFiniteSet(open)
  <2>0. 1 \in Int /\ Len(pool) \in Int
    BY <1>1
  <2>1. IsFiniteSet(1 .. Len(pool))
    BY <2>0, FS_Interval, Zenon
  <2> QED
    BY <1>1, <2>1, FS_Subset, Zenon
<1> HIDE DEF open
<1>8. PICK x \in open : \A y \in open : f[x] >= f[y]
  <2>1. \A y \in open : f[y] \in Int
    BY <1>6
  <2>2. open # {}
    BY DEF open
  <2> HIDE DEF f
  <2> QED
    BY <1>7, <2>1, <2>2, Greatest
<1> DEFINE T == {y \in open : worth(y) = worth(x)}
<1>9. PICK z \in T : \A y \in T : z <= y
  <2>1. open \subseteq Nat
    BY <1>1
  <2>2. T \subseteq Nat /\ T # {}
    BY <1>8, <2>1
  <2> HIDE DEF T
  <2> QED
    BY <2>2, LeastNat
<1>10. z \in open /\ Best(z)
  <2>1. ASSUME NEW j \in open PROVE worth(z) > worth(j) \/ (worth(z) = worth(j) /\ z <= j)
    <3>1. worth(x) >= worth(j) /\ worth(z) = worth(x)
      BY <1>8, <1>9
    <3>2. CASE worth(j) = worth(x)
      BY <1>9, <3>1, <3>2
    <3>3. CASE worth(j) # worth(x)
      BY <1>6, <1>8, <3>1, <3>3
    <3> QED
      BY <3>2, <3>3
  <2> QED
    BY <1>9, <2>1
<1>11. best \in open /\ Best(best)
  BY <1>10
<1> HIDE DEF best
<1>12. ASSUME NEW j \in open, pool[j].path = pool[best].path
       PROVE  pool[best].score >= pool[j].score
  <2>1. penalty(best) = penalty(j) /\ penalty(j) \in Int
    BY <1>3, <1>4, <1>11, <1>12
  <2>2. \/ lambda * pool[best].score - penalty(j) > lambda * pool[j].score - penalty(j)
        \/ /\ lambda * pool[best].score - penalty(j) = lambda * pool[j].score - penalty(j)
           /\ best <= j
    BY <1>2, <1>11, <2>1
  <2>3. best <= j => pool[best].score >= pool[j].score
    <3>1. best \in 1 .. Len(pool) /\ j \in 1 .. Len(pool)
      BY <1>1, <1>11
    <3>2. CASE best = j
      BY <1>1, <3>2
    <3>3. CASE best < j
      BY <3>1, <3>3 DEF IsPool, Sorted
    <3> QED
      BY <3>1, <3>2, <3>3
  <2>4. pool[best].score \in Nat /\ pool[j].score \in Nat
    BY <1>1, <1>11, Zenon
  <2> QED
    BY <1>0, <2>1, <2>2, <2>3, <2>4, Heavier
<1>13. Takes(pool, picked, most, best)
  BY <1>11, <1>12 DEF Takes, open
<1> QED
  BY <1>5, <1>13

\* What appending does to a sequence without repetitions.
Extends(t, s, x) ==
    /\ Len(t) = Len(s) + 1 /\ Range(t) = Range(s) \cup {x}
    /\ Distinct(s) /\ x \notin Range(s) => Distinct(t)

LEMMA AppendFacts ==
    ASSUME NEW S, NEW s \in Seq(S), NEW x \in S, NEW t, t = Append(s, x)
    PROVE  t \in Seq(S) /\ Extends(t, s, x)
<1>1. /\ t \in Seq(S) /\ Len(t) = Len(s) + 1
      /\ \A k \in 1 .. Len(s) : t[k] = s[k]
      /\ t[Len(s) + 1] = x
  BY AppendProperties
<1>2. /\ Range(s) = {s[k] : k \in 1 .. Len(s)}
      /\ Range(t) = {t[k] : k \in 1 .. Len(t)}
      /\ Len(s) \in Nat
  <2>1. \A u \in Seq(S) : Range(u) = {u[k] : k \in 1 .. Len(u)} /\ Len(u) \in Nat
    BY RangeEquality, LenProperties
  <2> QED
    BY <1>1, <2>1, Zenon
<1>3. /\ \A k \in 1 .. Len(t) : k \in 1 .. Len(s) \/ k = Len(s) + 1
      /\ \A k \in 1 .. Len(s) : k \in 1 .. Len(t)
      /\ Len(s) + 1 \in 1 .. Len(t)
  BY <1>1, <1>2
<1>4. Range(t) = Range(s) \cup {x}
  BY <1>1, <1>2, <1>3
<1>5. ASSUME Distinct(s), x \notin Range(s) PROVE Distinct(t)
  <2>1. \A k \in 1 .. Len(s) : t[k] = s[k] /\ t[k] # x
    BY <1>1, <1>2, <1>5
  <2>2. \A i, j \in 1 .. Len(s) : s[i] = s[j] => i = j
    BY <1>5 DEF Distinct
  <2>3. ASSUME NEW i \in 1 .. Len(t), NEW j \in 1 .. Len(t), t[i] = t[j] PROVE i = j
    <3>1. CASE i \in 1 .. Len(s) /\ j \in 1 .. Len(s)
      BY <2>1, <2>2, <2>3, <3>1
    <3>2. CASE i = Len(s) + 1 \/ j = Len(s) + 1
      BY <1>1, <1>3, <2>1, <2>3, <3>2
    <3> QED
      BY <1>3, <3>1, <3>2
  <2> QED
    BY <2>3 DEF Distinct
<1> QED
  BY <1>1, <1>4, <1>5 DEF Extends

LEMMA OneMore ==
    ASSUME NEW S, IsFiniteSet(S), NEW x, NEW T, T = S \cup {x}
    PROVE  Cardinality(T) <= Cardinality(S) + 1
<1>1. Cardinality(S) \in Nat /\ Cardinality(T) = IF x \in S THEN Cardinality(S) ELSE Cardinality(S) + 1
  BY FS_AddElement, FS_CardinalityType
<1> QED
  BY <1>1

LEMMA PickFacts ==
    ASSUME NEW pool, IsPool(pool), NEW lambda \in 0 .. 100, NEW most \in Nat,
           NEW picked, GoodPick(pool, picked, most)
    PROVE  LET next == Pick(pool, picked, lambda, most)
           IN  /\ GoodPick(pool, next, most)
               /\ IF Open(pool, picked, most) = {} THEN next = picked ELSE Len(next) = Len(picked) + 1
<1> DEFINE next == Pick(pool, picked, lambda, most)
<1>0. picked \in Seq(1 .. Len(pool)) /\ DOMAIN pool = 1 .. Len(pool)
  BY DEF GoodPick, IsPool
<1>1. CASE Open(pool, picked, most) = {}
  <2>1. next = picked
    BY <1>0, <1>1 DEF Pick, Open
  <2> QED
    BY <1>1, <2>1
<1>2. CASE Open(pool, picked, most) # {}
  <2>1. PICK best : Takes(pool, picked, most, best) /\ next = Append(picked, best)
    BY <1>0, <1>2, BestIsTaken
  <2> HIDE DEF next
  <2>2. /\ best \in 1 .. Len(pool) /\ best \notin Range(picked)
        /\ Taken(pool, picked, best) < most
        /\ \A j \in Open(pool, picked, most) :
               pool[j].path = pool[best].path => pool[best].score >= pool[j].score
    BY <2>1 DEF Takes, Open
  <2>3. next \in Seq(1 .. Len(pool)) /\ Extends(next, picked, best)
    BY <1>0, <2>1, <2>2, AppendFacts
  <2>4. /\ Len(next) = Len(picked) + 1 /\ Range(next) = Range(picked) \cup {best}
        /\ Distinct(next)
    BY <2>2, <2>3 DEF Extends, GoodPick
  <2>5. ASSUME NEW i \in 1 .. Len(pool) PROVE Taken(pool, next, i) <= most
    <3>1. /\ Taken(pool, picked, i) \in Nat /\ IsFiniteSet(SamePath(pool, picked, i))
          /\ Taken(pool, picked, i) = Cardinality(SamePath(pool, picked, i))
          /\ Taken(pool, next, i) = Cardinality(SamePath(pool, next, i))
          /\ Taken(pool, next, i) \in Nat
      BY <1>0, <2>3, TakenFacts
    <3>2. CASE pool[i].path = pool[best].path
      <4>1. SamePath(pool, next, i) = SamePath(pool, picked, i) \cup {best}
        BY <2>4, <3>2 DEF SamePath
      <4>2. Cardinality(SamePath(pool, next, i)) <= Cardinality(SamePath(pool, picked, i)) + 1
        BY <3>1, <4>1, OneMore
      <4>3. Taken(pool, picked, i) = Taken(pool, picked, best)
        BY <3>2 DEF Taken
      <4>4. Taken(pool, picked, i) < most /\ Taken(pool, next, i) <= Taken(pool, picked, i) + 1
        BY <2>2, <3>1, <4>2, <4>3
      <4> QED
        BY <3>1, <4>4
    <3>3. CASE pool[i].path # pool[best].path
      <4>1. SamePath(pool, next, i) = SamePath(pool, picked, i)
        BY <2>4, <3>3 DEF SamePath
      <4> QED
        BY <3>1, <4>1 DEF GoodPick
    <3> QED
      BY <3>2, <3>3
  <2>6. ASSUME NEW i \in 1 .. Len(pool), NEW j \in Range(next), i \notin Range(next),
               pool[j].path = pool[i].path
        PROVE  pool[j].score >= pool[i].score
    <3>1. i \notin Range(picked) /\ (j \in Range(picked) \/ j = best)
      BY <2>4, <2>6
    <3>2. CASE j \in Range(picked)
      BY <2>6, <3>1, <3>2 DEF GoodPick
    <3>3. CASE j = best
      <4>1. Taken(pool, picked, i) = Taken(pool, picked, best)
        BY <2>6, <3>3 DEF Taken
      <4>2. i \in Open(pool, picked, most)
        BY <2>2, <3>1, <4>1 DEF Open
      <4> QED
        BY <2>2, <2>6, <3>3, <4>2
    <3> QED
      BY <3>1, <3>2, <3>3
  <2>7. GoodPick(pool, next, most)
    BY <2>3, <2>4, <2>5, <2>6 DEF GoodPick
  <2> QED
    BY <1>2, <2>4, <2>7 DEF next
<1> QED
  BY <1>1, <1>2

Picked(pool, lambda, most) ==
    FoldLeft(LAMBDA sofar, hit : Pick(pool, sofar, lambda, most), <<>>, pool)

GoodPicks(pool, most) == {p \in Seq(1 .. Len(pool)) : GoodPick(pool, p, most)}
Picks(g, pool, lambda, most) ==
    /\ g \in [0 .. Len(pool) -> GoodPicks(pool, most)]
    /\ g[0] = <<>>
    /\ \A i \in 1 .. Len(pool) : g[i] = Pick(pool, g[i - 1], lambda, most)
    /\ Picked(pool, lambda, most) = g[Len(pool)]

LEMMA NothingPicked ==
    ASSUME NEW pool, IsPool(pool), NEW most \in Nat
    PROVE  <<>> \in GoodPicks(pool, most)
<1> DEFINE none == <<>>
<1>1. none \in Seq(1 .. Len(pool)) /\ Len(none) = 0
  BY EmptySeq
<1>2. Range(none) = {}
  <2>1. Range(none) = {none[i] : i \in 1 .. Len(none)}
    BY <1>1, RangeEquality
  <2> QED
    BY <1>1, <2>1
<1>3. Distinct(none)
  BY <1>1 DEF Distinct
<1> HIDE DEF none
<1>4. \A i : Taken(pool, none, i) = 0
  <2>1. \A i : SamePath(pool, none, i) = {}
    BY <1>2 DEF SamePath
  <2>2. \A i : Taken(pool, none, i) = Cardinality(SamePath(pool, none, i))
    BY DEF Taken, SamePath
  <2> QED
    BY <2>1, <2>2, FS_EmptySet
<1>5. GoodPick(pool, none, most)
  BY <1>1, <1>2, <1>3, <1>4 DEF GoodPick
<1> QED
  BY <1>1, <1>5 DEF none, GoodPicks

LEMMA PicksTurns ==
    ASSUME NEW pool, IsPool(pool), NEW lambda \in 0 .. 100, NEW most \in Nat
    PROVE  \E g : Picks(g, pool, lambda, most)
<1> DEFINE n == Len(pool)
           V == GoodPicks(pool, most)
           op(i, sofar) == Pick(pool, sofar, lambda, most)
           step == [p \in (1 .. n) \X V |-> op(p[1], p[2])]
           Eq(it) == it = [T \in SUBSET (1 .. n) |->
                               IF T = {} THEN <<>> ELSE op(Max(T), it[T \ {Max(T)}])]
           fold == CHOOSE it : Eq(it)
<1>1. n \in Nat /\ DOMAIN pool = 1 .. n
  BY DEF IsPool
<1>2. <<>> \in V
  BY NothingPicked
<1>3. \A i \in 1 .. n, sofar \in V : op(i, sofar) \in V /\ step[<<i, sofar>>] = op(i, sofar)
  <2>1. \A i \in 1 .. n, sofar \in V : op(i, sofar) \in V
    <3>1. ASSUME NEW sofar \in V PROVE Pick(pool, sofar, lambda, most) \in V
      <4>1. GoodPick(pool, sofar, most)
        BY DEF GoodPicks
      <4>2. GoodPick(pool, Pick(pool, sofar, lambda, most), most)
        BY <4>1, PickFacts
      <4> QED
        BY <4>2 DEF GoodPicks, GoodPick
    <3> QED
      BY <3>1
  <2> HIDE DEF op, n, V
  <2> QED
    BY <2>1
<1>4. step \in [(1 .. n) \X V -> V]
  BY <1>3
<1>5. Picked(pool, lambda, most) = fold[1 .. n]
  BY <1>1, Zenon DEF Picked, FoldLeft, MapThenFoldSet
<1> HIDE DEF step, op, V, n
<1>6. PICK it : IsFold(it, 1 .. n, V, <<>>, step, LastOf(n))
  BY <1>1, <1>2, <1>4, LeftFoldExists
<1>7. Eq(it)
  <2>1. ASSUME NEW T \in SUBSET (1 .. n)
        PROVE  it[T] = IF T = {} THEN <<>> ELSE op(Max(T), it[T \ {Max(T)}])
    <3>1. it[T] = IF T = {} THEN <<>> ELSE step[<<Max(T), it[T \ {Max(T)}]>>]
      BY <1>1, <1>6, LastFacts DEF IsFold
    <3>2. T # {} => Max(T) \in 1 .. n /\ it[T \ {Max(T)}] \in V
      BY <1>1, <1>6, LastFacts DEF IsFold
    <3> QED
      BY <1>3, <3>1, <3>2
  <2> QED
    BY <1>6, <2>1 DEF IsFold
<1>8. Eq(fold)
  BY <1>7
<1> HIDE DEF fold
<1>9. fold[{}] = <<>>
  BY <1>8
<1>10. IsLeftFold(fold, n, V, <<>>, step)
  <2>1. ASSUME NEW T \in SUBSET (1 .. n), T # {}, fold[T \ {Max(T)}] \in V
        PROVE  fold[T] = step[<<Max(T), fold[T \ {Max(T)}]>>]
    <3>1. fold[T] = op(Max(T), fold[T \ {Max(T)}])
      BY <1>8, <2>1
    <3>2. Max(T) \in 1 .. n
      BY <1>1, <2>1, LastFacts
    <3> QED
      BY <1>3, <2>1, <3>1, <3>2
  <2> QED
    BY <1>9, <2>1 DEF IsLeftFold
<1>11. PICK g : Unwinds(g, fold, n, V, <<>>, step)
  BY <1>1, <1>2, <1>4, <1>10, LeftFoldTurns
<1>12. g \in [0 .. n -> V] /\ g[0] = <<>> /\ fold[1 .. n] = g[n]
  BY <1>11 DEF IsRecursion, Unwinds
<1>13. ASSUME NEW i \in 1 .. n PROVE g[i] = op(i, g[i - 1])
  <2>1. g[i - 1] \in V /\ g[i] = step[<<i, g[i - 1]>>]
    BY <1>1, <1>11 DEF IsRecursion, Unwinds
  <2> QED
    BY <1>3, <2>1
<1> QED
  BY <1>5, <1>12, <1>13 DEF Picks, op, V, n

\* In the end what has not been picked is of a path that has its share.
LEMMA PickedFacts ==
    ASSUME NEW pool, IsPool(pool), NEW lambda \in 0 .. 100, NEW most \in Nat
    PROVE  LET picked == Picked(pool, lambda, most)
           IN  /\ GoodPick(pool, picked, most)
               /\ \A i \in 1 .. Len(pool) : i \notin Range(picked) => Taken(pool, picked, i) = most
<1> DEFINE n == Len(pool)
<1>1. PICK g : Picks(g, pool, lambda, most)
  BY PicksTurns
<1> DEFINE N == {i \in Nat : i <= n => Len(g[i]) = i \/ Open(pool, g[i], most) = {}}
<1>2. n \in Nat
  BY DEF IsPool
<1>3. \A i \in 0 .. n : GoodPick(pool, g[i], most)
  BY <1>1 DEF Picks, GoodPicks
<1>4. 0 \in N
  <2>1. Len(g[0]) = 0
    BY <1>1 DEF Picks
  <2> QED
    BY <2>1
<1>5. ASSUME NEW i \in Nat, i \in N PROVE i + 1 \in N
  <2> SUFFICES ASSUME i + 1 <= n
               PROVE  Len(g[i + 1]) = i + 1 \/ Open(pool, g[i + 1], most) = {}
    OBVIOUS
  <2>1. i \in 0 .. n /\ i + 1 \in 1 .. n /\ (i + 1) - 1 = i
    BY <1>2
  <2>2. g[i + 1] = Pick(pool, g[i], lambda, most)
    BY <1>1, <2>1 DEF Picks
  <2>3. IF Open(pool, g[i], most) = {} THEN g[i + 1] = g[i] ELSE Len(g[i + 1]) = Len(g[i]) + 1
    <3>1. GoodPick(pool, g[i], most)
      BY <1>3, <2>1
    <3>2. ASSUME NEW p, GoodPick(pool, p, most)
          PROVE  IF Open(pool, p, most) = {} THEN Pick(pool, p, lambda, most) = p
                 ELSE Len(Pick(pool, p, lambda, most)) = Len(p) + 1
      BY <3>2, PickFacts
    <3> QED
      BY <2>2, <3>1, <3>2
  <2>4. Len(g[i]) = i \/ Open(pool, g[i], most) = {}
    BY <1>5, <2>1
  <2> QED
    BY <2>3, <2>4
<1> HIDE DEF N
<1>6. n \in N
  BY <1>2, <1>4, <1>5, NatInduction1
<1> DEFINE picked == g[n]
<1>7. Picked(pool, lambda, most) = picked /\ GoodPick(pool, picked, most)
  BY <1>1, <1>2, <1>3 DEF Picks
<1>8. Len(picked) = n \/ Open(pool, picked, most) = {}
  BY <1>2, <1>6 DEF N
<1> HIDE DEF picked
<1>9. ASSUME NEW i \in 1 .. n, i \notin Range(picked) PROVE Taken(pool, picked, i) = most
  <2>0. picked \in Seq(1 .. n) /\ Distinct(picked) /\ Taken(pool, picked, i) <= most
    BY <1>7 DEF GoodPick
  <2>1. CASE Open(pool, picked, most) = {}
    <3>1. ~(Taken(pool, picked, i) < most)
      BY <1>9, <2>1 DEF Open
    <3>2. Taken(pool, picked, i) \in Nat
      BY <2>0, TakenFacts
    <3> QED
      BY <2>0, <3>1, <3>2
  <2>2. CASE Len(picked) = n
    <3>1. picked \in [1 .. n -> 1 .. n]
      BY <2>0, <2>2, LenProperties
    <3>2. picked \in Injection(1 .. n, 1 .. n)
      BY <2>0, <2>2, <3>1 DEF Distinct, Injection, IsInjective
    <3>3. IsFiniteSet(1 .. n)
      BY <1>2, FS_Interval
    <3>4. picked \in Surjection(1 .. n, 1 .. n)
      BY <3>2, <3>3, FS_Injection
    <3>5. PICK k \in 1 .. n : picked[k] = i
      BY <3>4 DEF Surjection
    <3>6. Range(picked) = {picked[k1] : k1 \in 1 .. Len(picked)}
      BY <2>0, RangeEquality
    <3> QED
      BY <1>9, <2>2, <3>5, <3>6
  <2> QED
    BY <1>8, <2>1, <2>2
<1> QED
  BY <1>7, <1>9

LEMMA ListingPool ==
    ASSUME NEW rows, NEW pool, IsListing(pool, rows)
    PROVE  IsPool(pool)
<1>1. pool \in Seq(HitsOf(rows)) /\ Sorted(pool)
  BY DEF IsListing
<1>2. Len(pool) \in Nat /\ DOMAIN pool = 1 .. Len(pool)
      /\ \A i \in 1 .. Len(pool) : pool[i] \in HitsOf(rows)
  BY <1>1, LenProperties, ElementOfSeq
<1> QED
  BY <1>1, <1>2, HitsOfFacts DEF IsPool

\* What is left of a pool: hits at the positions picked, none twice.
IsSpread(d, pool, picked, rows) ==
    /\ d \in Seq(HitsOf(rows)) /\ Distinct(d)
    /\ Range(d) = {pool[j] : j \in Range(picked)}

LEMMA MmrFacts ==
    ASSUME NEW rows, NEW hits, IsListing(hits, rows), NEW lambda \in 0 .. 100,
           NEW most \in Nat, NEW topK \in Nat,
           NEW pool, pool = Cut(hits, topK), NEW picked, picked = Picked(pool, lambda, most)
    PROVE  /\ IsListing(pool, rows) /\ GoodPick(pool, picked, most)
           /\ \A i \in 1 .. Len(pool) : i \notin Range(picked) => Taken(pool, picked, i) = most
           /\ IsSpread(applyMmr(hits, lambda, most, topK), pool, picked, rows)
<1>1. IsListing(pool, rows)
  BY CutListing
<1>2. IsPool(pool)
  BY <1>1, ListingPool
<1>3. /\ GoodPick(pool, picked, most)
      /\ \A i \in 1 .. Len(pool) : i \notin Range(picked) => Taken(pool, picked, i) = most
  BY <1>2, PickedFacts
<1> DEFINE d == [n \in DOMAIN picked |-> pool[picked[n]]]
           m == Len(picked)
<1>4. applyMmr(hits, lambda, most, topK) = d
  <2>1. applyMmr(hits, lambda, most, topK) =
            [n \in DOMAIN Picked(Cut(hits, topK), lambda, most) |->
                 Cut(hits, topK)[Picked(Cut(hits, topK), lambda, most)[n]]]
    BY Zenon DEF applyMmr, Picked
  <2> QED
    BY <2>1
<1>5. picked \in Seq(1 .. Len(pool)) /\ Distinct(picked)
  BY <1>3 DEF GoodPick
<1>6. /\ m \in Nat /\ DOMAIN picked = 1 .. m /\ \A n \in 1 .. m : picked[n] \in 1 .. Len(pool)
      /\ Range(picked) = {picked[n] : n \in 1 .. m}
  <2>1. m \in Nat /\ DOMAIN picked = 1 .. m /\ \A n \in 1 .. m : picked[n] \in 1 .. Len(pool)
    BY <1>5, LenProperties, ElementOfSeq
  <2>2. Range(picked) = {picked[n] : n \in 1 .. m}
    BY <1>5, RangeEquality
  <2> QED
    BY <2>1, <2>2
<1>7. pool \in Seq(HitsOf(rows)) /\ ChunksDiffer(pool)
      /\ \A i \in 1 .. Len(pool) : pool[i] \in HitsOf(rows)
  BY <1>1, ElementOfSeq DEF IsListing
<1>8. d \in [1 .. m -> HitsOf(rows)] /\ \A n \in 1 .. m : d[n] = pool[picked[n]]
  BY <1>6, <1>7
<1> HIDE DEF d, m
<1>9. d \in Seq(HitsOf(rows)) /\ Len(d) = m
  BY <1>6, <1>8, FunctionSeq
<1>10. Range(d) = {d[n] : n \in 1 .. m}
  BY <1>9, RangeEquality
<1>11. Range(d) = {pool[j] : j \in Range(picked)}
  BY <1>6, <1>8, <1>10
<1>12. Distinct(d)
  <2>1. ASSUME NEW i \in 1 .. m, NEW j \in 1 .. m, d[i] = d[j] PROVE i = j
    <3>1. picked[i] = picked[j]
      <4>1. picked[i] \in 1 .. Len(pool) /\ picked[j] \in 1 .. Len(pool)
        BY <1>6
      <4>2. pool[picked[i]] = pool[picked[j]]
        BY <1>8, <2>1
      <4> QED
        BY <1>7, <4>1, <4>2 DEF ChunksDiffer
    <3> QED
      BY <1>5, <3>1 DEF Distinct, m
  <2> QED
    BY <1>9, <2>1 DEF Distinct
<1> QED
  BY <1>1, <1>3, <1>4, <1>9, <1>11, <1>12 DEF IsSpread

\* The chunks of a file that an answer shows.
ChunksOf(hits) == {h.chunk : h \in Range(hits)}
Shown(hits, path) == {c \in ChunksOf(hits) : PathOf(c) = path}

\* A path shows no more chunks than positions picked, and as many when none of those
\* was left out.
LEMMA ShownFacts ==
    ASSUME NEW rows, NEW pool, IsListing(pool, rows), NEW most \in Nat,
           NEW picked, GoodPick(pool, picked, most),
           NEW hits, NEW left, left \subseteq Range(picked),
           Range(hits) = {pool[j] : j \in left}, NEW i \in 1 .. Len(pool)
    PROVE  /\ Cardinality(Shown(hits, pool[i].path)) \in Nat
           /\ Cardinality(Shown(hits, pool[i].path)) <= Taken(pool, picked, i)
           /\ SamePath(pool, picked, i) \subseteq left =>
                  Cardinality(Shown(hits, pool[i].path)) = Taken(pool, picked, i)
<1> DEFINE P == SamePath(pool, picked, i)
           Q == P \cap left
           C == Shown(hits, pool[i].path)
           f == [j \in Q |-> pool[j].chunk]
<1>1. IsPool(pool) /\ picked \in Seq(1 .. Len(pool))
  BY ListingPool DEF GoodPick
<1>2. Range(picked) \subseteq 1 .. Len(pool)
  BY <1>1, RangeOfSeq
<1>3. IsFiniteSet(P) /\ Taken(pool, picked, i) = Cardinality(P) /\ Cardinality(P) \in Nat
  BY <1>1, TakenFacts, FS_CardinalityType
<1>4. \A j \in 1 .. Len(pool) : pool[j].path = PathOf(pool[j].chunk)
  <2>1. \A j \in 1 .. Len(pool) : pool[j] \in HitsOf(rows)
    BY ElementOfSeq DEF IsListing
  <2> QED
    BY <2>1, HitsOfFacts
<1>5. C = {pool[j].chunk : j \in Q}
  <2>1. ChunksOf(hits) = {pool[j].chunk : j \in left}
    BY DEF ChunksOf
  <2> QED
    BY <1>2, <1>4, <2>1 DEF Shown, SamePath
<1>6. IsFiniteSet(Q) /\ Cardinality(Q) <= Cardinality(P) /\ Cardinality(Q) \in Nat
  BY <1>3, FS_Subset, FS_CardinalityType
<1>7. f \in Surjection(Q, C)
  BY <1>5 DEF Surjection
<1>8. f \in Injection(Q, C)
  <2>1. \A j, k \in 1 .. Len(pool) : pool[j].chunk = pool[k].chunk => j = k
    BY DEF IsListing, ChunksDiffer
  <2>2. Q \subseteq 1 .. Len(pool)
    BY <1>2 DEF SamePath
  <2> QED
    BY <1>5, <2>1, <2>2 DEF Injection, IsInjective
<1> HIDE DEF Q, C, f, P
<1>9. Cardinality(C) = Cardinality(Q)
  BY <1>6, <1>7, <1>8, FS_Surjection
<1>10. P \subseteq left => Q = P
  BY DEF Q
<1> QED
  BY <1>3, <1>6, <1>9, <1>10 DEF C, P

\* The property of the runs, of one answer.
Keeps(hits, open, opts) ==
    LET share(path) == Cardinality(Shown(hits, path))
    IN  /\ Len(hits) = Cardinality(ChunksOf(hits)) /\ Len(hits) <= opts.limit
        /\ \A c \in ChunksOf(hits) : share(PathOf(c)) <= opts.maxPerPath
        /\ \A h \in Range(hits) : h.score >= opts.threshold
        /\ Len(hits) < opts.limit =>
               \A h \in Range(Cut(open, candidates(opts.limit))) :
                   \/ h.chunk \in ChunksOf(hits)
                   \/ h.score < opts.threshold
                   \/ share(h.path) = opts.maxPerPath

LEMMA LengthIsCardinality ==
    ASSUME NEW rows, NEW hits \in Seq(HitsOf(rows)), Distinct(hits), AllDiffer(Range(hits))
    PROVE  Len(hits) = Cardinality(ChunksOf(hits))
<1> DEFINE n == Len(hits)
           C == ChunksOf(hits)
           f == [i \in 1 .. n |-> hits[i].chunk]
<1>1. n \in Nat /\ Range(hits) = {hits[i] : i \in 1 .. n}
  BY LenProperties, RangeEquality
<1>2. C = {hits[i].chunk : i \in 1 .. n}
  BY <1>1 DEF ChunksOf
<1>3. f \in Surjection(1 .. n, C)
  BY <1>2 DEF Surjection
<1>4. f \in Injection(1 .. n, C)
  <2>1. \A i, j \in 1 .. n : hits[i].chunk = hits[j].chunk => i = j
    BY <1>1 DEF AllDiffer, Distinct
  <2> QED
    BY <1>2, <2>1 DEF Injection, IsInjective
<1> HIDE DEF f, C, n
<1>5. IsFiniteSet(1 .. n) /\ Cardinality(1 .. n) = n
  <2>1. 1 \in Int /\ n \in Int
    BY <1>1
  <2>2. /\ IsFiniteSet(1 .. n)
        /\ Cardinality(1 .. n) = IF 1 > n THEN 0 ELSE n - 1 + 1
    BY <2>1, FS_Interval, Zenon
  <2> QED
    BY <1>1, <2>2
<1>6. Cardinality(C) = Cardinality(1 .. n)
  BY <1>3, <1>4, <1>5, FS_Surjection
<1> QED
  BY <1>5, <1>6 DEF n, C

LEMMA CutRange ==
    ASSUME NEW S, NEW s \in Seq(S), Distinct(s), NEW n \in Nat, NEW r, r = Cut(s, n)
    PROVE  /\ r \in Seq(S) /\ Distinct(r) /\ Len(r) <= n /\ Range(r) \subseteq Range(s)
           /\ Len(r) < n => Range(r) = Range(s)
<1>1. r \in Seq(S) /\ IsCut(r, s, n)
  BY CutFacts
<1>2. /\ Len(r) \in Nat /\ Range(r) = {r[i] : i \in 1 .. Len(r)}
      /\ Len(s) \in Nat /\ Range(s) = {s[i] : i \in 1 .. Len(s)}
  <2>1. \A u \in Seq(S) : Range(u) = {u[k] : k \in 1 .. Len(u)} /\ Len(u) \in Nat
    BY RangeEquality, LenProperties
  <2> QED
    BY <1>1, <2>1, Zenon
<1>3. /\ Len(r) = IF n < Len(s) THEN n ELSE Len(s)
      /\ \A i \in 1 .. Len(r) : i \in 1 .. Len(s) /\ r[i] = s[i]
  BY <1>1 DEF IsCut
<1>4. Distinct(r)
  BY <1>3 DEF Distinct
<1>5. Len(r) < n => Len(r) = Len(s)
  BY <1>2, <1>3
<1>6. Len(r) = Len(s) => Range(r) = Range(s)
  BY <1>2, <1>3
<1>7. Range(r) \subseteq Range(s)
  BY <1>2, <1>3
<1>8. Len(r) <= n
  BY <1>2, <1>3
<1> QED
  BY <1>1, <1>4, <1>5, <1>6, <1>7, <1>8

Answers(hits, table, query, opts) ==
    /\ hits \in Seq(HitsOf(buildFilterClause(table, opts.prefix)))
    /\ Keeps(hits, searchHybrid(table, query, opts), opts)

LEMMA SearchAnswers ==
    ASSUME NEW table \in SUBSET DOMAIN Chunks, NEW query \in Queries, NEW opts \in ScopedOptions
    PROVE  Answers(search(table, query, opts), table, query, opts)
<1> DEFINE rows == buildFilterClause(table, opts.prefix)
           S == HitsOf(rows)
           open == searchHybrid(table, query, opts)
           most == opts.maxPerPath
           limit == opts.limit
           floor == opts.threshold
           pool == Cut(open, candidates(limit))
           picked == Picked(pool, opts.lambda, most)
           d == applyMmr(open, opts.lambda, most, candidates(limit))
           low == {h \in Range(d) : h.score < floor}
           t == applyThreshold(d, floor)
           r == Cut(t, limit)
<1>1. r = search(table, query, opts)
  BY DEF search
<1>2. /\ opts.lambda \in 0 .. 100 /\ most \in Nat /\ limit \in Nat /\ floor \in Nat
      /\ candidates(limit) \in Nat
  BY candidatesType DEF ScopedOptions
<1>3. IsListing(open, rows)
  BY HybridListing
<1>4. t = Without(d, low)
  BY DEF applyThreshold
<1> HIDE DEF open, pool, picked, d, t, r, most, limit, floor, rows
<1>5. /\ IsListing(pool, rows) /\ GoodPick(pool, picked, most)
      /\ \A i \in 1 .. Len(pool) : i \notin Range(picked) => Taken(pool, picked, i) = most
      /\ IsSpread(d, pool, picked, rows)
  BY <1>2, <1>3, MmrFacts DEF pool, picked, d
<1>6. d \in Seq(S) /\ Distinct(d) /\ Range(d) = {pool[j] : j \in Range(picked)}
  BY <1>5 DEF IsSpread
<1>7. t \in Seq(S) /\ Distinct(t) /\ Range(t) = Range(d) \ low
  <2> HIDE DEF S, low
  <2> QED
    BY <1>4, <1>6, WithoutFacts
<1>8. /\ r \in Seq(S) /\ Distinct(r) /\ Len(r) <= limit /\ Range(r) \subseteq Range(t)
      /\ Len(r) < limit => Range(r) = Range(t)
  <2> HIDE DEF S
  <2> QED
    BY <1>2, <1>7, CutRange DEF r
<1>9. Range(picked) \subseteq 1 .. Len(pool)
  BY <1>5, RangeOfSeq DEF GoodPick
<1>10. /\ \A j \in 1 .. Len(pool) : pool[j] \in S
       /\ \A i, j \in 1 .. Len(pool) : pool[i].chunk = pool[j].chunk => i = j
  <2> HIDE DEF S
  <2> QED
    BY <1>5, ElementOfSeq DEF IsListing, ChunksDiffer, S
<1>11. \A h \in S : h.path = PathOf(h.chunk) /\ h.score \in Nat
  BY HitsOfFacts
<1> HIDE DEF S
<1> DEFINE left == {j \in Range(picked) : pool[j] \in Range(r)}
<1>12. left \subseteq Range(picked) /\ Range(r) = {pool[j] : j \in left}
  BY <1>6, <1>7, <1>8
<1>13. ASSUME NEW i \in 1 .. Len(pool)
       PROVE  /\ Cardinality(Shown(r, pool[i].path)) \in Nat
              /\ Cardinality(Shown(r, pool[i].path)) <= Taken(pool, picked, i)
              /\ SamePath(pool, picked, i) \subseteq left =>
                     Cardinality(Shown(r, pool[i].path)) = Taken(pool, picked, i)
  <2> HIDE DEF left
  <2> QED
    BY <1>2, <1>5, <1>12, ShownFacts
<1>14. AllDiffer(Range(r))
  BY <1>9, <1>10, <1>12 DEF AllDiffer
<1>15. Len(r) = Cardinality(ChunksOf(r))
  BY <1>8, <1>14, LengthIsCardinality DEF S
<1>16. ASSUME NEW c \in ChunksOf(r) PROVE Cardinality(Shown(r, PathOf(c))) <= most
  <2>1. PICK j \in left : c = pool[j].chunk
    BY <1>12 DEF ChunksOf
  <2>2. j \in 1 .. Len(pool) /\ pool[j].path = PathOf(c)
    BY <1>9, <1>10, <1>11, <2>1
  <2>3. /\ Cardinality(Shown(r, PathOf(c))) \in Nat
        /\ Cardinality(Shown(r, PathOf(c))) <= Taken(pool, picked, j)
    BY <1>13, <2>2
  <2>4. Taken(pool, picked, j) <= most
    BY <1>5, <2>2 DEF GoodPick
  <2>5. Taken(pool, picked, j) \in Nat
    BY <1>5, <2>2, ListingPool, TakenFacts DEF GoodPick
  <2> QED
    BY <1>2, <2>3, <2>4, <2>5
<1>17. \A h \in Range(r) : h.score >= floor
  <2>1. \A h \in Range(r) : h \in S /\ h \in Range(d) /\ h \notin low
    BY <1>7, <1>8, <1>9, <1>10, <1>12
  <2> QED
    BY <1>2, <1>11, <2>1
<1>18. ASSUME Len(r) < limit, NEW h \in Range(pool)
       PROVE  \/ h.chunk \in ChunksOf(r)
              \/ h.score < floor
              \/ Cardinality(Shown(r, h.path)) = most
  <2> SUFFICES ASSUME ~(h.score < floor), h.chunk \notin ChunksOf(r)
               PROVE  Cardinality(Shown(r, h.path)) = most
    OBVIOUS
  <2>1. PICK i \in 1 .. Len(pool) : h = pool[i]
    <3>1. Range(pool) = {pool[k] : k \in 1 .. Len(pool)}
      BY <1>5, RangeEquality DEF IsListing
    <3> QED
      BY <3>1
  <2>2. Range(r) = Range(d) \ low
    BY <1>7, <1>8, <1>18
  <2>3. h \notin Range(r)
    BY DEF ChunksOf
  <2>4. i \notin Range(picked)
    BY <1>6, <2>1, <2>2, <2>3
  <2>5. ASSUME NEW j \in SamePath(pool, picked, i) PROVE j \in left
    <3>1. j \in Range(picked) /\ pool[j].path = pool[i].path
      BY DEF SamePath
    <3>2. pool[j].score >= pool[i].score
      BY <1>5, <2>4, <3>1 DEF GoodPick
    <3>3. pool[j].score \in Nat /\ pool[i].score \in Nat /\ floor \in Nat
      BY <1>2, <1>9, <1>10, <1>11, <3>1
    <3>4. ~(pool[j].score < floor)
      BY <2>1, <3>2, <3>3
    <3>5. pool[j] \in Range(r)
      BY <1>6, <2>2, <3>1, <3>4
    <3> QED
      BY <3>1, <3>5
  <2>6. Cardinality(Shown(r, pool[i].path)) = Taken(pool, picked, i)
    BY <1>13, <2>5
  <2> QED
    BY <1>5, <2>1, <2>4, <2>6
<1>19. Keeps(r, open, opts)
  BY <1>8, <1>15, <1>16, <1>17, <1>18 DEF Keeps, most, limit, floor, pool
<1> QED
  BY <1>1, <1>8, <1>19 DEF Answers, S, rows, open

----------------------------------------------------------------------------
(* A search of a scope.                                                    *)

SameOptions(s, opts) ==
    /\ s.limit = opts.limit /\ s.lambda = opts.lambda /\ s.maxPerPath = opts.maxPerPath
    /\ s.threshold = opts.threshold /\ s.mode = opts.mode

LEMMA SearchSame ==
    ASSUME NEW t1, NEW t2, NEW query, NEW s, NEW opts, SameOptions(s, opts),
           buildFilterClause(t1, s.prefix) = buildFilterClause(t2, opts.prefix)
    PROVE  search(t1, query, s) = search(t2, query, opts)
<1> DEFINE rows == buildFilterClause(t2, opts.prefix)
           vector == Arm(rows, query.vector, opts.limit)
           fts == Arm(rows, query.fts, opts.limit)
           hybrid == Ranked({h \in Fused(vector, fts) : h.score > 0})
           found == CASE opts.mode = "vector" -> vector
                      [] opts.mode = "fts"    -> fts
                      [] opts.mode = "hybrid" -> hybrid
<1>1. searchHybrid(t2, query, opts) = found
  BY DEF searchHybrid
<1>2. searchHybrid(t1, query, s) = found
  <2>1. /\ buildFilterClause(t1, s.prefix) = rows
        /\ Arm(rows, query.vector, s.limit) = vector /\ Arm(rows, query.fts, s.limit) = fts
        /\ s.mode = opts.mode
    BY DEF SameOptions
  <2> HIDE DEF rows, vector, fts
  <2>2. searchHybrid(t1, query, s) =
            CASE s.mode = "vector" -> Arm(rows, query.vector, s.limit)
              [] s.mode = "fts"    -> Arm(rows, query.fts, s.limit)
              [] s.mode = "hybrid" -> Ranked({h \in Fused(Arm(rows, query.vector, s.limit),
                                                          Arm(rows, query.fts, s.limit)) : h.score > 0})
    BY <2>1 DEF searchHybrid
  <2>3. Ranked({h \in Fused(Arm(rows, query.vector, s.limit),
                            Arm(rows, query.fts, s.limit)) : h.score > 0}) = hybrid
    BY <2>1
  <2> HIDE DEF hybrid
  <2> QED
    BY <2>1, <2>2, <2>3
<1> HIDE DEF found
<1> QED
  BY <1>1, <1>2 DEF search, SameOptions

LEMMA PrefixType ==
    ASSUME NEW p \in Seq(STRING)
    PROVE  p \in Text
  BY SeqMonotonic DEF Text, Character

LEMMA ScopedFacts ==
    ASSUME NEW scope, Served(scope), NEW opts \in Options
    PROVE  LET s == withScopedFilter(opts, scope)
           IN  /\ s \in ScopedOptions /\ SameOptions(s, opts)
               /\ s.prefix = under(scope, opts.prefix)
<1>1. opts.prefix \in Text /\ under(scope, opts.prefix) \in Text
  BY PrefixType, UnderIsInside DEF Options
<1>2. CASE scope.prefix = <<>>
  <2>1. withScopedFilter(opts, scope) = opts /\ under(scope, opts.prefix) = opts.prefix
    BY <1>2 DEF withScopedFilter, under
  <2> QED
    BY <1>1, <2>1 DEF Options, ScopedOptions, SameOptions
<1>3. CASE scope.prefix # <<>>
  <2> DEFINE p == under(scope, opts.prefix)
  <2>1. withScopedFilter(opts, scope) = [opts EXCEPT !.prefix = p]
    BY <1>3 DEF withScopedFilter, under
  <2>2. p \in Text
    BY <1>1
  <2> HIDE DEF p
  <2>3. [opts EXCEPT !.prefix = p] \in ScopedOptions /\ SameOptions([opts EXCEPT !.prefix = p], opts)
        /\ [opts EXCEPT !.prefix = p].prefix = p
    BY <2>2 DEF Options, ScopedOptions, SameOptions
  <2> QED
    BY <2>1, <2>3 DEF p
<1> QED
  BY <1>2, <1>3

LEMMA AskedType ==
    ASSUME NEW asked \in Asked
    PROVE  asked.query \in Queries /\ asked.opts \in Options
  BY McpAssumption DEF Queries, Options

LEMMA TableType ==
    ASSUME NEW slug
    PROVE  Table(slug) \in SUBSET DOMAIN Chunks
  BY DEF Table

\* The rows of a scoped prefix are those of the folder that have the prefix there.
LEMMA ScopedRows ==
    ASSUME NEW scope, Served(scope), NEW table \in SUBSET DOMAIN Chunks, NEW p \in Text
    PROVE  buildFilterClause(table, under(scope, p)) =
               {c \in table : /\ IsPrefix(Folder(scope), PathOf(c))
                              /\ IsPrefix(p, Rest(PathOf(c), Len(Folder(scope))))}
<1>1. Folder(scope) \in Text /\ under(scope, p) = Folder(scope) \o p
  BY FolderFacts
<1>2. ASSUME NEW c \in table
      PROVE  IsPrefix(under(scope, p), PathOf(c)) <=>
                 /\ IsPrefix(Folder(scope), PathOf(c))
                 /\ IsPrefix(p, Rest(PathOf(c), Len(Folder(scope))))
  <2>1. PathOf(c) \in Text
    BY RowType, PrefixType DEF PathOf
  <2> QED
    BY <1>1, <2>1, PrefixOfConcat
<1> QED
  BY <1>2 DEF buildFilterClause

\* Nothing of a search within a folder lies outside it: the drop of such hits is idle.
Shorter(scope, hits) ==
    [i \in DOMAIN hits |-> [hits[i] EXCEPT !.path = SubSeq(@, Len(Folder(scope)) + 1, Len(@))]]

LEMMA StrippedFacts ==
    ASSUME NEW scope, Served(scope), NEW table \in SUBSET DOMAIN Chunks, NEW p \in Text,
           NEW hits \in Seq(HitsOf(buildFilterClause(table, under(scope, p))))
    PROVE  Stripped(scope, hits) = Shorter(scope, hits)
<1> DEFINE S == HitsOf(buildFilterClause(table, under(scope, p)))
           out == {h \in Range(hits) : ~IsPrefix(Folder(scope), h.path)}
<1>1. \A h \in S : IsPrefix(Folder(scope), h.path)
  <2>1. ASSUME NEW h \in S PROVE IsPrefix(Folder(scope), h.path)
    <3>1. h.chunk \in buildFilterClause(table, under(scope, p)) /\ h.path = PathOf(h.chunk)
      BY HitsOfFacts
    <3> QED
      BY <3>1, ScopedRows
  <2> QED
    BY <2>1
<1> HIDE DEF S
<1>2. \A i \in 1 .. Len(hits) : hits[i] \in S
  BY ElementOfSeq DEF S
<1>3. Without(hits, out) = hits
  <2>1. \A i \in 1 .. Len(hits) : hits[i] \notin out
    BY <1>1, <1>2
  <2> HIDE DEF out
  <2>2. hits \in Seq(S)
    BY DEF S
  <2> QED
    BY <2>1, <2>2, WithoutNothing
<1>4. Stripped(scope, hits) =
          [i \in DOMAIN hits |-> [hits[i] EXCEPT !.path = strip(scope, @)]]
  BY <1>3 DEF Stripped
<1> QED
  BY <1>4 DEF strip, Shorter

LEMMA SearchedInScope ==
    ASSUME NEW scope, Served(scope), NEW slug, NEW asked \in Asked,
           NEW hits, hits = Stripped(scope, search(Table(slug), asked.query,
                                                   withScopedFilter(asked.opts, scope)))
    PROVE  hits = SearchWithin(scope, slug, asked)
<1> DEFINE opts == asked.opts
           s == withScopedFilter(opts, scope)
           rows == {c \in Table(slug) : /\ IsPrefix(Folder(scope), PathOf(c))
                                        /\ IsPrefix(opts.prefix, Rest(PathOf(c), Len(Folder(scope))))}
           plain == [opts EXCEPT !.prefix = <<>>]
           found == search(Table(slug), asked.query, s)
<1>1. asked.query \in Queries /\ opts \in Options
  BY AskedType
<1>2. opts.prefix \in Text
  BY <1>1, PrefixType DEF Options
<1>3. s \in ScopedOptions /\ SameOptions(s, opts) /\ s.prefix = under(scope, opts.prefix)
  BY <1>1, ScopedFacts
<1>4. SameOptions(s, plain) /\ plain.prefix = <<>>
  <2> HIDE DEF s, opts
  <2> QED
    BY <1>1, <1>3 DEF Options, SameOptions
<1>5. Table(slug) \in SUBSET DOMAIN Chunks
  BY TableType
<1>6. buildFilterClause(Table(slug), s.prefix) = rows
  BY <1>2, <1>3, <1>5, ScopedRows
<1>7. buildFilterClause(rows, plain.prefix) = rows
  <2>1. \A c \in rows : IsPrefix(<<>>, PathOf(c))
    BY <1>5, RowType, PrefixType, EmptyPrefix DEF PathOf
  <2> HIDE DEF rows, plain
  <2> QED
    BY <1>4, <2>1 DEF buildFilterClause
<1>8. SearchWithin(scope, slug, asked) = Shorter(scope, search(rows, asked.query, plain))
  BY DEF SearchWithin, Shorter, Rest
<1> HIDE DEF s, opts, plain, rows
<1>9. found = search(rows, asked.query, plain)
  BY <1>4, <1>6, <1>7, SearchSame
<1>10. found \in Seq(HitsOf(buildFilterClause(Table(slug), under(scope, opts.prefix))))
  <2>1. Answers(found, Table(slug), asked.query, s)
    BY <1>1, <1>3, <1>5, SearchAnswers
  <2> HIDE DEF found
  <2> QED
    BY <1>3, <2>1 DEF Answers
<1>11. hits = Stripped(scope, found)
  BY DEF s, opts
<1> HIDE DEF found
<1>12. hits = Shorter(scope, found)
  BY <1>2, <1>5, <1>10, <1>11, StrippedFacts
<1> QED
  BY <1>8, <1>9, <1>12

LEMMA ShorterFacts ==
    ASSUME NEW scope, NEW rows, NEW found \in Seq(HitsOf(rows)),
           NEW hits, hits = Shorter(scope, found)
    PROVE  /\ Len(hits) = Len(found) /\ ChunksOf(hits) = ChunksOf(found)
           /\ \A h \in Range(hits) : \E f \in Range(found) : h.score = f.score
<1> DEFINE n == Len(found)
           S == {hits[i] : i \in 1 .. n}
<1>1. n \in Nat /\ DOMAIN found = 1 .. n /\ \A i \in 1 .. n : found[i] \in HitsOf(rows)
  BY LenProperties, ElementOfSeq
<1>2. \A i \in 1 .. n : found[i] \in Hits
  BY <1>1 DEF HitsOf
<1>3. DOMAIN hits = 1 .. n /\ \A i \in 1 .. n : hits[i] =
          [found[i] EXCEPT !.path = SubSeq(@, Len(Folder(scope)) + 1, Len(@))]
  BY <1>1 DEF Shorter
<1>4. \A i \in 1 .. n : hits[i].chunk = found[i].chunk /\ hits[i].score = found[i].score
  BY <1>2, <1>3 DEF Hits
<1>5. hits \in [1 .. n -> S]
  BY <1>1, <1>3 DEF Shorter
<1> HIDE DEF n
<1>6. Range(hits) = {hits[i] : i \in 1 .. n} /\ Range(found) = {found[i] : i \in 1 .. n}
  BY <1>1, <1>3 DEF Range
<1>7. Len(hits) = n
  <2> HIDE DEF S
  <2> QED
    BY <1>1, <1>5, FunctionSeq
<1>8. ChunksOf(hits) = ChunksOf(found)
  BY <1>4, <1>6 DEF ChunksOf
<1>9. \A h \in Range(hits) : \E f \in Range(found) : h.score = f.score
  BY <1>4, <1>6
<1> QED
  BY <1>7, <1>8, <1>9 DEF n

LEMMA SearchedKeeps ==
    ASSUME NEW scope, Served(scope), NEW slug, NEW asked \in Asked,
           NEW hits, hits = Stripped(scope, search(Table(slug), asked.query,
                                                   withScopedFilter(asked.opts, scope)))
    PROVE  Keeps(hits, searchHybrid(Table(slug), asked.query, withScopedFilter(asked.opts, scope)),
                 asked.opts)
<1> DEFINE opts == asked.opts
           s == withScopedFilter(opts, scope)
           found == search(Table(slug), asked.query, s)
           open == searchHybrid(Table(slug), asked.query, s)
           rows == buildFilterClause(Table(slug), s.prefix)
<1>1. asked.query \in Queries /\ opts \in Options
  BY AskedType
<1>2. opts.prefix \in Text
  BY <1>1, PrefixType DEF Options
<1>3. s \in ScopedOptions /\ SameOptions(s, opts) /\ s.prefix = under(scope, opts.prefix)
  BY <1>1, ScopedFacts
<1>4. Table(slug) \in SUBSET DOMAIN Chunks
  BY TableType
<1>5. Answers(found, Table(slug), asked.query, s)
  BY <1>1, <1>3, <1>4, SearchAnswers
<1>6. found \in Seq(HitsOf(rows)) /\ Keeps(found, open, s)
  BY <1>5 DEF Answers
<1>7. hits = Stripped(scope, found)
  OBVIOUS
<1> HIDE DEF found, open
<1>8. hits = Shorter(scope, found)
  BY <1>2, <1>3, <1>4, <1>6, <1>7, StrippedFacts
<1>9. /\ Len(hits) = Len(found) /\ ChunksOf(hits) = ChunksOf(found)
      /\ \A h \in Range(hits) : \E f \in Range(found) : h.score = f.score
  BY <1>6, <1>8, ShorterFacts
<1>10. \A path : Shown(hits, path) = Shown(found, path)
  BY <1>9 DEF Shown
<1> HIDE DEF s, opts
<1>11. Keeps(hits, open, opts)
  <2>1. s.limit = opts.limit /\ s.maxPerPath = opts.maxPerPath /\ s.threshold = opts.threshold
    BY <1>3 DEF SameOptions
  <2>2. \A h \in Range(hits) : h.score >= opts.threshold
    BY <1>6, <1>9, <2>1 DEF Keeps
  <2> QED
    BY <1>6, <1>9, <1>10, <2>1, <2>2 DEF Keeps
<1> QED
  BY <1>11 DEF open, s, opts

LEMMA SearchedSlots ==
    ASSUME IInv, NEW r \in Slots, Answered(r, "searched")
    PROVE  LET answer == slot[r].answer
               scope == slot[r].scope
           IN  /\ Served(scope) /\ answer.asked \in Asked
               /\ answer.hits = Stripped(scope, search(Table(answer.vault), answer.asked.query,
                                                       withScopedFilter(answer.asked.opts, scope)))
<1> DEFINE x == slot[r]
<1>1. SlotOk(x) /\ x.stage = "done" /\ x.answer.did = "searched"
  BY DEF IInv, SlotsOk, Answered, At
<1>2. x.answer # NoAnswer /\ x # Idle
  BY <1>1, NoAnswerFacts, IdleFacts
<1>3. Serves(x) /\ Good(x.scope, x.answer)
  BY <1>1, <1>2 DEF SlotOk
<1> QED
  BY <1>1, <1>3 DEF Serves, Good, Found

\* To search a scope is to search its folder as a vault of its own
\* (withScopedFilter and strip in mcp/scope.ts).
THEOREM ScopedSearch == Spec => []ScopeIsAVaultOfItsOwn
<1>1. IInv => ScopeIsAVaultOfItsOwn
  BY SearchedSlots, SearchedInScope DEF ScopeIsAVaultOfItsOwn
<1> QED
  BY <1>1, Invariance, PTL

\* No answer exceeds the limit, repeats a chunk or gives a file more than its share,
\* and none is short of hits that a file with room could have given
\* (search in indexer/index.ts, applyMmr and applyThreshold in rank.ts).
THEOREM CapsHold == Spec => []SearchKeepsTheCaps
<1>1. ASSUME IInv, NEW r \in Slots, Answered(r, "searched")
      PROVE  LET answer == slot[r].answer
                 opts == answer.asked.opts
             IN  Keeps(answer.hits,
                       searchHybrid(Table(answer.vault), answer.asked.query,
                                    withScopedFilter(opts, slot[r].scope)), opts)
  BY <1>1, SearchedSlots, SearchedKeeps
<1>2. IInv => SearchKeepsTheCaps
  BY <1>1 DEF SearchKeepsTheCaps, Keeps, Shown, ChunksOf
<1> QED
  BY <1>2, Invariance, PTL
=============================================================================
