----------------------------- MODULE SumTheorems -----------------------------
(***************************************************************************)
(* Sums over finite sets (SumFunctionOnSet and SumFunction of the library  *)
(* module Functions), for the proofs about balances, tallies and splits.   *)
(*                                                                         *)
(* A sum is a fold: the value of a function defined by recursion over the  *)
(* subsets of its set.  That such a function exists, that it does not      *)
(* depend on the set it was defined over, and that the order of the terms  *)
(* does not matter are shown for a smallest set at which they would fail,  *)
(* which exists because strict inclusion is well founded on a finite set.  *)
(***************************************************************************)
EXTENDS FiniteSetTheorems, Functions, Sequences, TLAPS

\* Every nonempty family of subsets of a finite set has a minimal member.
LEMMA MinimalSubset ==
  ASSUME NEW S, IsFiniteSet(S), NEW T \in SUBSET SUBSET S, T # {}
  PROVE  \E U \in T : \A V \in (SUBSET U) \ {U} : V \notin T
<1>1. IsWellFoundedOn(StrictSubsetOrdering(S), SUBSET S)
  BY FS_FiniteSubsetsOfFinite, FS_StrictSubsetOrderingWellFounded
<1>2. \E U \in T : \A V \in T : ~ (<<V, U>> \in StrictSubsetOrdering(S))
  BY <1>1, WFMin
<1> QED
  BY <1>2 DEF StrictSubsetOrdering

\* The element a fold takes first.
Foremost(s) == CHOOSE x \in s : TRUE

\* The function a sum of f is read from (SumsOf), and the equation it solves.
Added(f, g, s) == IF s = {} THEN 0 ELSE f[Foremost(s)] + g[s \ {Foremost(s)}]
SumsOf(f, S) == CHOOSE g : g = [s \in SUBSET S |-> Added(f, g, s)]
IsSumOf(f, g, S) == g = [s \in SUBSET S |-> Added(f, g, s)]

\* A sum is the value of that function at the whole set.
LEMMA SumIsOf ==
  ASSUME NEW f, NEW S
  PROVE  SumFunctionOnSet(f, S) = SumsOf(f, S)[S]
BY DEF SumFunctionOnSet, FoldFunctionOnSet, MapThenFoldSet, SumsOf, Added, Foremost

\* Two such functions agree where both are defined.
LEMMA SumsUnique ==
  ASSUME NEW f, NEW g, NEW h, NEW S, NEW U, IsFiniteSet(S), U \subseteq S,
         IsSumOf(f, g, S), IsSumOf(f, h, U)
  PROVE  \A s \in SUBSET U : g[s] = h[s]
<1> DEFINE Bad == {s \in SUBSET U : g[s] # h[s]}
<1> SUFFICES ASSUME Bad # {} PROVE FALSE
  OBVIOUS
<1>1. IsFiniteSet(U)
  BY FS_Subset
<1>2. PICK s \in Bad : \A v \in (SUBSET s) \ {s} : v \notin Bad
  <2>1. Bad \in SUBSET SUBSET U
    OBVIOUS
  <2> HIDE DEF Bad
  <2> QED
    BY <1>1, <2>1, MinimalSubset
<1>3. g[s] = Added(f, g, s) /\ h[s] = Added(f, h, s)
  BY DEF IsSumOf
<1>4. s # {}
  BY <1>2, <1>3 DEF Added
<1>5. Foremost(s) \in s
  BY <1>4 DEF Foremost
<1>6. g[s \ {Foremost(s)}] = h[s \ {Foremost(s)}]
  BY <1>2, <1>5
<1> QED
  BY <1>2, <1>3, <1>6 DEF Added

\* The function a sum is read from exists.
LEMMA SumsExist ==
  ASSUME NEW f, NEW S, IsFiniteSet(S)
  PROVE  IsSumOf(f, SumsOf(f, S), S)
<1> DEFINE Bad == {U \in SUBSET S : ~ \E g : IsSumOf(f, g, U)}
<1>1. \A U : (\E g : IsSumOf(f, g, U)) => IsSumOf(f, SumsOf(f, U), U)
  BY DEF IsSumOf, SumsOf
<1> SUFFICES ASSUME Bad # {} PROVE FALSE
  BY <1>1
<1>2. PICK U \in Bad : \A V \in (SUBSET U) \ {U} : V \notin Bad
  <2>1. Bad \in SUBSET SUBSET S
    OBVIOUS
  <2> HIDE DEF Bad
  <2> QED
    BY <2>1, MinimalSubset
<1> DEFINE Below(s) == s \ {Foremost(s)}
           g == [s \in SUBSET U |-> IF s = {} THEN 0
                                    ELSE f[Foremost(s)] + SumsOf(f, Below(s))[Below(s)]]
<1>3. \A s \in SUBSET U : s # {} => Foremost(s) \in s /\ Below(s) \in (SUBSET U) \ {U}
  BY DEF Foremost
<1>4. ASSUME NEW s \in SUBSET U, s # {}
      PROVE  g[Below(s)] = SumsOf(f, Below(s))[Below(s)]
  <2> DEFINE u == Below(s)
  <2>1. u \in (SUBSET U) \ {U}
    BY <1>3, <1>4
  <2>2. IsSumOf(f, SumsOf(f, u), u) /\ IsFiniteSet(u)
    BY <1>1, <1>2, <2>1, FS_Subset
  <2>3. SumsOf(f, u)[u] = Added(f, SumsOf(f, u), u)
    BY <2>2 DEF IsSumOf
  <2>4. CASE u = {}
    BY <2>1, <2>3, <2>4 DEF Added
  <2>5. CASE u # {}
    <3>1. Below(u) \in (SUBSET U) \ {U} /\ Below(u) \subseteq u
      BY <1>3, <2>1, <2>5
    <3>2. IsSumOf(f, SumsOf(f, Below(u)), Below(u))
      BY <1>1, <1>2, <3>1
    <3>3. SumsOf(f, u)[Below(u)] = SumsOf(f, Below(u))[Below(u)]
      BY <2>2, <3>1, <3>2, SumsUnique
    <3> QED
      BY <2>1, <2>3, <2>5, <3>3 DEF Added
  <2> QED
    BY <2>4, <2>5
<1>5. \A s \in SUBSET U : g[s] = Added(f, g, s)
  BY <1>4 DEF Added
<1>6. IsSumOf(f, g, U)
  BY <1>5 DEF IsSumOf
<1> QED
  BY <1>2, <1>6

-----------------------------------------------------------------------------
\* The empty sum.
LEMMA SumEmpty ==
  ASSUME NEW f
  PROVE  SumFunctionOnSet(f, {}) = 0
<1>1. IsSumOf(f, SumsOf(f, {}), {})
  BY SumsExist, FS_EmptySet
<1>2. SumsOf(f, {})[{}] = Added(f, SumsOf(f, {}), {})
  BY <1>1 DEF IsSumOf
<1> QED
  BY <1>2, SumIsOf DEF Added

\* A sum is its first term and the sum of the others.
LEMMA SumFirst ==
  ASSUME NEW f, NEW S, IsFiniteSet(S), S # {}
  PROVE  /\ Foremost(S) \in S
         /\ SumFunctionOnSet(f, S) = f[Foremost(S)] + SumFunctionOnSet(f, S \ {Foremost(S)})
<1> DEFINE u == S \ {Foremost(S)}
<1>1. IsFiniteSet(u) /\ u \subseteq S
  BY FS_Subset
<1>2. IsSumOf(f, SumsOf(f, S), S) /\ IsSumOf(f, SumsOf(f, u), u)
  BY <1>1, SumsExist
<1>3. SumsOf(f, S)[u] = SumsOf(f, u)[u]
  BY <1>1, <1>2, SumsUnique
<1>4. Foremost(S) \in S
  BY DEF Foremost
<1> QED
  BY <1>2, <1>3, <1>4, SumIsOf DEF IsSumOf, Added

\* The order in which elements are added does not matter.
LEMMA SumTake ==
  ASSUME NEW f, NEW S, IsFiniteSet(S), \A x \in S : f[x] \in Int
  PROVE  /\ SumFunctionOnSet(f, S) \in Int
         /\ \A x \in S : SumFunctionOnSet(f, S) = f[x] + SumFunctionOnSet(f, S \ {x})
<1> DEFINE Sum(u) == SumFunctionOnSet(f, u)
           Good(u) == Sum(u) \in Int /\ \A x \in u : Sum(u) = f[x] + Sum(u \ {x})
           Bad == {u \in SUBSET S : ~Good(u)}
<1> SUFFICES ASSUME Bad # {} PROVE FALSE
  OBVIOUS
<1>1. PICK u \in Bad : \A v \in (SUBSET u) \ {u} : v \notin Bad
  <2>1. Bad \in SUBSET SUBSET S
    OBVIOUS
  <2> HIDE DEF Bad
  <2> QED
    BY <2>1, MinimalSubset
<1>2. u \in SUBSET S /\ IsFiniteSet(u) /\ \A x \in u : f[x] \in Int
  BY FS_Subset
<1>3. \A v \in (SUBSET u) \ {u} : Good(v)
  BY <1>1, <1>2
<1>4. u # {}
  <2>1. Good({})
    BY SumEmpty
  <2> QED
    BY <2>1
<1> DEFINE c == Foremost(u)
<1>5. c \in u /\ Sum(u) = f[c] + Sum(u \ {c})
  BY <1>2, <1>4, SumFirst
<1>6. Good(u \ {c})
  BY <1>3, <1>5
<1>7. ASSUME NEW x \in u PROVE Sum(u) = f[x] + Sum(u \ {x})
  <2>1. CASE x = c
    BY <1>5, <2>1
  <2>2. CASE x # c
    <3> DEFINE rest == (u \ {c}) \ {x}
    <3>1. Sum(u \ {c}) = f[x] + Sum(rest)
      BY <1>6, <2>2
    <3>2. rest = (u \ {x}) \ {c} /\ Good(rest) /\ Good(u \ {x})
      BY <1>3, <1>5
    <3>3. Sum(u \ {x}) = f[c] + Sum(rest)
      BY <1>5, <2>2, <3>2
    <3>4. f[x] \in Int /\ f[c] \in Int /\ Sum(rest) \in Int
      BY <1>2, <1>5, <3>2
    <3> HIDE DEF Sum, rest, c
    <3> QED
      BY <1>5, <3>1, <3>3, <3>4
  <2> QED
    BY <2>1, <2>2
<1>8. Sum(u) \in Int
  BY <1>2, <1>5, <1>6
<1>9. Good(u)
  BY <1>7, <1>8
<1> QED
  BY <1>1, <1>9

\* A term is added.
LEMMA SumAdd ==
  ASSUME NEW f, NEW S, IsFiniteSet(S), NEW x, x \notin S, \A y \in S \cup {x} : f[y] \in Int
  PROVE  SumFunctionOnSet(f, S \cup {x}) = SumFunctionOnSet(f, S) + f[x]
<1> DEFINE T == S \cup {x}
<1>1. IsFiniteSet(T) /\ T \ {x} = S /\ x \in T /\ \A y \in T : f[y] \in Int
  BY FS_AddElement
<1>2. SumFunctionOnSet(f, S) \in Int /\ f[x] \in Int
  BY SumTake
<1> HIDE DEF T
<1>3. SumFunctionOnSet(f, T) = f[x] + SumFunctionOnSet(f, S)
  <2>1. SumFunctionOnSet(f, T) = f[x] + SumFunctionOnSet(f, T \ {x})
    BY <1>1, SumTake
  <2> QED
    BY <1>1, <2>1, Zenon
<1>4. SumFunctionOnSet(f, T) = SumFunctionOnSet(f, S) + f[x]
  BY <1>2, <1>3
<1> QED
  BY <1>4 DEF T

\* Sums compare as their terms do.
LEMMA SumMonotonic ==
  ASSUME NEW f, NEW g, NEW S, IsFiniteSet(S), 
         \A x \in S : f[x] \in Int /\ g[x] \in Int /\ f[x] <= g[x]
  PROVE  SumFunctionOnSet(f, S) <= SumFunctionOnSet(g, S)
<1> DEFINE Bad == {u \in SUBSET S : ~(SumFunctionOnSet(f, u) <= SumFunctionOnSet(g, u))}
<1> SUFFICES ASSUME Bad # {} PROVE FALSE
  OBVIOUS
<1>1. PICK u \in Bad : \A v \in (SUBSET u) \ {u} : v \notin Bad
  <2>1. Bad \in SUBSET SUBSET S
    OBVIOUS
  <2> HIDE DEF Bad
  <2> QED
    BY <2>1, MinimalSubset
<1>2. u # {}
  BY SumEmpty
<1>3. PICK x \in u : TRUE
  BY <1>2
<1>4. /\ IsFiniteSet(u) /\ IsFiniteSet(u \ {x})
      /\ SumFunctionOnSet(f, u \ {x}) <= SumFunctionOnSet(g, u \ {x})
  BY <1>1, FS_Subset
<1>5. /\ SumFunctionOnSet(f, u) = f[x] + SumFunctionOnSet(f, u \ {x})
      /\ SumFunctionOnSet(g, u) = g[x] + SumFunctionOnSet(g, u \ {x})
      /\ SumFunctionOnSet(f, u \ {x}) \in Int /\ SumFunctionOnSet(g, u \ {x}) \in Int
  BY <1>4, SumTake
<1>6. f[x] \in Int /\ g[x] \in Int /\ f[x] <= g[x]
  OBVIOUS
<1> QED
  BY <1>4, <1>5, <1>6

\* Sums of equal terms are equal.
LEMMA SumEqual ==
  ASSUME NEW f, NEW g, NEW S, IsFiniteSet(S), \A x \in S : f[x] \in Int /\ g[x] = f[x]
  PROVE  SumFunctionOnSet(g, S) = SumFunctionOnSet(f, S)
<1>1. SumFunctionOnSet(f, S) \in Int /\ SumFunctionOnSet(g, S) \in Int
  BY SumTake
<1>2. \A x \in S : f[x] \in Int /\ g[x] \in Int /\ f[x] <= g[x] /\ g[x] <= f[x]
  OBVIOUS
<1>3. SumFunctionOnSet(f, S) <= SumFunctionOnSet(g, S)
  BY <1>2, SumMonotonic
<1>4. SumFunctionOnSet(g, S) <= SumFunctionOnSet(f, S)
  BY <1>2, SumMonotonic
<1> QED
  BY <1>1, <1>3, <1>4

\* One term changes.
LEMMA SumChange ==
  ASSUME NEW f, NEW g, NEW S, IsFiniteSet(S), NEW x \in S,
         \A y \in S : f[y] \in Int /\ g[y] \in Int,
         \A y \in S \ {x} : g[y] = f[y]
  PROVE  SumFunctionOnSet(g, S) = SumFunctionOnSet(f, S) - f[x] + g[x]
<1>1. IsFiniteSet(S \ {x})
  BY FS_Subset
<1>2. SumFunctionOnSet(g, S \ {x}) = SumFunctionOnSet(f, S \ {x})
  BY <1>1, SumEqual
<1>3. /\ SumFunctionOnSet(f, S) = f[x] + SumFunctionOnSet(f, S \ {x})
      /\ SumFunctionOnSet(g, S) = g[x] + SumFunctionOnSet(g, S \ {x})
      /\ SumFunctionOnSet(f, S \ {x}) \in Int
  BY <1>1, SumTake
<1>4. f[x] \in Int /\ g[x] \in Int
  OBVIOUS
<1> QED
  BY <1>2, <1>3, <1>4

\* A sum of zeros.
LEMMA SumZero ==
  ASSUME NEW f, NEW S, IsFiniteSet(S), \A x \in S : f[x] = 0
  PROVE  SumFunctionOnSet(f, S) = 0
<1> DEFINE Bad == {u \in SUBSET S : SumFunctionOnSet(f, u) # 0}
<1> SUFFICES ASSUME Bad # {} PROVE FALSE
  OBVIOUS
<1>1. PICK u \in Bad : \A v \in (SUBSET u) \ {u} : v \notin Bad
  <2>1. Bad \in SUBSET SUBSET S
    OBVIOUS
  <2> HIDE DEF Bad
  <2> QED
    BY <2>1, MinimalSubset
<1>2. u # {}
  BY SumEmpty
<1>3. PICK x \in u : TRUE
  BY <1>2
<1>4. IsFiniteSet(u) /\ SumFunctionOnSet(f, u \ {x}) = 0
  BY <1>1, FS_Subset
<1>5. SumFunctionOnSet(f, u) = f[x] + SumFunctionOnSet(f, u \ {x})
  BY <1>4, SumTake
<1> QED
  BY <1>4, <1>5

\* A sum of naturals.
LEMMA SumNat ==
  ASSUME NEW f, NEW S, IsFiniteSet(S), \A x \in S : f[x] \in Nat
  PROVE  SumFunctionOnSet(f, S) \in Nat
<1> DEFINE zero == [x \in S |-> 0]
<1>1. SumFunctionOnSet(zero, S) = 0
  BY SumZero
<1>2. SumFunctionOnSet(zero, S) <= SumFunctionOnSet(f, S)
  BY SumMonotonic
<1>3. SumFunctionOnSet(f, S) \in Int
  BY SumTake
<1> QED
  BY <1>1, <1>2, <1>3

\* A part of a sum of naturals, and a term of it, are no more than the sum.
LEMMA SumPart ==
  ASSUME NEW f, NEW S, IsFiniteSet(S), \A x \in S : f[x] \in Nat, NEW T \in SUBSET S
  PROVE  SumFunctionOnSet(f, T) <= SumFunctionOnSet(f, S)
<1> DEFINE Bad == {u \in SUBSET S : T \subseteq u /\ ~(SumFunctionOnSet(f, T) <= SumFunctionOnSet(f, u))}
<1> SUFFICES ASSUME Bad # {} PROVE FALSE
  OBVIOUS
<1>1. PICK u \in Bad : \A v \in (SUBSET u) \ {u} : v \notin Bad
  <2>1. Bad \in SUBSET SUBSET S
    OBVIOUS
  <2> HIDE DEF Bad
  <2> QED
    BY <2>1, MinimalSubset
<1>2. IsFiniteSet(T) /\ IsFiniteSet(u)
  BY FS_Subset
<1>3. SumFunctionOnSet(f, T) \in Nat
  BY <1>2, SumNat
<1>4. u # T
  BY <1>3
<1>5. PICK x \in u : x \notin T
  BY <1>4
<1>6. SumFunctionOnSet(f, T) <= SumFunctionOnSet(f, u \ {x})
  BY <1>1, <1>5
<1>7. /\ SumFunctionOnSet(f, u) = f[x] + SumFunctionOnSet(f, u \ {x})
      /\ SumFunctionOnSet(f, u \ {x}) \in Nat
  BY <1>2, SumTake, SumNat, FS_Subset
<1>8. f[x] \in Nat
  OBVIOUS
<1> QED
  BY <1>3, <1>6, <1>7, <1>8

LEMMA SumTerm ==
  ASSUME NEW f, NEW S, IsFiniteSet(S), \A x \in S : f[x] \in Nat, NEW x \in S
  PROVE  f[x] <= SumFunctionOnSet(f, S)
<1>1. SumFunctionOnSet(f, S) = f[x] + SumFunctionOnSet(f, S \ {x})
  BY SumTake
<1>2. SumFunctionOnSet(f, S \ {x}) \in Nat
  BY FS_Subset, SumNat
<1> QED
  BY <1>1, <1>2

\* A function on 1..n gets one more value.
LEMMA SumExtend ==
  ASSUME NEW n \in Nat, NEW f, NEW g, DOMAIN f = 1..n, DOMAIN g = 1..(n + 1),
         \A i \in 1..n : f[i] \in Int /\ g[i] = f[i], g[n + 1] \in Int
  PROVE  SumFunction(g) = SumFunction(f) + g[n + 1]
<1>1. IsFiniteSet(1..n) /\ 1..(n + 1) = (1..n) \cup {n + 1} /\ (n + 1) \notin 1..n
  <2>1. IsFiniteSet(1..n)
    BY FS_Interval
  <2>2. 1..(n + 1) = (1..n) \cup {n + 1} /\ (n + 1) \notin 1..n
    OBVIOUS
  <2> QED
    BY <2>1, <2>2
<1>2. \A i \in (1..n) \cup {n + 1} : g[i] \in Int
  OBVIOUS
<1>3. SumFunctionOnSet(g, (1..n) \cup {n + 1}) = SumFunctionOnSet(g, 1..n) + g[n + 1]
  BY <1>1, <1>2, SumAdd
<1>4. SumFunctionOnSet(g, 1..n) = SumFunctionOnSet(f, 1..n)
  BY <1>1, SumEqual
<1>5. SumFunctionOnSet(g, 1..(n + 1)) = SumFunctionOnSet(f, 1..n) + g[n + 1]
  BY <1>1, <1>3, <1>4, Zenon
<1> QED
  BY <1>5 DEF SumFunction

\* A nonempty set of naturals has a least member.
LEMMA LeastNumber ==
  ASSUME NEW S \in SUBSET Nat, S # {}
  PROVE  \E n \in S : \A m \in S : n <= m
<1> DEFINE R == OpToRel(<, Nat)
<1>1. \A m, n \in Nat : m < n => <<m, n>> \in R
  BY DEF OpToRel
<1>2. IsWellFoundedOn(R, Nat)
  BY NatLessThanWellFounded
<1> HIDE DEF R
<1>3. \E n \in S : \A m \in S : ~(<<m, n>> \in R)
  BY <1>2, WFMin
<1>4. PICK n \in S : \A m \in S : ~(<<m, n>> \in R)
  BY <1>3
<1>5. \A m \in S : ~(m < n)
  BY <1>1, <1>4
<1>6. \A m \in S : m \in Nat /\ n \in Nat
  OBVIOUS
<1>7. \A m \in S : n <= m
  BY <1>5, <1>6
<1> QED
  BY <1>7

\* Every element of a sequence is of the set the sequence is over.
LEMMA ElementsOf ==
  ASSUME NEW S, NEW s \in Seq(S)
  PROVE  \A i \in DOMAIN s : s[i] \in S
<1>1. DOMAIN s = 1..Len(s)
  OBVIOUS
<1>2. \A i \in 1..Len(s) : s[i] \in S
  OBVIOUS
<1> QED
  BY <1>1, <1>2

\* Sums add up term by term.
LEMMA SumPlus ==
  ASSUME NEW f, NEW g, NEW h, NEW S, IsFiniteSet(S),
         \A x \in S : f[x] \in Int /\ g[x] \in Int /\ h[x] = f[x] + g[x]
  PROVE  SumFunctionOnSet(h, S) = SumFunctionOnSet(f, S) + SumFunctionOnSet(g, S)
<1> DEFINE Bad == {u \in SUBSET S :
                     SumFunctionOnSet(h, u) # SumFunctionOnSet(f, u) + SumFunctionOnSet(g, u)}
<1> SUFFICES ASSUME Bad # {} PROVE FALSE
  OBVIOUS
<1>1. PICK u \in Bad : \A v \in (SUBSET u) \ {u} : v \notin Bad
  <2>1. Bad \in SUBSET SUBSET S
    OBVIOUS
  <2> HIDE DEF Bad
  <2> QED
    BY <2>1, MinimalSubset
<1>2. u # {}
  <2>1. /\ SumFunctionOnSet(f, {}) = 0
        /\ SumFunctionOnSet(g, {}) = 0
        /\ SumFunctionOnSet(h, {}) = 0
    BY SumEmpty
  <2>2. SumFunctionOnSet(h, {}) = SumFunctionOnSet(f, {}) + SumFunctionOnSet(g, {})
    BY <2>1
  <2>3. SumFunctionOnSet(h, u) # SumFunctionOnSet(f, u) + SumFunctionOnSet(g, u)
    OBVIOUS
  <2> HIDE DEF Bad
  <2> QED
    BY <2>2, <2>3, Zenon
<1>3. PICK x \in u : TRUE
  BY <1>2
<1>4. IsFiniteSet(u) /\ IsFiniteSet(u \ {x}) /\ u \ {x} \in (SUBSET S) \ Bad
  BY <1>1, FS_Subset
<1>5. /\ SumFunctionOnSet(f, u) = f[x] + SumFunctionOnSet(f, u \ {x})
      /\ SumFunctionOnSet(g, u) = g[x] + SumFunctionOnSet(g, u \ {x})
      /\ SumFunctionOnSet(h, u) = h[x] + SumFunctionOnSet(h, u \ {x})
      /\ SumFunctionOnSet(f, u \ {x}) \in Int /\ SumFunctionOnSet(g, u \ {x}) \in Int
  BY <1>4, SumTake
<1>6. SumFunctionOnSet(h, u \ {x}) = SumFunctionOnSet(f, u \ {x}) + SumFunctionOnSet(g, u \ {x})
  BY <1>4
<1> QED
  BY <1>5, <1>6

\* A factor of every term is a factor of the sum.
LEMMA SumScale ==
  ASSUME NEW f, NEW g, NEW S, NEW c \in Int, IsFiniteSet(S),
         \A x \in S : f[x] \in Int /\ g[x] = c * f[x]
  PROVE  SumFunctionOnSet(g, S) = c * SumFunctionOnSet(f, S)
<1> DEFINE Bad == {u \in SUBSET S : SumFunctionOnSet(g, u) # c * SumFunctionOnSet(f, u)}
<1> SUFFICES ASSUME Bad # {} PROVE FALSE
  OBVIOUS
<1>1. PICK u \in Bad : \A v \in (SUBSET u) \ {u} : v \notin Bad
  <2>1. Bad \in SUBSET SUBSET S
    OBVIOUS
  <2> HIDE DEF Bad
  <2> QED
    BY <2>1, MinimalSubset
<1>2. u # {}
  <2>1. SumFunctionOnSet(f, {}) = 0 /\ SumFunctionOnSet(g, {}) = 0
    BY SumEmpty
  <2>2. c * 0 = 0
    OBVIOUS
  <2> QED
    BY <2>1, <2>2
<1>3. PICK x \in u : TRUE
  BY <1>2
<1>4. IsFiniteSet(u) /\ IsFiniteSet(u \ {x}) /\ u \ {x} \in (SUBSET S) \ Bad
  BY <1>1, FS_Subset
<1>5. \A y \in u : f[y] \in Int /\ g[y] \in Int
  OBVIOUS
<1>6. /\ SumFunctionOnSet(f, u) = f[x] + SumFunctionOnSet(f, u \ {x})
      /\ SumFunctionOnSet(g, u) = g[x] + SumFunctionOnSet(g, u \ {x})
      /\ SumFunctionOnSet(f, u \ {x}) \in Int
  BY <1>4, <1>5, SumTake
<1>7. SumFunctionOnSet(g, u \ {x}) = c * SumFunctionOnSet(f, u \ {x}) /\ g[x] = c * f[x]
  BY <1>4
<1>8. \A a, b \in Int : c * (a + b) = c * a + c * b
  OBVIOUS
<1>9. c * SumFunctionOnSet(f, u) = c * f[x] + c * SumFunctionOnSet(f, u \ {x})
  BY <1>5, <1>6, <1>8
<1> QED
  BY <1>6, <1>7, <1>9

\* Terms of zero need not be added.
LEMMA SumOutside ==
  ASSUME NEW f, NEW S, IsFiniteSet(S), NEW T \in SUBSET S,
         \A x \in S : f[x] \in Int, \A x \in S \ T : f[x] = 0
  PROVE  SumFunctionOnSet(f, S) = SumFunctionOnSet(f, T)
<1> DEFINE Bad == {u \in SUBSET S :
                     T \subseteq u /\ SumFunctionOnSet(f, u) # SumFunctionOnSet(f, T)}
<1> SUFFICES ASSUME Bad # {} PROVE FALSE
  OBVIOUS
<1>1. PICK u \in Bad : \A v \in (SUBSET u) \ {u} : v \notin Bad
  <2>1. Bad \in SUBSET SUBSET S
    OBVIOUS
  <2> HIDE DEF Bad
  <2> QED
    BY <2>1, MinimalSubset
<1>2. PICK x \in u : x \notin T
  OBVIOUS
<1>3. IsFiniteSet(u) /\ IsFiniteSet(u \ {x}) /\ SumFunctionOnSet(f, u \ {x}) = SumFunctionOnSet(f, T)
  BY <1>1, <1>2, FS_Subset
<1>4. /\ SumFunctionOnSet(f, u) = f[x] + SumFunctionOnSet(f, u \ {x})
      /\ SumFunctionOnSet(f, u \ {x}) \in Int /\ f[x] = 0
  BY <1>2, <1>3, SumTake
<1> QED
  BY <1>3, <1>4

\* A sum of ones and zeros counts the ones.
LEMMA SumCount ==
  ASSUME NEW f, NEW S, IsFiniteSet(S), NEW T \in SUBSET S,
         \A x \in S : f[x] = IF x \in T THEN 1 ELSE 0
  PROVE  SumFunctionOnSet(f, S) = Cardinality(T)
<1> DEFINE Bad == {u \in SUBSET S : SumFunctionOnSet(f, u) # Cardinality(u \cap T)}
<1>0. Cardinality({} \cap T) = 0
  BY FS_EmptySet
<1>a. Cardinality(S \cap T) = Cardinality(T)
  <2>1. S \cap T = T
    OBVIOUS
  <2> QED
    BY <2>1, Zenon
<1> SUFFICES ASSUME Bad # {} PROVE FALSE
  BY <1>a
<1>1. PICK u \in Bad : \A v \in (SUBSET u) \ {u} : v \notin Bad
  <2>1. Bad \in SUBSET SUBSET S
    OBVIOUS
  <2> HIDE DEF Bad
  <2> QED
    BY <2>1, MinimalSubset
<1>2. u # {}
  BY <1>0, SumEmpty
<1>3. PICK x \in u : TRUE
  BY <1>2
<1>4. IsFiniteSet(u) /\ IsFiniteSet(u \ {x}) /\ u \ {x} \in (SUBSET S) \ Bad
  BY <1>1, FS_Subset
<1>5. SumFunctionOnSet(f, u) = f[x] + SumFunctionOnSet(f, u \ {x})
  BY <1>4, SumTake
<1>6. SumFunctionOnSet(f, u \ {x}) = Cardinality((u \ {x}) \cap T)
  BY <1>4
<1>7. IsFiniteSet((u \ {x}) \cap T) /\ Cardinality((u \ {x}) \cap T) \in Nat
  BY <1>4, FS_Subset, FS_CardinalityType
<1>8. CASE x \in T
  <2>1. u \cap T = ((u \ {x}) \cap T) \cup {x} /\ x \notin (u \ {x}) \cap T
    BY <1>8
  <2>2. Cardinality(((u \ {x}) \cap T) \cup {x}) = Cardinality((u \ {x}) \cap T) + 1
    BY <1>7, <2>1, FS_AddElement
  <2>3. Cardinality(u \cap T) = Cardinality((u \ {x}) \cap T) + 1
    BY <2>1, <2>2, Zenon
  <2> QED
    BY <1>5, <1>6, <1>7, <1>8, <2>3
<1>9. CASE x \notin T
  <2>1. u \cap T = (u \ {x}) \cap T
    BY <1>9
  <2>2. Cardinality(u \cap T) = Cardinality((u \ {x}) \cap T)
    BY <2>1, Zenon
  <2> QED
    BY <1>5, <1>6, <1>7, <1>9, <2>2
<1> QED
  BY <1>8, <1>9

-----------------------------------------------------------------------------
(* Elements in order                                                       *)

\* R orders S: each pair one way, and along chains.
Orders(R, S) ==
  /\ \A x \in S : <<x, x>> \notin R
  /\ \A x, y \in S : x # y => <<x, y>> \in R \/ <<y, x>> \in R
  /\ \A x, y, z \in S : <<x, y>> \in R /\ <<y, z>> \in R => <<x, z>> \in R

Before(R, S, x) == {y \in S : <<y, x>> \in R}

\* Fewer come before what comes before.
LEMMA BeforeGrows ==
  ASSUME NEW R, NEW S, IsFiniteSet(S), Orders(R, S), NEW x \in S, NEW y \in S, <<y, x>> \in R
  PROVE  /\ Before(R, S, y) \in (SUBSET Before(R, S, x)) \ {Before(R, S, x)}
         /\ Cardinality(Before(R, S, y)) \in Nat /\ Cardinality(Before(R, S, x)) \in Nat
         /\ Cardinality(Before(R, S, y)) < Cardinality(Before(R, S, x))
<1>1. Before(R, S, y) \in (SUBSET Before(R, S, x)) \ {Before(R, S, x)}
  BY DEF Before, Orders
<1>2. IsFiniteSet(Before(R, S, x))
  BY FS_Subset DEF Before
<1>3. /\ Cardinality(Before(R, S, y)) <= Cardinality(Before(R, S, x))
      /\ Cardinality(Before(R, S, y)) # Cardinality(Before(R, S, x))
      /\ IsFiniteSet(Before(R, S, y))
  BY <1>1, <1>2, FS_Subset
<1>4. Cardinality(Before(R, S, y)) \in Nat /\ Cardinality(Before(R, S, x)) \in Nat
  BY <1>2, <1>3, FS_CardinalityType
<1> QED
  BY <1>1, <1>3, <1>4

\* What is ordered has a first element.
LEMMA FirstElement ==
  ASSUME NEW R, NEW S, IsFiniteSet(S), Orders(R, S), NEW T \in SUBSET S, T # {}
  PROVE  \E m \in T : \A y \in T : <<y, m>> \notin R
<1> DEFINE F == {Before(R, S, x) : x \in T}
<1>1. F \in SUBSET SUBSET S /\ F # {}
  BY DEF Before
<1>2. PICK U \in F : \A V \in (SUBSET U) \ {U} : V \notin F
  <2> HIDE DEF F
  <2> QED
    BY <1>1, MinimalSubset
<1>3. PICK m \in T : U = Before(R, S, m)
  OBVIOUS
<1>4. ASSUME NEW y \in T, <<y, m>> \in R PROVE FALSE
  BY <1>2, <1>3, <1>4, BeforeGrows
<1> QED
  BY <1>4

\* As many have fewer than k before them as k, and one has exactly k.
LEMMA Ranked ==
  ASSUME NEW R, NEW S, IsFiniteSet(S), Orders(R, S)
  PROVE  /\ \A k \in 0..Cardinality(S) :
              Cardinality({x \in S : Cardinality(Before(R, S, x)) < k}) = k
         /\ \A k \in 0..(Cardinality(S) - 1) : \E x \in S : Cardinality(Before(R, S, x)) = k
<1> DEFINE n == Cardinality(S)
           rank(x) == Cardinality(Before(R, S, x))
           Low(k) == {x \in S : rank(x) < k}
<1>1. n \in Nat
  BY FS_CardinalityType
<1>2. \A x \in S : rank(x) \in Nat
  BY FS_Subset, FS_CardinalityType DEF Before
<1>3. \A x, y \in S : <<y, x>> \in R => rank(y) < rank(x)
  BY BeforeGrows
<1>4. \A k : IsFiniteSet(Low(k)) /\ Cardinality(Low(k)) \in Nat
  BY FS_Subset, FS_CardinalityType
<1> HIDE DEF rank, n
<1>5. ASSUME NEW k \in 0..(n - 1), Cardinality(Low(k)) = k
      PROVE  \E m \in S : rank(m) = k /\ Low(k + 1) = Low(k) \cup {m} /\ m \notin Low(k)
  <2>1. S \ Low(k) # {}
    <3>1. Low(k) # S
      BY <1>1, <1>5 DEF n
    <3> QED
      BY <3>1
  <2>2. PICK m \in S \ Low(k) : \A y \in S \ Low(k) : <<y, m>> \notin R
    BY <2>1, FirstElement
  <2>3. ASSUME NEW x \in Low(k) PROVE <<x, m>> \in R
    <3>1. rank(x) < k /\ ~(rank(m) < k) /\ rank(x) \in Nat /\ rank(m) \in Nat
      BY <1>2, <2>2
    <3>2. ~(rank(m) < rank(x)) /\ x # m
      BY <1>1, <3>1
    <3> QED
      BY <1>3, <2>2, <3>2 DEF Orders
  <2>4. Before(R, S, m) = Low(k)
    BY <2>2, <2>3 DEF Before
  <2>5. rank(m) = k
    BY <1>5, <2>4, Zenon DEF rank
  <2>6. ASSUME NEW x \in S PROVE rank(x) < k + 1 <=> (rank(x) < k \/ x = m)
    <3>1. rank(x) = k => x = m
      BY <1>2, <1>3, <2>2, <2>5 DEF Orders
    <3>2. rank(x) \in Nat
      BY <1>2
    <3> QED
      BY <1>1, <2>5, <3>1, <3>2
  <2> QED
    BY <2>2, <2>5, <2>6
<1>6. \A k \in 0..n : Cardinality(Low(k)) = k
  <2> DEFINE Bad == {k \in 0..n : Cardinality(Low(k)) # k}
  <2> SUFFICES ASSUME Bad # {} PROVE FALSE
    OBVIOUS
  <2>1. PICK k \in Bad : \A j \in Bad : k <= j
    <3>1. Bad \in SUBSET Nat
      BY <1>1
    <3> HIDE DEF Bad
    <3> QED
      BY <3>1, LeastNumber
  <2>2. k # 0
    <3>1. Low(0) = {}
      BY <1>2
    <3>2. Cardinality(Low(0)) = 0
      BY <3>1, FS_EmptySet, Zenon
    <3> QED
      BY <3>2
  <2> DEFINE j == k - 1
  <2>3. j \in 0..(n - 1) /\ j \in 0..n /\ k = j + 1 /\ ~(k <= j)
    BY <1>1, <2>2
  <2>4. Cardinality(Low(j)) = j
    BY <2>1, <2>3
  <2> HIDE DEF j
  <2>5. PICK m \in S : Low(j + 1) = Low(j) \cup {m} /\ m \notin Low(j)
    BY <1>5, <2>3, <2>4
  <2> HIDE DEF Low
  <2>6. Cardinality(Low(j) \cup {m}) = j + 1
    BY <1>4, <2>4, <2>5, FS_AddElement
  <2>7. Cardinality(Low(k)) = k
    BY <2>3, <2>5, <2>6, Zenon
  <2> QED
    BY <2>7
<1>7. \A k \in 0..(n - 1) : \E x \in S : rank(x) = k
  <2> SUFFICES ASSUME NEW k \in 0..(n - 1) PROVE \E x \in S : rank(x) = k
    OBVIOUS
  <2>1. Cardinality(Low(k)) = k
    BY <1>1, <1>6
  <2> QED
    BY <1>5, <2>1
<1> QED
  BY <1>6, <1>7 DEF n, rank

\* In a finite set of numbers, the n-th exists, and a larger one comes later.
LEMMA Placed ==
  ASSUME NEW K \in SUBSET Int, IsFiniteSet(K)
  PROVE  /\ \A n \in 1..Cardinality(K) : \E e \in K : Cardinality({f \in K : f <= e}) = n
         /\ \A e \in K : Cardinality({f \in K : f <= e}) \in 1..Cardinality(K)
         /\ \A d, e \in K :
              d < e => Cardinality({f \in K : f <= d}) < Cardinality({f \in K : f <= e})
<1> DEFINE R == {p \in K \X K : p[1] < p[2]}
           rank(e) == Cardinality(Before(R, K, e))
           place(e) == Cardinality({f \in K : f <= e})
<1>1. Orders(R, K) /\ \A x, y \in K : <<y, x>> \in R <=> y < x
  BY DEF Orders
<1>2. Cardinality(K) \in Nat
  BY FS_CardinalityType
<1> HIDE DEF R
<1>3. ASSUME NEW e \in K
      PROVE  /\ place(e) = rank(e) + 1 /\ rank(e) \in Nat
             /\ place(e) <= Cardinality(K)
  <2>1. {f \in K : f <= e} = Before(R, K, e) \cup {e}
    <3>1. Before(R, K, e) = {f \in K : f < e}
      BY <1>1 DEF Before
    <3>2. \A f \in K : f \in Int /\ e \in Int /\ (f <= e <=> f < e \/ f = e)
      OBVIOUS
    <3> QED
      BY <3>1, <3>2
  <2>2. e \notin Before(R, K, e) /\ IsFiniteSet(Before(R, K, e))
    <3>1. e \notin Before(R, K, e) /\ Before(R, K, e) \subseteq K
      BY <1>1 DEF Before
    <3> QED
      BY <3>1, FS_Subset
  <2>3. Cardinality(Before(R, K, e) \cup {e}) = rank(e) + 1 /\ rank(e) \in Nat
    BY <2>2, FS_AddElement, FS_CardinalityType
  <2>4. place(e) = rank(e) + 1
    BY <2>1, <2>3
  <2>5. {f \in K : f <= e} \subseteq K
    OBVIOUS
  <2>6. place(e) <= Cardinality(K)
    BY <2>5, FS_Subset
  <2> QED
    BY <2>3, <2>4, <2>6
<1>4. \A n \in 1..Cardinality(K) : \E e \in K : place(e) = n
  <2> SUFFICES ASSUME NEW n \in 1..Cardinality(K) PROVE \E e \in K : place(e) = n
    OBVIOUS
  <2>1. n - 1 \in 0..(Cardinality(K) - 1)
    BY <1>2
  <2>2. PICK e \in K : rank(e) = n - 1
    BY <1>1, <2>1, Ranked
  <2> QED
    BY <1>3, <2>2
<1>5. \A e \in K : place(e) \in 1..Cardinality(K)
  BY <1>2, <1>3
<1>6. \A d, e \in K : d < e => place(d) < place(e)
  <2> SUFFICES ASSUME NEW d \in K, NEW e \in K, d < e PROVE place(d) < place(e)
    OBVIOUS
  <2>1. rank(d) < rank(e)
    BY <1>1, BeforeGrows
  <2> HIDE DEF rank, place
  <2> QED
    BY <1>3, <2>1
<1> QED
  BY <1>4, <1>5, <1>6

\* The images of finitely many elements are finitely many.
LEMMA FiniteImage ==
  ASSUME NEW g, NEW S, IsFiniteSet(S)
  PROVE  IsFiniteSet({g[x] : x \in S})
<1> DEFINE T == {g[x] : x \in S}
           image == [x \in S |-> g[x]]
<1>1. image \in Surjection(S, T)
  BY DEF Surjection
<1> HIDE DEF image, T
<1>2. IsFiniteSet(T)
  BY <1>1, FS_Surjection
<1> QED
  BY <1>2 DEF T

\* A sum over the images of distinct elements is the sum over the elements.
LEMMA SumReindex ==
  ASSUME NEW f, NEW g, NEW h, NEW S, IsFiniteSet(S),
         \A x \in S : f[x] \in Int /\ h[g[x]] = f[x],
         \A x, y \in S : g[x] = g[y] => x = y
  PROVE  SumFunctionOnSet(h, {g[x] : x \in S}) = SumFunctionOnSet(f, S)
<1> DEFINE Image(u) == {g[x] : x \in u}
           Bad == {u \in SUBSET S : SumFunctionOnSet(h, Image(u)) # SumFunctionOnSet(f, u)}
<1> SUFFICES ASSUME Bad # {} PROVE FALSE
  OBVIOUS
<1>1. PICK u \in Bad : \A v \in (SUBSET u) \ {u} : v \notin Bad
  <2>1. Bad \in SUBSET SUBSET S
    OBVIOUS
  <2> HIDE DEF Bad
  <2> QED
    BY <2>1, MinimalSubset
<1>2. u # {}
  <2>1. SumFunctionOnSet(h, Image({})) = 0 /\ SumFunctionOnSet(f, {}) = 0
    <3>1. Image({}) = {}
      OBVIOUS
    <3> HIDE DEF Image
    <3>2. SumFunctionOnSet(h, Image({})) = SumFunctionOnSet(h, {})
      BY <3>1, Zenon
    <3> QED
      BY <3>2, SumEmpty
  <2> QED
    BY <2>1
<1>3. PICK x \in u : TRUE
  BY <1>2
<1> DEFINE v == u \ {x}
<1>4. /\ u \subseteq S /\ x \in S /\ v \subseteq S /\ u = v \cup {x} /\ x \notin v
      /\ v \in (SUBSET u) \ {u}
  OBVIOUS
<1>5. SumFunctionOnSet(h, Image(v)) = SumFunctionOnSet(f, v)
  BY <1>1, <1>4
<1>6. Image(u) = Image(v) \cup {g[x]} /\ g[x] \notin Image(v)
  BY <1>4
<1>7. IsFiniteSet(v) /\ IsFiniteSet(Image(v))
  <2>1. IsFiniteSet(v)
    BY <1>4, FS_Subset
  <2> HIDE DEF v
  <2> QED
    BY <2>1, FiniteImage DEF Image
<1>8. \A y \in v \cup {x} : f[y] \in Int
  BY <1>4
<1>9. \A y \in Image(v) \cup {g[x]} : h[y] \in Int
  BY <1>4
<1> HIDE DEF v, Image
<1>10. SumFunctionOnSet(f, v \cup {x}) = SumFunctionOnSet(f, v) + f[x]
  BY <1>4, <1>7, <1>8, SumAdd
<1>11. SumFunctionOnSet(h, Image(v) \cup {g[x]}) = SumFunctionOnSet(h, Image(v)) + h[g[x]]
  BY <1>6, <1>7, <1>9, SumAdd
<1>12. SumFunctionOnSet(h, Image(u)) = SumFunctionOnSet(h, Image(v) \cup {g[x]})
  BY <1>6, Zenon
<1>13. SumFunctionOnSet(f, u) = SumFunctionOnSet(f, v \cup {x})
  BY <1>4, Zenon
<1>14. h[g[x]] = f[x]
  BY <1>4
<1>15. SumFunctionOnSet(h, Image(u)) = SumFunctionOnSet(f, u)
  BY <1>5, <1>10, <1>11, <1>12, <1>13, <1>14
<1> QED
  BY <1>15

=============================================================================
