---------------------------- MODULE SumTheorems ----------------------------
(***************************************************************************)
(* What the sums of the models compute, for any finite set of terms.  The  *)
(* code adds up rows of spend, audit events and squared errors; the models *)
(* write SumFunction of Functions.tla for that, and these lemmas let the   *)
(* proofs about them take a sum apart.                                     *)
(*                                                                         *)
(* The induction is over sets of good subsets (FiniteSetInduction), which  *)
(* needs no operator as a parameter: the least of the bad subsets, which   *)
(* FS_StrictSubsetOrderingWellFounded provides, has a smaller good one.    *)
(***************************************************************************)
EXTENDS Integers, Functions, FiniteSetTheorems, WellFoundedInduction, TLAPS

-----------------------------------------------------------------------------
(* Induction.                                                              *)

\* A set of subsets of a finite set has one that contains no other.
LEMMA LeastSet ==
    ASSUME NEW S, IsFiniteSet(S), NEW T, T \subseteq SUBSET S, T # {}
    PROVE  \E x \in T : \A y \in T : ~(y \subseteq x /\ y # x)
<1>. DEFINE R == StrictSubsetOrdering(S)
            D == FiniteSubsetsOf(S)
<1>1. IsWellFoundedOn(R, D)
  BY FS_StrictSubsetOrderingWellFounded
<1>2. T \subseteq D
  BY FS_Subset DEF FiniteSubsetsOf
<1>. HIDE DEF R, D
<1>3. \E x \in T : \A y \in T : <<y, x>> \notin R
  BY <1>1, <1>2, WFMin
<1>. QED
  BY <1>3 DEF R, StrictSubsetOrdering

\* If a subset is good whenever all that it strictly contains are, the whole set is.
LEMMA StrongSetInduction ==
    ASSUME NEW S, IsFiniteSet(S), NEW G,
           \A s \in SUBSET S : (\A t \in SUBSET s : t # s => t \in G) => s \in G
    PROVE  \A s \in SUBSET S : s \in G
<1>. DEFINE Bad == (SUBSET S) \ G
<1>. SUFFICES ASSUME Bad # {} PROVE FALSE
  OBVIOUS
<1>1. PICK x \in Bad : \A y \in Bad : ~(y \subseteq x /\ y # x)
  <2>1. Bad \subseteq SUBSET S
    OBVIOUS
  <2>. HIDE DEF Bad
  <2>. QED
    BY <2>1, LeastSet
<1>2. \A t \in SUBSET x : t # x => t \in G
  BY <1>1
<1>. QED
  BY <1>1, <1>2

\* If the empty set is good and adding an element keeps it so, the whole set is good.
LEMMA FiniteSetInduction ==
    ASSUME NEW S, IsFiniteSet(S), NEW G, {} \in G,
           \A s \in SUBSET S, x \in S : s \in G /\ x \notin s => s \cup {x} \in G
    PROVE  S \in G
<1>1. ASSUME NEW s \in SUBSET S, \A t \in SUBSET s : t # s => t \in G
      PROVE  s \in G
  <2>1. CASE s = {}
    BY <2>1
  <2>2. ASSUME NEW x \in s PROVE s \in G
    <3>1. s \ {x} \in G /\ s = (s \ {x}) \cup {x}
      BY <1>1
    <3>. QED
      BY <3>1
  <2>. QED
    BY <2>1, <2>2
<1>. QED
  BY <1>1, StrongSetInduction

\* A set with 0, and with n + 1 whenever it has n, has every natural number.
LEMMA NumberInduction ==
    ASSUME NEW G, 0 \in G, \A n \in Nat : n \in G => n + 1 \in G
    PROVE  \A n \in Nat : n \in G
<1>. SUFFICES ASSUME NEW n \in Nat, n \notin G PROVE FALSE
  OBVIOUS
<1>. DEFINE Up(k) == 0..k
            N == 0..n
            T == {Up(k) : k \in N \ G}
<1>1. IsFiniteSet(N)
  BY FS_Interval
<1>2. T \subseteq SUBSET N /\ T # {}
  OBVIOUS
<1>3. PICK x \in T : \A y \in T : ~(y \subseteq x /\ y # x)
  <2>. HIDE DEF T, N
  <2>. QED
    BY <1>1, <1>2, LeastSet
<1>4. PICK k \in N \ G : x = Up(k)
  BY <1>3
<1>5. k \in Nat /\ k # 0 /\ k - 1 \in Nat
  BY <1>4
<1>6. k - 1 \in N \ G
  BY <1>4, <1>5
<1>7. Up(k - 1) \subseteq Up(k) /\ k \in Up(k) /\ k \notin Up(k - 1)
  BY <1>5
<1>. QED
  BY <1>3, <1>4, <1>6, <1>7

\* A finite set of numbers has a least and a greatest one.
LEMMA FirstAndLast ==
    ASSUME NEW S \in SUBSET Int, IsFiniteSet(S), S # {}
    PROVE  (\E x \in S : \A y \in S : x <= y) /\ (\E x \in S : \A y \in S : y <= x)
<1>. DEFINE G == {s \in SUBSET S : s # {} => /\ \E x \in s : \A y \in s : x <= y
                                             /\ \E x \in s : \A y \in s : y <= x}
<1>1. {} \in G
  OBVIOUS
<1>2. ASSUME NEW s \in SUBSET S, NEW d \in S, s \in G, d \notin s PROVE s \cup {d} \in G
  <2>1. CASE s = {}
    BY <2>1
  <2>2. CASE s # {}
    <3>1. PICK x \in s : \A y \in s : x <= y
      BY <1>2, <2>2
    <3>2. PICK z \in s : \A y \in s : y <= z
      BY <1>2, <2>2
    <3>3. \E a \in s \cup {d} : \A b \in s \cup {d} : a <= b
      <4>1. CASE x <= d
        BY <3>1, <4>1
      <4>2. CASE ~(x <= d)
        BY <3>1, <4>2
      <4>. QED
        BY <4>1, <4>2
    <3>4. \E a \in s \cup {d} : \A b \in s \cup {d} : b <= a
      <4>1. CASE d <= z
        BY <3>2, <4>1
      <4>2. CASE ~(d <= z)
        BY <3>2, <4>2
      <4>. QED
        BY <4>1, <4>2
    <3>. QED
      BY <3>3, <3>4
  <2>. QED
    BY <2>1, <2>2
<1>3. S \in G
  <2>. HIDE DEF G
  <2>. QED
    BY <1>1, <1>2, FiniteSetInduction
<1>. QED
  BY <1>3

-----------------------------------------------------------------------------
(* The function by which a sum is computed, and that it exists.            *)

Pick(s) == CHOOSE x \in s : TRUE

SumStep(f, g, s) == IF s = {} THEN 0 ELSE f[Pick(s)] + g[s \ {Pick(s)}]

IsSumming(f, S, g) == g = [s \in SUBSET S |-> SumStep(f, g, s)]

LEMMA SumByIter == \A f, S : SumFunctionOnSet(f, S) = (CHOOSE g : IsSumming(f, S, g))[S]
BY DEF SumFunctionOnSet, FoldFunctionOnSet, MapThenFoldSet, IsSumming, SumStep, Pick

LEMMA PickIsMember == \A s : s # {} => Pick(s) \in s
BY DEF Pick

LEMMA SummingExists ==
    ASSUME NEW f, NEW S, IsFiniteSet(S)
    PROVE  \E g : IsSumming(f, S, g)
<1>. DEFINE Upto(n, g) == \A s \in SUBSET S : Cardinality(s) <= n => g[s] = SumStep(f, g, s)
            G == {n \in Nat : \E g : g = [s \in SUBSET S |-> g[s]] /\ Upto(n, g)}
<1>0. \A s \in SUBSET S : IsFiniteSet(s) /\ Cardinality(s) \in Nat /\ Cardinality(s) <= Cardinality(S)
  BY FS_Subset, FS_CardinalityType
<1>1. 0 \in G
  <2>. DEFINE g == [s \in SUBSET S |-> 0]
  <2>1. \A s \in SUBSET S : Cardinality(s) <= 0 => s = {}
    BY <1>0, FS_EmptySet
  <2>2. Upto(0, g)
    BY <2>1 DEF SumStep
  <2>3. g = [s \in SUBSET S |-> g[s]]
    OBVIOUS
  <2>. HIDE DEF g, Upto
  <2>. QED
    BY <2>2, <2>3
<1>2. ASSUME NEW n \in Nat, n \in G PROVE n + 1 \in G
  <2>1. PICK g : g = [s \in SUBSET S |-> g[s]] /\ Upto(n, g)
    BY <1>2
  <2>. DEFINE h == [s \in SUBSET S |-> SumStep(f, g, s)]
  <2>2. ASSUME NEW s \in SUBSET S, Cardinality(s) <= n + 1
        PROVE  h[s] = SumStep(f, h, s)
    <3>1. CASE s = {}
      BY <3>1 DEF SumStep
    <3>2. CASE s # {}
      <4>. DEFINE t == s \ {Pick(s)}
      <4>1. t \in SUBSET S /\ Cardinality(t) <= n
        BY <1>0, <2>2, <3>2, PickIsMember, FS_RemoveElement
      <4>2. g[t] = SumStep(f, g, t)
        BY <2>1, <4>1
      <4>3. h[t] = g[t]
        BY <4>1, <4>2
      <4>. HIDE DEF t
      <4>4. h[s] = f[Pick(s)] + g[t]
        BY <3>2 DEF SumStep, t
      <4>. HIDE DEF h
      <4>. QED
        BY <3>2, <4>3, <4>4 DEF SumStep, t
    <3>. QED
      BY <3>1, <3>2
  <2>3. h = [s \in SUBSET S |-> h[s]] /\ Upto(n + 1, h)
    <3>. HIDE DEF h
    <3>1. h = [s \in SUBSET S |-> h[s]]
      BY DEF h
    <3>. QED
      BY <2>2, <3>1
  <2>. HIDE DEF h, Upto
  <2>. QED
    BY <2>3
<1>3. Cardinality(S) \in G
  <2>. HIDE DEF G
  <2>. QED
    BY <1>1, <1>2, NumberInduction, FS_CardinalityType
<1>4. PICK g : g = [s \in SUBSET S |-> g[s]] /\ Upto(Cardinality(S), g)
  BY <1>3
<1>5. \A s \in SUBSET S : g[s] = SumStep(f, g, s)
  BY <1>0, <1>4
<1>. QED
  BY <1>4, <1>5 DEF IsSumming

\* The value at a subset depends on that subset alone.
LEMMA SummingAgree ==
    ASSUME NEW f, NEW S, IsFiniteSet(S), NEW T \in SUBSET S, NEW g, NEW h,
           IsSumming(f, S, g), IsSumming(f, T, h)
    PROVE  g[T] = h[T]
<1>. DEFINE G == {s \in SUBSET T : g[s] = h[s]}
<1>1. \A s \in SUBSET T : g[s] = SumStep(f, g, s) /\ h[s] = SumStep(f, h, s)
  BY DEF IsSumming
<1>2. IsFiniteSet(T)
  BY FS_Subset
<1>3. ASSUME NEW s \in SUBSET T, \A t \in SUBSET s : t # s => t \in G PROVE s \in G
  <2>1. CASE s = {}
    BY <1>1, <2>1 DEF SumStep
  <2>2. CASE s # {}
    <3>1. s \ {Pick(s)} \in SUBSET s /\ s \ {Pick(s)} # s
      BY <2>2, PickIsMember
    <3>2. g[s \ {Pick(s)}] = h[s \ {Pick(s)}]
      BY <1>3, <3>1
    <3>. QED
      BY <1>1, <2>2, <3>2 DEF SumStep
  <2>. QED
    BY <2>1, <2>2
<1>4. T \in G
  <2>. HIDE DEF G
  <2>. QED
    BY <1>2, <1>3, StrongSetInduction
<1>. QED
  BY <1>4

LEMMA SumStarts ==
    ASSUME NEW f
    PROVE  SumFunctionOnSet(f, {}) = 0
<1>1. PICK g : g = (CHOOSE h : IsSumming(f, {}, h)) /\ IsSumming(f, {}, g)
  BY SummingExists, FS_EmptySet
<1>. QED
  BY <1>1, SumByIter DEF IsSumming, SumStep

LEMMA SumPicks ==
    ASSUME NEW f, NEW S, IsFiniteSet(S), S # {}
    PROVE  SumFunctionOnSet(f, S) = f[Pick(S)] + SumFunctionOnSet(f, S \ {Pick(S)})
<1>. DEFINE T == S \ {Pick(S)}
<1>0. IsFiniteSet(T) /\ T \in SUBSET S
  BY FS_RemoveElement
<1>1. PICK g : g = (CHOOSE h : IsSumming(f, S, h)) /\ IsSumming(f, S, g)
  BY SummingExists
<1>2. PICK k : k = (CHOOSE h : IsSumming(f, T, h)) /\ IsSumming(f, T, k)
  <2>. HIDE DEF T
  <2>. QED
    BY <1>0, SummingExists
<1>3. g[T] = k[T]
  BY <1>0, <1>1, <1>2, SummingAgree
<1>4. g[S] = f[Pick(S)] + g[T]
  BY <1>1 DEF IsSumming, SumStep
<1>. QED
  BY <1>1, <1>2, <1>3, <1>4, SumByIter

-----------------------------------------------------------------------------
(* What a sum is equal to.                                                 *)

Integral(f, S) == \A x \in S : f[x] \in Int

LEMMA SumIsInteger ==
    ASSUME NEW f, NEW S, IsFiniteSet(S), Integral(f, S)
    PROVE  \A s \in SUBSET S : SumFunctionOnSet(f, s) \in Int
<1>. DEFINE G == {s \in SUBSET S : SumFunctionOnSet(f, s) \in Int}
<1>1. ASSUME NEW s \in SUBSET S, \A t \in SUBSET s : t # s => t \in G PROVE s \in G
  <2>1. CASE s = {}
    BY <2>1, SumStarts
  <2>2. CASE s # {}
    <3>1. /\ IsFiniteSet(s) /\ Pick(s) \in s
          /\ s \ {Pick(s)} \in SUBSET s /\ s \ {Pick(s)} # s
      BY <2>2, PickIsMember, FS_Subset
    <3>2. SumFunctionOnSet(f, s \ {Pick(s)}) \in Int /\ f[Pick(s)] \in Int
      BY <1>1, <3>1 DEF Integral
    <3>3. SumFunctionOnSet(f, s) = f[Pick(s)] + SumFunctionOnSet(f, s \ {Pick(s)})
      BY <2>2, <3>1, SumPicks
    <3>. QED
      BY <3>2, <3>3
  <2>. QED
    BY <2>1, <2>2
<1>. HIDE DEF G
<1>2. \A s \in SUBSET S : s \in G
  BY <1>1, StrongSetInduction
<1>. QED
  BY <1>2 DEF G

\* Any term can be the first: the order of the terms does not matter.
LEMMA SumTakesOut ==
    ASSUME NEW f, NEW S, IsFiniteSet(S), Integral(f, S), NEW x \in S
    PROVE  SumFunctionOnSet(f, S) = f[x] + SumFunctionOnSet(f, S \ {x})
<1>. DEFINE Sum(s) == SumFunctionOnSet(f, s)
            Splits(s) == \A y \in s : Sum(s) = f[y] + Sum(s \ {y})
            G == {s \in SUBSET S : Splits(s)}
<1>. HIDE DEF Sum
<1>0. \A s \in SUBSET S : Sum(s) \in Int /\ IsFiniteSet(s)
  BY SumIsInteger, FS_Subset DEF Sum
<1>1. ASSUME NEW s \in SUBSET S, \A t \in SUBSET s : t # s => t \in G PROVE s \in G
  <2>. SUFFICES ASSUME NEW y \in s PROVE Sum(s) = f[y] + Sum(s \ {y})
    OBVIOUS
  <2>. DEFINE p == Pick(s)
  <2>1. p \in s /\ Sum(s) = f[p] + Sum(s \ {p})
    BY <1>0, PickIsMember, SumPicks DEF Sum
  <2>. HIDE DEF p
  <2>2. CASE y # p
    <3>1. /\ s \ {p} \in SUBSET s /\ s \ {p} # s /\ y \in s \ {p}
          /\ s \ {y} \in SUBSET s /\ s \ {y} # s /\ p \in s \ {y}
      BY <2>1, <2>2
    <3>2. /\ Sum(s \ {p}) = f[y] + Sum((s \ {p}) \ {y})
          /\ Sum(s \ {y}) = f[p] + Sum((s \ {y}) \ {p})
      BY <1>1, <3>1
    <3>3. (s \ {p}) \ {y} = (s \ {y}) \ {p}
      OBVIOUS
    <3>. DEFINE rest == Sum((s \ {y}) \ {p})
    <3>4. f[p] \in Int /\ f[y] \in Int /\ rest \in Int
      BY <1>0, <2>1 DEF Integral
    <3>5. /\ Sum(s) = f[p] + Sum(s \ {p})
          /\ Sum(s \ {p}) = f[y] + rest
          /\ Sum(s \ {y}) = f[p] + rest
      BY <2>1, <3>2, <3>3
    <3>. HIDE DEF rest
    <3>. QED
      BY <3>4, <3>5
  <2>. QED
    BY <2>1, <2>2
<1>2. S \in G
  <2>. HIDE DEF G
  <2>. QED
    BY <1>1, StrongSetInduction
<1>3. Splits(S)
  BY <1>2
<1>. QED
  BY <1>3 DEF Sum

LEMMA SumAddsElement ==
    ASSUME NEW f, NEW S, IsFiniteSet(S), NEW x, x \notin S, Integral(f, S \cup {x})
    PROVE  SumFunctionOnSet(f, S \cup {x}) = f[x] + SumFunctionOnSet(f, S)
<1>1. IsFiniteSet(S \cup {x}) /\ (S \cup {x}) \ {x} = S
  BY FS_AddElement
<1>. QED
  BY <1>1, SumTakesOut

\* Equal terms have equal sums.
LEMMA SumsAgree ==
    ASSUME NEW f, NEW g, NEW S, IsFiniteSet(S), Integral(f, S), \A x \in S : f[x] = g[x]
    PROVE  SumFunctionOnSet(f, S) = SumFunctionOnSet(g, S)
<1>. DEFINE G == {s \in SUBSET S : SumFunctionOnSet(f, s) = SumFunctionOnSet(g, s)}
<1>1. {} \in G
  BY SumStarts
<1>2. ASSUME NEW s \in SUBSET S, NEW x \in S, s \in G, x \notin s PROVE s \cup {x} \in G
  <2>1. IsFiniteSet(s) /\ Integral(f, s \cup {x}) /\ Integral(g, s \cup {x})
    BY FS_Subset DEF Integral
  <2>2. /\ SumFunctionOnSet(f, s \cup {x}) = f[x] + SumFunctionOnSet(f, s)
        /\ SumFunctionOnSet(g, s \cup {x}) = g[x] + SumFunctionOnSet(g, s)
    BY <1>2, <2>1, SumAddsElement
  <2>. QED
    BY <1>2, <2>2
<1>3. S \in G
  <2>. HIDE DEF G
  <2>. QED
    BY <1>1, <1>2, FiniteSetInduction
<1>. QED
  BY <1>3

\* Sums are linear in their terms.
LEMMA SumIsLinear ==
    ASSUME NEW f, NEW g, NEW h, NEW c \in Int, NEW S, IsFiniteSet(S), Integral(f, S),
           Integral(g, S), \A x \in S : h[x] = f[x] + c * g[x]
    PROVE  SumFunctionOnSet(h, S) = SumFunctionOnSet(f, S) + c * SumFunctionOnSet(g, S)
<1>. DEFINE G == {s \in SUBSET S :
                    SumFunctionOnSet(h, s) = SumFunctionOnSet(f, s) + c * SumFunctionOnSet(g, s)}
<1>0. \A x \in S : f[x] \in Int /\ g[x] \in Int /\ c * g[x] \in Int /\ h[x] \in Int
  BY DEF Integral
<1>1. {} \in G
  BY SumStarts
<1>2. ASSUME NEW s \in SUBSET S, NEW x \in S, s \in G, x \notin s PROVE s \cup {x} \in G
  <2>1. /\ IsFiniteSet(s) /\ Integral(f, s \cup {x}) /\ Integral(g, s \cup {x})
        /\ Integral(h, s \cup {x})
    BY <1>0, FS_Subset DEF Integral
  <2>. DEFINE F == SumFunctionOnSet(f, s)
              D == SumFunctionOnSet(g, s)
              H == SumFunctionOnSet(h, s)
  <2>2. /\ SumFunctionOnSet(f, s \cup {x}) = f[x] + F
        /\ SumFunctionOnSet(g, s \cup {x}) = g[x] + D
        /\ SumFunctionOnSet(h, s \cup {x}) = h[x] + H
    BY <1>2, <2>1, SumAddsElement
  <2>3. F \in Int /\ D \in Int /\ H = F + c * D
    BY <1>2, SumIsInteger
  <2>. HIDE DEF F, D, H
  <2>4. h[x] = f[x] + c * g[x] /\ f[x] \in Int /\ g[x] \in Int
    BY <1>0
  <2>5. c * (g[x] + D) = c * g[x] + c * D
    BY <2>3, <2>4
  <2>6. h[x] + H = (f[x] + F) + c * (g[x] + D)
    BY <1>0, <2>3, <2>4, <2>5
  <2>. QED
    BY <2>2, <2>6
<1>3. S \in G
  <2>. HIDE DEF G
  <2>. QED
    BY <1>1, <1>2, FiniteSetInduction
<1>. QED
  BY <1>3

\* A sum of the same number is that number, so many times.
LEMMA SumOfConstant ==
    ASSUME NEW f, NEW c \in Int, NEW S, IsFiniteSet(S), \A x \in S : f[x] = c
    PROVE  SumFunctionOnSet(f, S) = c * Cardinality(S)
<1>. DEFINE G == {s \in SUBSET S : SumFunctionOnSet(f, s) = c * Cardinality(s)}
<1>1. {} \in G
  BY SumStarts, FS_EmptySet
<1>2. ASSUME NEW s \in SUBSET S, NEW x \in S, s \in G, x \notin s PROVE s \cup {x} \in G
  <2>1. IsFiniteSet(s) /\ Integral(f, s \cup {x})
    BY FS_Subset DEF Integral
  <2>2. SumFunctionOnSet(f, s \cup {x}) = c + SumFunctionOnSet(f, s)
    BY <1>2, <2>1, SumAddsElement
  <2>3. Cardinality(s) \in Nat /\ Cardinality(s \cup {x}) = Cardinality(s) + 1
    BY <1>2, <2>1, FS_AddElement, FS_CardinalityType
  <2>4. c * (Cardinality(s) + 1) = c + c * Cardinality(s)
    BY <2>3
  <2>. QED
    BY <1>2, <2>2, <2>3, <2>4
<1>3. S \in G
  <2>. HIDE DEF G
  <2>. QED
    BY <1>1, <1>2, FiniteSetInduction
<1>. QED
  BY <1>3

\* A sum of terms that are not negative is not, and is zero only when they all are.
LEMMA SumIsPositive ==
    ASSUME NEW f, NEW S, IsFiniteSet(S), \A x \in S : f[x] \in Nat
    PROVE  /\ SumFunctionOnSet(f, S) \in Nat
           /\ SumFunctionOnSet(f, S) = 0 => \A x \in S : f[x] = 0
           /\ \A x \in S : f[x] <= SumFunctionOnSet(f, S)
<1>. DEFINE G == {s \in SUBSET S : SumFunctionOnSet(f, s) \in Nat}
<1>1. {} \in G
  BY SumStarts
<1>2. ASSUME NEW s \in SUBSET S, NEW x \in S, s \in G, x \notin s PROVE s \cup {x} \in G
  <2>1. IsFiniteSet(s) /\ Integral(f, s \cup {x})
    BY FS_Subset DEF Integral
  <2>2. SumFunctionOnSet(f, s \cup {x}) = f[x] + SumFunctionOnSet(f, s)
    BY <1>2, <2>1, SumAddsElement
  <2>. QED
    BY <1>2, <2>2
<1>3. \A s \in SUBSET S : SumFunctionOnSet(f, s) \in Nat
  <2>. SUFFICES ASSUME NEW s \in SUBSET S PROVE s \in G
    OBVIOUS
  <2>1. IsFiniteSet(s)
    BY FS_Subset
  <2>2. \A t \in SUBSET s, x \in s : t \in G /\ x \notin t => t \cup {x} \in G
    BY <1>2
  <2>. HIDE DEF G
  <2>. QED
    BY <1>1, <2>1, <2>2, FiniteSetInduction
<1>4. ASSUME NEW x \in S PROVE f[x] <= SumFunctionOnSet(f, S)
  <2>1. SumFunctionOnSet(f, S) = f[x] + SumFunctionOnSet(f, S \ {x})
    BY SumTakesOut DEF Integral
  <2>2. SumFunctionOnSet(f, S \ {x}) \in Nat
    BY <1>3
  <2>. QED
    BY <2>1, <2>2
<1>. QED
  BY <1>3, <1>4

\* Terms that are zero can be left out.
LEMMA SumOfSupport ==
    ASSUME NEW f, NEW S, IsFiniteSet(S), Integral(f, S), NEW T \in SUBSET S,
           \A x \in S \ T : f[x] = 0
    PROVE  SumFunctionOnSet(f, S) = SumFunctionOnSet(f, T)
<1>. DEFINE D == S \ T
            G == {s \in SUBSET D : SumFunctionOnSet(f, T \cup s) = SumFunctionOnSet(f, T)}
<1>0. IsFiniteSet(D) /\ T \cup {} = T /\ T \cup D = S
  BY FS_Subset
<1>1. {} \in G
  BY <1>0
<1>2. ASSUME NEW s \in SUBSET D, NEW x \in D, s \in G, x \notin s PROVE s \cup {x} \in G
  <2>. DEFINE U == T \cup s
  <2>1. /\ U \in SUBSET S /\ x \notin U /\ U \cup {x} \in SUBSET S
        /\ T \cup (s \cup {x}) = U \cup {x}
    BY <1>2
  <2>2. IsFiniteSet(U) /\ Integral(f, U \cup {x}) /\ SumFunctionOnSet(f, U) \in Int
    BY <2>1, FS_Subset, SumIsInteger DEF Integral
  <2>3. SumFunctionOnSet(f, U \cup {x}) = f[x] + SumFunctionOnSet(f, U)
    BY <2>1, <2>2, SumAddsElement
  <2>. QED
    BY <1>2, <2>1, <2>2, <2>3
<1>3. D \in G
  <2>. HIDE DEF G, D
  <2>. QED
    BY <1>0, <1>1, <1>2, FiniteSetInduction
<1>. QED
  BY <1>0, <1>3

\* The sum over a set is that over a part of it and that over the rest.
LEMMA SumOfParts ==
    ASSUME NEW f, NEW S, IsFiniteSet(S), Integral(f, S), NEW T \in SUBSET S
    PROVE  SumFunctionOnSet(f, S) = SumFunctionOnSet(f, T) + SumFunctionOnSet(f, S \ T)
<1>. DEFINE Sum(s) == SumFunctionOnSet(f, s)
            G == {s \in SUBSET T : Sum(S) = Sum(s) + Sum(S \ s)}
<1>0. IsFiniteSet(T) /\ \A s \in SUBSET S : IsFiniteSet(s) /\ Integral(f, s) /\ Sum(s) \in Int
  BY FS_Subset, SumIsInteger DEF Integral
<1>. HIDE DEF Sum
<1>1. {} \in G
  <2>1. Sum({}) = 0 /\ S \ {} = S /\ Sum(S) \in Int
    BY <1>0, SumStarts DEF Sum
  <2>. QED
    BY <2>1
<1>2. ASSUME NEW s \in SUBSET T, NEW x \in T, s \in G, x \notin s PROVE s \cup {x} \in G
  <2>1. /\ s \in SUBSET S /\ s \cup {x} \in SUBSET S /\ S \ s \in SUBSET S /\ x \in S \ s
        /\ S \ (s \cup {x}) \in SUBSET S /\ (S \ s) \ {x} = S \ (s \cup {x})
    BY <1>2
  <2>2. Sum(s \cup {x}) = f[x] + Sum(s)
    BY <1>0, <1>2, <2>1, SumAddsElement DEF Sum
  <2>3. Sum(S \ s) = f[x] + Sum(S \ (s \cup {x}))
    BY <1>0, <2>1, SumTakesOut DEF Sum
  <2>4. f[x] \in Int /\ Sum(s) \in Int /\ Sum(S \ (s \cup {x})) \in Int
    BY <1>0, <2>1 DEF Integral
  <2>. QED
    BY <1>2, <2>2, <2>3, <2>4
<1>3. T \in G
  <2>. HIDE DEF G
  <2>. QED
    BY <1>0, <1>1, <1>2, FiniteSetInduction
<1>. QED
  BY <1>3 DEF Sum

\* Greater terms have no smaller sum.
LEMMA SumsGrow ==
    ASSUME NEW f, NEW g, NEW S, IsFiniteSet(S), Integral(f, S), Integral(g, S),
           \A x \in S : f[x] <= g[x]
    PROVE  SumFunctionOnSet(f, S) <= SumFunctionOnSet(g, S)
<1>. DEFINE d == [x \in S |-> g[x] - f[x]]
<1>1. (\A x \in S : d[x] \in Nat) /\ Integral(d, S) /\ \A x \in S : g[x] = f[x] + 1 * d[x]
  BY DEF Integral
<1>. HIDE DEF d
<1>2. SumFunctionOnSet(g, S) = SumFunctionOnSet(f, S) + 1 * SumFunctionOnSet(d, S)
  BY <1>1, SumIsLinear
<1>3. SumFunctionOnSet(d, S) \in Nat /\ SumFunctionOnSet(f, S) \in Int
  BY <1>1, SumIsPositive, SumIsInteger
<1>. QED
  BY <1>2, <1>3

\* A sum is the same over other names of its terms.
LEMMA SumRenamed ==
    ASSUME NEW f, NEW g, NEW S, IsFiniteSet(S), Integral(f, S), NEW m,
           \A x \in S : f[x] = g[m[x]],
           \A x, y \in S : m[x] = m[y] => x = y
    PROVE  SumFunctionOnSet(f, S) = SumFunctionOnSet(g, {m[x] : x \in S})
<1>. DEFINE Image(s) == {m[x] : x \in s}
            G == {s \in SUBSET S : SumFunctionOnSet(f, s) = SumFunctionOnSet(g, Image(s))}
<1>1. {} \in G
  <2>1. Image({}) = {}
    OBVIOUS
  <2>. QED
    BY <2>1, SumStarts
<1>2. ASSUME NEW s \in SUBSET S, NEW x \in S, s \in G, x \notin s PROVE s \cup {x} \in G
  <2>0. IsFiniteSet(s) /\ Integral(f, s \cup {x})
    BY FS_Subset DEF Integral
  <2>1. IsFiniteSet(s) /\ IsFiniteSet(Image(s)) /\ Integral(f, s \cup {x})
    <3>. DEFINE n == [y \in s |-> m[y]]
    <3>1. n \in Surjection(s, Image(s))
      BY DEF Surjection
    <3>. HIDE DEF n, Image
    <3>. QED
      BY <2>0, <3>1, FS_Surjection
  <2>2. Image(s \cup {x}) = Image(s) \cup {m[x]} /\ m[x] \notin Image(s)
    BY <1>2
  <2>3. Integral(g, Image(s) \cup {m[x]})
    BY DEF Integral
  <2>. HIDE DEF Image
  <2>4. /\ SumFunctionOnSet(f, s \cup {x}) = f[x] + SumFunctionOnSet(f, s)
        /\ SumFunctionOnSet(g, Image(s) \cup {m[x]}) = g[m[x]] + SumFunctionOnSet(g, Image(s))
    BY <1>2, <2>1, <2>2, <2>3, SumAddsElement
  <2>. QED
    BY <1>2, <2>2, <2>4
<1>3. S \in G
  <2>. HIDE DEF G
  <2>. QED
    BY <1>1, <1>2, FiniteSetInduction
<1>. QED
  BY <1>3

=============================================================================
