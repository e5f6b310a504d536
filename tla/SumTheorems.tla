---------------------------- MODULE SumTheorems ----------------------------
(***************************************************************************)
(* Sums of the entries of a function, as the counts of the frame pool and  *)
(* the sizes of the driver's events are added up (SumFunction of the       *)
(* community module Functions): how a sum changes with one entry, and what *)
(* it is of the first entries.                                             *)
(*                                                                         *)
(* The definition is a recursive function on subsets.  That it computes    *)
(* anything, and that the order in which entries are taken does not        *)
(* matter, is shown by induction on the size of the subset, in the form of *)
(* a set of natural numbers that has no least number outside it (Induct).  *)
(***************************************************************************)
EXTENDS Functions, FiniteSetTheorems, TLAPS

\* A nonempty set of natural numbers has a least element.
LEMMA Least ==
  ASSUME NEW T \in SUBSET Nat, T # {}
  PROVE  \E m \in T : \A k \in T : m <= k
<1> DEFINE R == {ss \in Nat \X Nat : ss[1] < ss[2]}
<1>1. IsWellFoundedOn(R, Nat)
  BY NatLessThanWellFounded DEF OpToRel
<1>2. \A x, y \in Nat : <<y, x>> \in R <=> y < x
  OBVIOUS
<1> HIDE DEF R
<1>3. PICK x \in T : \A y \in T : ~ (<<y, x>> \in R)
  BY <1>1, WFMin
<1>4. x \in Nat
  OBVIOUS
<1>5. ASSUME NEW y \in T PROVE x <= y
  <2>1. y \in Nat
    OBVIOUS
  <2>2. ~(y < x)
    BY <1>2, <1>3, <1>4, <2>1
  <2> QED
    BY <1>4, <2>1, <2>2
<1> QED
  BY <1>5

\* Induction, over a set of numbers instead of a property.
LEMMA Induct ==
  ASSUME NEW T, T \subseteq Nat, 0 \in T, \A n \in T : n + 1 \in T
  PROVE  \A n \in Nat : n \in T
<1> SUFFICES ASSUME Nat \ T # {} PROVE FALSE
  OBVIOUS
<1>1. PICK m \in Nat \ T : \A k \in Nat \ T : m <= k
  BY Least
<1>2. m # 0 /\ m - 1 \in Nat
  BY <1>1
<1>3. m - 1 \in T
  BY <1>1, <1>2
<1>4. (m - 1) + 1 = m
  BY <1>1
<1> QED
  BY <1>1, <1>3, <1>4

-----------------------------------------------------------------------------
(* What SumFunctionOnSet is.                                               *)

\* The entry that is taken next, the sum with what was added up before, and the
\* sums over all subsets of S.
Chosen(s) == CHOOSE x \in s : TRUE
SumStep(f, g, s) == IF s = {} THEN 0 ELSE f[Chosen(s)] + g[s \ {Chosen(s)}]
Summed(f, S) == CHOOSE g : g = [s \in SUBSET S |-> SumStep(f, g, s)]

\* A sum is the value of that function at the whole set.
LEMMA SumUnfolds == \A f, S : SumFunctionOnSet(f, S) = Summed(f, S)[S]
BY DEF SumFunctionOnSet, FoldFunctionOnSet, MapThenFoldSet, Summed, SumStep, Chosen

LEMMA ChosenIn == \A s : s # {} => Chosen(s) \in s
BY DEF Chosen

\* What remains after an entry is smaller by one.
LEMMA SmallerRest ==
  ASSUME NEW S, IsFiniteSet(S), NEW s \in SUBSET S, s # {}, NEW x \in s
  PROVE  /\ IsFiniteSet(s) /\ Cardinality(s) \in Nat
         /\ s \ {x} \in SUBSET S
         /\ Cardinality(s \ {x}) \in Nat
         /\ Cardinality(s) = Cardinality(s \ {x}) + 1
<1>1. IsFiniteSet(s)
  BY FS_Subset
<1>2. IsFiniteSet(s \ {x}) /\ Cardinality(s \ {x}) = Cardinality(s) - 1
  BY <1>1, FS_RemoveElement
<1>3. Cardinality(s) \in Nat /\ Cardinality(s \ {x}) \in Nat
  BY <1>1, <1>2, FS_CardinalityType
<1> QED
  BY <1>1, <1>2, <1>3

\* g is a table of all sums over the subsets of S.
Summing(g, f, S) == \A s \in SUBSET S : g[s] = SumStep(f, g, s)

\* There is such a table, so Summed is one.
LEMMA SummedExists ==
  ASSUME NEW f, NEW S, IsFiniteSet(S)
  PROVE  Summing(Summed(f, S), f, S)
<1> DEFINE Good(g, n) == \A s \in SUBSET S : Cardinality(s) <= n => g[s] = SumStep(f, g, s)
           T == {n \in Nat : \E g : Good(g, n)}
<1>1. \A s \in SUBSET S : IsFiniteSet(s) /\ Cardinality(s) \in Nat
  BY FS_Subset, FS_CardinalityType
<1>2. 0 \in T
  <2> DEFINE g == [s \in SUBSET S |-> 0]
  <2>1. \A s \in SUBSET S : Cardinality(s) <= 0 => s = {}
    BY <1>1, FS_EmptySet
  <2>2. Good(g, 0)
    BY <2>1 DEF SumStep
  <2> QED
    BY <2>2
<1>3. ASSUME NEW n \in T PROVE n + 1 \in T
  <2>1. n \in Nat
    OBVIOUS
  <2>2. PICK g : Good(g, n)
    OBVIOUS
  <2> HIDE DEF T
  <2> DEFINE h == [s \in SUBSET S |-> IF Cardinality(s) <= n THEN g[s] ELSE SumStep(f, g, s)]
  <2>3. \A s \in SUBSET S : h[s] = IF Cardinality(s) <= n THEN g[s] ELSE SumStep(f, g, s)
    OBVIOUS
  <2> HIDE DEF h
  <2>4. ASSUME NEW s \in SUBSET S, Cardinality(s) <= n + 1
        PROVE  h[s] = SumStep(f, h, s)
    <3>1. CASE s = {}
      <4>1. Cardinality(s) = 0
        BY <3>1, FS_EmptySet
      <4>2. h[s] = g[s]
        BY <2>1, <2>3, <4>1
      <4>3. g[s] = SumStep(f, g, s)
        BY <2>1, <2>2, <4>1
      <4> QED
        BY <3>1, <4>2, <4>3 DEF SumStep
    <3>2. CASE s # {}
      <4> DEFINE x == Chosen(s)
                 r == s \ {x}
      <4>1. x \in s
        BY <3>2, ChosenIn
      <4>2. Cardinality(s) = Cardinality(r) + 1 /\ Cardinality(r) \in Nat /\ r \in SUBSET S
        BY <3>2, <4>1, SmallerRest
      <4>3. Cardinality(r) <= n
        BY <2>1, <2>4, <4>2
      <4>4. h[r] = g[r]
        BY <2>3, <4>2, <4>3
      <4>5. SumStep(f, h, s) = SumStep(f, g, s)
        BY <4>4 DEF SumStep
      <4>6. h[s] = SumStep(f, g, s)
        BY <2>2, <2>3
      <4> QED
        BY <4>5, <4>6
    <3> QED
      BY <3>1, <3>2
  <2>5. Good(h, n + 1)
    BY <2>4
  <2> QED
    BY <2>1, <2>5 DEF T
<1> HIDE DEF T
<1>4. Cardinality(S) \in T
  <2>1. T \subseteq Nat
    BY DEF T
  <2>2. \A n \in Nat : n \in T
    BY <1>2, <1>3, <2>1, Induct
  <2> QED
    BY <1>1, <2>2
<1>5. PICK g : Good(g, Cardinality(S))
  BY <1>4 DEF T
<1>6. \A s \in SUBSET S : g[s] = SumStep(f, g, s)
  <2>1. \A s \in SUBSET S : Cardinality(s) <= Cardinality(S)
    BY FS_Subset
  <2> QED
    BY <1>5, <2>1
<1> DEFINE k == [s \in SUBSET S |-> g[s]]
<1>7. k = [s \in SUBSET S |-> SumStep(f, k, s)]
  <2>1. ASSUME NEW s \in SUBSET S PROVE g[s] = SumStep(f, k, s)
    BY <1>6, ChosenIn DEF SumStep
  <2> QED
    BY <2>1
<1> HIDE DEF k
<1>8. Summed(f, S) = [s \in SUBSET S |-> SumStep(f, Summed(f, S), s)]
  BY <1>7 DEF Summed
<1> QED
  BY <1>8 DEF Summing

\* Two functions that add up the same values are the same.
\* There is only one, and it depends on nothing but the entries.
LEMMA SummingUnique ==
  ASSUME NEW S, IsFiniteSet(S), NEW f, NEW g, NEW h, NEW e,
         Summing(g, f, S), Summing(h, e, S), \A x \in S : f[x] = e[x]
  PROVE  \A s \in SUBSET S : g[s] = h[s]
<1> DEFINE T == {n \in Nat : \A s \in SUBSET S : Cardinality(s) = n => g[s] = h[s]}
<1>1. \A s \in SUBSET S : IsFiniteSet(s) /\ Cardinality(s) \in Nat
  BY FS_Subset, FS_CardinalityType
<1>2. 0 \in T
  <2>1. \A s \in SUBSET S : Cardinality(s) = 0 => s = {}
    BY <1>1, FS_EmptySet
  <2> QED
    BY <2>1 DEF Summing, SumStep
<1>3. ASSUME NEW n \in T PROVE n + 1 \in T
  <2>1. n \in Nat
    OBVIOUS
  <2>2. ASSUME NEW s \in SUBSET S, Cardinality(s) = n + 1 PROVE g[s] = h[s]
    <3>1. s # {}
      BY <2>1, <2>2, FS_EmptySet
    <3> DEFINE x == Chosen(s)
               r == s \ {x}
    <3>2. x \in s
      BY <3>1, ChosenIn
    <3>3. Cardinality(s) = Cardinality(r) + 1 /\ Cardinality(r) \in Nat /\ r \in SUBSET S
      BY <3>1, <3>2, SmallerRest
    <3>4. Cardinality(r) = n
      BY <2>1, <2>2, <3>3
    <3>5. g[r] = h[r]
      BY <3>3, <3>4
    <3>6. f[x] = e[x]
      BY <3>2
    <3> QED
      BY <3>1, <3>5, <3>6 DEF Summing, SumStep
  <2> QED
    BY <2>1, <2>2
<1> HIDE DEF T
<1>4. ASSUME NEW s \in SUBSET S PROVE g[s] = h[s]
  <2>1. T \subseteq Nat
    BY DEF T
  <2>2. \A n \in Nat : n \in T
    BY <1>2, <1>3, <2>1, Induct
  <2> QED
    BY <1>1, <2>2 DEF T
<1> QED
  BY <1>4

-----------------------------------------------------------------------------
(* What holds of sums.                                                     *)

\* Nothing adds up to 0.
LEMMA SumEmpty == ASSUME NEW f PROVE SumFunctionOnSet(f, {}) = 0
<1>1. Summing(Summed(f, {}), f, {})
  BY FS_EmptySet, SummedExists
<1> QED
  BY <1>1, SumUnfolds DEF Summing, SumStep

\* The table for a set has the sums over its parts.
LEMMA SumPart ==
  ASSUME NEW f, NEW S, IsFiniteSet(S), NEW s \in SUBSET S
  PROVE  SumFunctionOnSet(f, s) = Summed(f, S)[s]
<1>1. IsFiniteSet(s)
  BY FS_Subset
<1>2. Summing(Summed(f, s), f, s) /\ Summing(Summed(f, S), f, S)
  BY <1>1, SummedExists
<1>3. Summing(Summed(f, S), f, s)
  BY <1>2 DEF Summing
<1>4. Summed(f, S)[s] = Summed(f, s)[s]
  BY <1>1, <1>2, <1>3, SummingUnique
<1> QED
  BY <1>4, SumUnfolds

\* The definition, for any part.
LEMMA SumOfChosen ==
  ASSUME NEW S, IsFiniteSet(S), NEW f, NEW s \in SUBSET S, s # {}
  PROVE  SumFunctionOnSet(f, s) = f[Chosen(s)] + SumFunctionOnSet(f, s \ {Chosen(s)})
<1>1. Summing(Summed(f, S), f, S)
  BY SummedExists
<1>2. Summed(f, S)[s] = f[Chosen(s)] + Summed(f, S)[s \ {Chosen(s)}]
  BY <1>1 DEF Summing, SumStep
<1>3. s \ {Chosen(s)} \in SUBSET S
  OBVIOUS
<1> QED
  BY <1>2, <1>3, SumPart

\* A sum of numbers is of the kind of the numbers: Int, Nat, or only 0.
LEMMA SumType ==
  ASSUME NEW S, IsFiniteSet(S), NEW V, 0 \in V, \A a, b \in V : a + b \in V,
         NEW f, \A x \in S : f[x] \in V
  PROVE  \A s \in SUBSET S : SumFunctionOnSet(f, s) \in V
<1> DEFINE Sum(s) == SumFunctionOnSet(f, s)
           T == {n \in Nat : \A s \in SUBSET S : Cardinality(s) = n => Sum(s) \in V}
<1>1. \A s \in SUBSET S : IsFiniteSet(s) /\ Cardinality(s) \in Nat
  BY FS_Subset, FS_CardinalityType
<1>2. \A s \in SUBSET S : s # {} => Sum(s) = f[Chosen(s)] + Sum(s \ {Chosen(s)})
  BY SumOfChosen
<1>3. Sum({}) = 0
  BY SumEmpty
<1> HIDE DEF Sum
<1>4. 0 \in T
  <2>1. \A s \in SUBSET S : Cardinality(s) = 0 => s = {}
    BY <1>1, FS_EmptySet
  <2>2. \A s \in SUBSET S : Cardinality(s) = 0 => Sum(s) \in V
    BY <1>3, <2>1
  <2> QED
    BY <2>2
<1>5. ASSUME NEW n \in T PROVE n + 1 \in T
  <2>1. n \in Nat
    OBVIOUS
  <2>2. \A s \in SUBSET S : Cardinality(s) = n => Sum(s) \in V
    OBVIOUS
  <2> HIDE DEF T
  <2>3. ASSUME NEW s \in SUBSET S, Cardinality(s) = n + 1 PROVE Sum(s) \in V
    <3>1. s # {}
      BY <2>1, <2>3, FS_EmptySet
    <3> DEFINE c == Chosen(s)
    <3>2. c \in s
      BY <3>1, ChosenIn
    <3>3. s \ {c} \in SUBSET S /\ Cardinality(s \ {c}) = n
      BY <2>1, <2>3, <3>1, <3>2, SmallerRest
    <3>4. Sum(s) = f[c] + Sum(s \ {c})
      BY <1>2, <3>1
    <3> HIDE DEF c
    <3> QED
      BY <2>2, <3>2, <3>3, <3>4
  <2> QED
    BY <2>1, <2>3 DEF T
<1> HIDE DEF T
<1>6. ASSUME NEW s \in SUBSET S PROVE Sum(s) \in V
  <2>1. T \subseteq Nat
    BY DEF T
  <2>2. \A n \in Nat : n \in T
    BY <1>4, <1>5, <2>1, Induct
  <2> QED
    BY <1>1, <2>2 DEF T
<1> QED
  BY <1>6 DEF Sum

\* The sum does not depend on the order of the summands.
LEMMA SumRemove ==
  ASSUME NEW S, IsFiniteSet(S), NEW f, \A x \in S : f[x] \in Int
  PROVE  \A s \in SUBSET S : \A x \in s : SumFunctionOnSet(f, s) = f[x] + SumFunctionOnSet(f, s \ {x})
<1> DEFINE Sum(s) == SumFunctionOnSet(f, s)
           T == {n \in Nat : \A s \in SUBSET S : Cardinality(s) = n =>
                     \A x \in s : Sum(s) = f[x] + Sum(s \ {x})}
<1>1. \A s \in SUBSET S : IsFiniteSet(s) /\ Cardinality(s) \in Nat
  BY FS_Subset, FS_CardinalityType
<1>2. \A s \in SUBSET S : s # {} => Sum(s) = f[Chosen(s)] + Sum(s \ {Chosen(s)})
  BY SumOfChosen
<1>6. \A s \in SUBSET S : Sum(s) \in Int
  BY SumType
<1> HIDE DEF Sum
<1>3. 0 \in T
  <2>1. \A s \in SUBSET S : Cardinality(s) = 0 => s = {}
    BY <1>1, FS_EmptySet
  <2> QED
    BY <2>1
<1>4. ASSUME NEW n \in T PROVE n + 1 \in T
  <2>1. n \in Nat
    OBVIOUS
  <2>2. ASSUME NEW s \in SUBSET S, Cardinality(s) = n
        PROVE  \A x \in s : Sum(s) = f[x] + Sum(s \ {x})
    BY <2>2
  <2> HIDE DEF T
  <2>3. ASSUME NEW s \in SUBSET S, Cardinality(s) = n + 1
        PROVE  \A x \in s : Sum(s) = f[x] + Sum(s \ {x})
    <3>1. s # {}
      BY <2>1, <2>3, FS_EmptySet
    <3> DEFINE c == Chosen(s)
    <3>2. c \in s
      BY <3>1, ChosenIn
    <3>3. \A x \in s : s \ {x} \in SUBSET S /\ Cardinality(s \ {x}) = n
      BY <2>1, <2>3, <3>1, SmallerRest
    <3>4. Sum(s) = f[c] + Sum(s \ {c})
      BY <1>2, <3>1
    <3> HIDE DEF c
    <3>6. ASSUME NEW x \in s PROVE Sum(s) = f[x] + Sum(s \ {x})
      <4>1. CASE x = c
        BY <3>4, <4>1
      <4>2. CASE x # c
        <5> DEFINE r == (s \ {x}) \ {c}
        <5>1. Sum(s \ {c}) = f[x] + Sum((s \ {c}) \ {x})
          BY <2>2, <3>2, <3>3, <4>2
        <5>2. Sum(s \ {x}) = f[c] + Sum(r)
          BY <2>2, <3>2, <3>3, <4>2
        <5>3. (s \ {c}) \ {x} = r
          OBVIOUS
        <5>4. r \in SUBSET S /\ IsFiniteSet(r)
          BY <1>1
        <5>5. f[x] \in Int /\ f[c] \in Int
          BY <3>2
        <5>6. Sum(r) \in Int
          BY <1>6, <5>4
        <5>7. \A a, b, t \in Int : a + (b + t) = b + (a + t)
          OBVIOUS
        <5>8. Sum(s) = f[c] + (f[x] + Sum(r))
          BY <3>4, <5>1, <5>3
        <5> HIDE DEF r
        <5> QED
          BY <5>2, <5>5, <5>6, <5>7, <5>8
      <4> QED
        BY <4>1, <4>2
    <3> QED
      BY <3>6
  <2> QED
    BY <2>1, <2>3 DEF T
<1> HIDE DEF T
<1>5. ASSUME NEW s \in SUBSET S
      PROVE  \A x \in s : Sum(s) = f[x] + Sum(s \ {x})
  <2>1. T \subseteq Nat
    BY DEF T
  <2>2. \A n \in Nat : n \in T
    BY <1>3, <1>4, <2>1, Induct
  <2> QED
    BY <1>1, <2>2 DEF T
<1> QED
  BY <1>5 DEF Sum

\* Only the values on the set are summed.
LEMMA SumSame ==
  ASSUME NEW S, IsFiniteSet(S), NEW f, NEW g, \A x \in S : f[x] = g[x]
  PROVE  SumFunctionOnSet(f, S) = SumFunctionOnSet(g, S)
<1>1. Summing(Summed(f, S), f, S) /\ Summing(Summed(g, S), g, S)
  BY SummedExists
<1>2. Summed(f, S)[S] = Summed(g, S)[S]
  BY <1>1, SummingUnique
<1> QED
  BY <1>2, SumUnfolds

\* The sum changes by what the value of one element changes.
LEMMA SumChanges ==
  ASSUME NEW S, IsFiniteSet(S), NEW x \in S, NEW f, NEW g,
         \A y \in S : f[y] \in Int /\ g[y] \in Int,
         \A y \in S \ {x} : g[y] = f[y]
  PROVE  /\ SumFunctionOnSet(f, S) \in Int
         /\ SumFunctionOnSet(g, S) = SumFunctionOnSet(f, S) + (g[x] - f[x])
<1> DEFINE F == SumFunctionOnSet(f, S \ {x})
           G == SumFunctionOnSet(g, S \ {x})
<1>1. S \ {x} \in SUBSET S /\ IsFiniteSet(S \ {x})
  BY FS_Subset
<1>2. F = G
  BY <1>1, SumSame
<1>3. F \in Int /\ SumFunctionOnSet(f, S) \in Int
  BY <1>1, SumType
<1>4. SumFunctionOnSet(f, S) = f[x] + F
  BY SumRemove
<1>5. SumFunctionOnSet(g, S) = g[x] + G
  BY SumRemove
<1> HIDE DEF F, G
<1> QED
  BY <1>2, <1>3, <1>4, <1>5

\* Sums over the first elements of a sequence.
LEMMA SumNext ==
  ASSUME NEW n \in Nat, NEW f, \A k \in 1..(n + 1) : f[k] \in Int
  PROVE  /\ SumFunctionOnSet(f, 1..n) \in Int
         /\ SumFunctionOnSet(f, 1..(n + 1)) = SumFunctionOnSet(f, 1..n) + f[n + 1]
<1> DEFINE S == 1..(n + 1)
<1>1. IsFiniteSet(S)
  BY FS_Interval
<1>2. S \ {n + 1} = 1..n /\ n + 1 \in S /\ 1..n \in SUBSET S
  OBVIOUS
<1> DEFINE F == SumFunctionOnSet(f, 1..n)
<1>3. \A k \in S : f[k] \in Int
  OBVIOUS
<1>4. f[n + 1] \in Int
  BY <1>2, <1>3
<1> HIDE DEF S
<1>5. F \in Int
  <2>1. 0 \in Int /\ \A a, b \in Int : a + b \in Int
    OBVIOUS
  <2> QED
    BY <1>1, <1>2, <1>3, <2>1, SumType
<1>6. SumFunctionOnSet(f, S) = f[n + 1] + F
  BY <1>1, <1>2, <1>3, SumRemove
<1> HIDE DEF F
<1>7. SumFunctionOnSet(f, S) = F + f[n + 1]
  BY <1>4, <1>5, <1>6
<1> QED
  BY <1>5, <1>7 DEF S, F

\* The first entry can be taken first.
LEMMA SumShifted ==
  ASSUME NEW n \in Nat, NEW f, NEW g, \A k \in 1..(n + 1) : f[k] \in Int,
         \A k \in 1..n : g[k] = f[k + 1]
  PROVE  /\ SumFunctionOnSet(g, 1..n) \in Int
         /\ SumFunctionOnSet(f, 1..(n + 1)) = f[1] + SumFunctionOnSet(g, 1..n)
<1> DEFINE F(m) == SumFunctionOnSet(f, 1..m)
           G(m) == SumFunctionOnSet(g, 1..m)
           T == {m \in Nat : m <= n => G(m) \in Int /\ F(m + 1) = f[1] + G(m)}
<1>1. F(0) = 0 /\ G(0) = 0
  <2>1. 1..0 = {}
    OBVIOUS
  <2> QED
    BY <2>1, SumEmpty
<1>2. \A m \in Nat : m <= n => F(m) \in Int /\ F(m + 1) = F(m) + f[m + 1]
  <2>1. ASSUME NEW m \in Nat, m <= n
        PROVE  F(m) \in Int /\ F(m + 1) = F(m) + f[m + 1]
    <3>1. \A k \in 1..(m + 1) : f[k] \in Int
      BY <2>1
    <3> QED
      BY <3>1, SumNext
  <2> QED
    BY <2>1
<1>3. \A m \in Nat : m + 1 <= n => G(m) \in Int /\ G(m + 1) = G(m) + f[m + 2]
  <2>1. ASSUME NEW m \in Nat, m + 1 <= n
        PROVE  G(m) \in Int /\ G(m + 1) = G(m) + f[m + 2]
    <3>1. \A k \in 1..(m + 1) : g[k] = f[k + 1] /\ g[k] \in Int
      BY <2>1
    <3>2. G(m) \in Int /\ G(m + 1) = G(m) + g[m + 1]
      BY <3>1, SumNext
    <3> QED
      BY <3>1, <3>2
  <2> QED
    BY <2>1
<1> HIDE DEF F, G
<1>4. 0 \in T
  BY <1>1, <1>2
<1>5. ASSUME NEW m \in T PROVE m + 1 \in T
  <2>1. CASE m + 1 <= n
    <3>1. m \in Nat /\ G(m) \in Int /\ F(m + 1) = f[1] + G(m)
      BY <2>1
    <3> HIDE DEF T
    <3>2. F((m + 1) + 1) = F(m + 1) + f[m + 2]
      BY <1>2, <2>1, <3>1
    <3>3. G(m + 1) = G(m) + f[m + 2]
      BY <1>3, <2>1, <3>1
    <3>4. f[1] \in Int /\ f[m + 2] \in Int
      BY <2>1, <3>1
    <3> QED
      BY <3>1, <3>2, <3>3, <3>4 DEF T
  <2>2. CASE ~(m + 1 <= n)
    BY <2>2
  <2> QED
    BY <2>1, <2>2
<1> HIDE DEF T
<1>6. n \in T
  <2>1. T \subseteq Nat
    BY DEF T
  <2> QED
    BY <1>4, <1>5, <2>1, Induct
<1> QED
  BY <1>6 DEF T, F, G
=============================================================================
