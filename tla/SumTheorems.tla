---------------------------- MODULE SumTheorems -----------------------------
(***************************************************************************)
(* The laws of sums over finite sets, and of smallest and largest numbers, *)
(* which the proofs about chips need.  A sum is a fold over a finite set:  *)
(* its laws are proved by induction on finite sets, written as: the set of *)
(* exceptions has no smallest element, so there are none.                  *)
(***************************************************************************)
EXTENDS Sums, Integers, FiniteSetTheorems, WellFoundedInduction, TLAPS

-----------------------------------------------------------------------------
(* Sums over finite sets.                                                  *)

\* Induction on finite sets: a family of them has an element with no smaller one.
LEMMA LeastSet ==
    ASSUME NEW S, IsFiniteSet(S), NEW F \in SUBSET SUBSET S, F # {}
    PROVE  \E s \in F : \A q \in F : q \subseteq s => q = s
<1>1. F \subseteq FiniteSubsetsOf(S)
  BY FS_Subset DEF FiniteSubsetsOf
<1>2. \E s \in F : \A q \in F : ~ (<<q, s>> \in StrictSubsetOrdering(S))
  BY <1>1, FS_StrictSubsetOrderingWellFounded, WFMin
<1> QED
  BY <1>2 DEF StrictSubsetOrdering

\* And on numbers: a set of them has a least one.
LEMMA LeastNat ==
    ASSUME NEW T \in SUBSET Nat, T # {}
    PROVE  \E n \in T : \A m \in T : n <= m
<1>1. PICK k \in T : TRUE
  OBVIOUS
<1> DEFINE N == 0 .. k
           F == {0 .. m : m \in {j \in T : j <= k}}
<1>2. IsFiniteSet(N)
  BY FS_Interval
<1>3. PICK s \in F : \A q \in F : q \subseteq s => q = s
  <2>1. ASSUME NEW m \in T, m <= k PROVE 0 .. m \in SUBSET N
    BY <2>1
  <2>2. F \in SUBSET SUBSET N /\ F # {}
    BY <2>1
  <2> HIDE DEF F, N
  <2> QED
    BY <1>2, <2>2, LeastSet
<1>4. PICK n \in T : s = 0 .. n /\ n <= k
  BY <1>3
<1>5. ASSUME NEW m \in T, m < n PROVE FALSE
  <2>1. 0 .. m \in F /\ 0 .. m \subseteq s
    BY <1>4, <1>5
  <2>2. n \in 0 .. n /\ n \notin 0 .. m
    BY <1>4, <1>5
  <2> QED
    BY <1>3, <1>4, <2>1, <2>2
<1> QED
  BY <1>5

\* Two elements are at least one.
LEMMA SomeMember ==
    ASSUME NEW S, Cardinality(S) >= 2
    PROVE  \E x : x \in S
<1> SUFFICES ASSUME S = {} PROVE FALSE
  OBVIOUS
<1> QED
  BY FS_EmptySet

\* Both in the form the proofs below use: the exceptions to a claim are none.
LEMMA NoLeastNat ==
    ASSUME NEW T \in SUBSET Nat, 0 \notin T, \A n \in Nat : n \notin T => n + 1 \notin T
    PROVE  T = {}
<1> SUFFICES ASSUME T # {} PROVE FALSE
  OBVIOUS
<1>1. PICK n \in T : \A m \in T : n <= m
  BY LeastNat
<1>2. n - 1 \in Nat /\ n - 1 \notin T
  BY <1>1
<1>3. n = (n - 1) + 1
  BY <1>2
<1> QED
  BY <1>2, <1>3

\* And for sets.
LEMMA NoLeastSet ==
    ASSUME NEW S, IsFiniteSet(S), NEW F \in SUBSET SUBSET S,
           \A s \in SUBSET S : (\A x \in s : s \ {x} \notin F) => s \notin F
    PROVE  F = {}
<1> SUFFICES ASSUME F # {} PROVE FALSE
  OBVIOUS
<1>1. PICK s \in F : \A q \in F : q \subseteq s => q = s
  BY LeastSet
<1> QED
  BY <1>1

\* What the fold computes: the equation of its recursion.
Pick(s) == CHOOSE x \in s : TRUE
SumsUp(f, S, g) ==
    g = [s \in SUBSET S |-> IF s = {} THEN 0 ELSE f[Pick(s)] + g[s \ {Pick(s)}]]

\* The fold is defined by that equation.
LEMMA SumDef ==
    ASSUME NEW f, NEW S
    PROVE  Sum(f, S) = (CHOOSE g : SumsUp(f, S, g))[S]
BY DEF Sum, MapThenSumSet, MapThenFoldSet, SumsUp, Pick

\* The recursion has a solution: put its first n steps together, for n up to the
\* size of the set.
LEMMA SumExists ==
    ASSUME NEW f, NEW S, IsFiniteSet(S)
    PROVE  \E g : SumsUp(f, S, g)
<1> DEFINE Body(g, s) == IF s = {} THEN 0 ELSE f[Pick(s)] + g[s \ {Pick(s)}]
           Good(g, n) == /\ g = [s \in SUBSET S |-> g[s]]
                         /\ \A s \in SUBSET S : Cardinality(s) <= n => g[s] = Body(g, s)
           Bad == {n \in Nat : ~ \E g : Good(g, n)}
<1>0. ASSUME NEW s \in SUBSET S
      PROVE  /\ IsFiniteSet(s) /\ Cardinality(s) \in Nat /\ Cardinality(s) <= Cardinality(S)
             /\ Cardinality(s) = 0 => s = {}
             /\ s # {} => /\ Pick(s) \in s /\ s \ {Pick(s)} \in SUBSET S
                          /\ Cardinality(s \ {Pick(s)}) = Cardinality(s) - 1
  <2>1. IsFiniteSet(s) /\ Cardinality(s) \in Nat /\ Cardinality(s) <= Cardinality(S)
    BY FS_Subset, FS_CardinalityType
  <2>2. s # {} => Pick(s) \in s
    BY DEF Pick
  <2> QED
    BY <2>1, <2>2, FS_EmptySet, FS_RemoveElement
<1>1. Good([s \in SUBSET S |-> 0], 0)
  <2>1. ASSUME NEW s \in SUBSET S, Cardinality(s) <= 0 PROVE s = {}
    <3>1. Cardinality(s) \in Nat /\ IsFiniteSet(s)
      BY <1>0
    <3>2. Cardinality(s) = 0
      BY <2>1, <3>1
    <3> QED
      BY <3>1, <3>2, FS_EmptySet
  <2> QED
    BY <2>1
<1>2. ASSUME NEW n \in Nat, NEW g, Good(g, n) PROVE \E h : Good(h, n + 1)
  <2> DEFINE h == [s \in SUBSET S |-> Body(g, s)]
  <2>1. ASSUME NEW s \in SUBSET S, Cardinality(s) <= n + 1 PROVE h[s] = Body(h, s)
    <3>1. CASE s = {}
      BY <3>1
    <3>2. CASE s # {}
      <4>1. s \ {Pick(s)} \in SUBSET S /\ Cardinality(s \ {Pick(s)}) <= n
        BY <1>0, <2>1, <3>2
      <4>2. g[s \ {Pick(s)}] = Body(g, s \ {Pick(s)})
        BY <1>2, <4>1
      <4>3. h[s \ {Pick(s)}] = Body(g, s \ {Pick(s)}) /\ h[s] = Body(g, s)
        BY <4>1
      <4> QED
        BY <3>2, <4>2, <4>3
    <3> QED
      BY <3>1, <3>2
  <2>2. h = [s \in SUBSET S |-> h[s]]
    OBVIOUS
  <2> QED
    BY <2>1, <2>2
<1>3. Bad = {}
  <2>1. 0 \notin Bad
    BY <1>1
  <2>2. ASSUME NEW n \in Nat, n \notin Bad PROVE n + 1 \notin Bad
    <3>1. PICK g : Good(g, n)
      BY <2>2
    <3>2. \E h : Good(h, n + 1)
      <4> HIDE DEF Good
      <4> QED
        BY <1>2, <3>1
    <3> QED
      BY <3>2
  <2>3. Bad \in SUBSET Nat
    OBVIOUS
  <2> HIDE DEF Bad
  <2> QED
    BY <2>1, <2>2, <2>3, NoLeastNat
<1>4. PICK g : Good(g, Cardinality(S))
  BY <1>3, FS_CardinalityType
<1>5. g = [s \in SUBSET S |-> Body(g, s)]
  BY <1>0, <1>4
<1> QED
  BY <1>5 DEF SumsUp

\* And only one on each set.
LEMMA SumUnique ==
    ASSUME NEW f, NEW S, NEW R \in SUBSET S, IsFiniteSet(S), NEW g, NEW h,
           SumsUp(f, S, g), SumsUp(f, R, h)
    PROVE  g[R] = h[R]
<1> DEFINE F == {s \in SUBSET R : g[s] # h[s]}
<1>1. IsFiniteSet(R)
  BY FS_Subset
<1>2. ASSUME NEW s \in SUBSET R, \A x \in s : s \ {x} \notin F
      PROVE  s \notin F
  <2>1. /\ g[s] = IF s = {} THEN 0 ELSE f[Pick(s)] + g[s \ {Pick(s)}]
        /\ h[s] = IF s = {} THEN 0 ELSE f[Pick(s)] + h[s \ {Pick(s)}]
    BY DEF SumsUp
  <2>2. s # {} => Pick(s) \in s
    BY DEF Pick
  <2> QED
    BY <1>2, <2>1, <2>2
<1>3. F = {}
  <2>1. F \in SUBSET SUBSET R
    OBVIOUS
  <2> HIDE DEF F
  <2> QED
    BY <1>1, <1>2, <2>1, NoLeastSet
<1> QED
  BY <1>3

\* The sum takes out one element after the other.
LEMMA SumPick ==
    ASSUME NEW f, NEW S, IsFiniteSet(S)
    PROVE  /\ S = {} => Sum(f, S) = 0
           /\ S # {} => Pick(S) \in S /\ Sum(f, S) = f[Pick(S)] + Sum(f, S \ {Pick(S)})
<1> DEFINE R == S \ {Pick(S)}
           g == CHOOSE g : SumsUp(f, S, g)
           h == CHOOSE h : SumsUp(f, R, h)
<1>1. IsFiniteSet(R) /\ R \in SUBSET S
  BY FS_RemoveElement
<1>2. SumsUp(f, S, g) /\ SumsUp(f, R, h)
  BY <1>1, SumExists
<1>3. Sum(f, S) = g[S] /\ Sum(f, R) = h[R]
  BY SumDef
<1>4. g[R] = h[R]
  BY <1>1, <1>2, SumUnique
<1>5. g[S] = IF S = {} THEN 0 ELSE f[Pick(S)] + g[R]
  BY <1>2 DEF SumsUp
<1>6. S # {} => Pick(S) \in S
  BY DEF Pick
<1> QED
  BY <1>3, <1>4, <1>5, <1>6

\* The sum of nothing, of numbers, and of natural numbers.
LEMMA SumEmpty == \A f : Sum(f, {}) = 0
BY SumPick, FS_EmptySet

\* A sum of integers is one.
LEMMA SumInt ==
    ASSUME NEW f, NEW S, IsFiniteSet(S), \A s \in S : f[s] \in Int
    PROVE  Sum(f, S) \in Int
<1> DEFINE F == {s \in SUBSET S : Sum(f, s) \notin Int}
<1>1. ASSUME NEW s \in SUBSET S, \A x \in s : s \ {x} \notin F
      PROVE  s \notin F
  <2>1. IsFiniteSet(s)
    BY FS_Subset
  <2>2. CASE s = {}
    BY <2>2, SumEmpty
  <2>3. CASE s # {}
    <3>1. Pick(s) \in s /\ Sum(f, s) = f[Pick(s)] + Sum(f, s \ {Pick(s)})
      BY <2>1, <2>3, SumPick
    <3>2. f[Pick(s)] \in Int /\ Sum(f, s \ {Pick(s)}) \in Int
      BY <1>1, <3>1
    <3> QED
      BY <3>1, <3>2
  <2> QED
    BY <2>2, <2>3
<1>2. F = {}
  <2>1. F \in SUBSET SUBSET S
    OBVIOUS
  <2> HIDE DEF F
  <2> QED
    BY <1>1, <2>1, NoLeastSet
<1> QED
  BY <1>2

\* And a sum of natural numbers is not negative.
LEMMA SumNat ==
    ASSUME NEW f, NEW S, IsFiniteSet(S), \A s \in S : f[s] \in Nat
    PROVE  Sum(f, S) \in Nat
<1> DEFINE F == {s \in SUBSET S : Sum(f, s) \notin Nat}
<1>1. ASSUME NEW s \in SUBSET S, \A x \in s : s \ {x} \notin F
      PROVE  s \notin F
  <2>1. IsFiniteSet(s)
    BY FS_Subset
  <2>2. CASE s = {}
    BY <2>2, SumEmpty
  <2>3. CASE s # {}
    <3>1. Pick(s) \in s /\ Sum(f, s) = f[Pick(s)] + Sum(f, s \ {Pick(s)})
      BY <2>1, <2>3, SumPick
    <3>2. f[Pick(s)] \in Nat /\ Sum(f, s \ {Pick(s)}) \in Nat
      BY <1>1, <3>1
    <3> QED
      BY <3>1, <3>2
  <2> QED
    BY <2>2, <2>3
<1>2. F = {}
  <2>1. F \in SUBSET SUBSET S
    OBVIOUS
  <2> HIDE DEF F
  <2> QED
    BY <1>1, <2>1, NoLeastSet
<1> QED
  BY <1>2

\* The order in which the fold takes the elements does not matter.
LEMMA SumTake ==
    ASSUME NEW f, NEW S, IsFiniteSet(S), \A s \in S : f[s] \in Int, NEW x \in S
    PROVE  Sum(f, S) = f[x] + Sum(f, S \ {x})
<1> DEFINE F == {s \in SUBSET S : \E y \in s : Sum(f, s) # f[y] + Sum(f, s \ {y})}
<1>1. ASSUME NEW s \in SUBSET S, \A y \in s : s \ {y} \notin F
      PROVE  s \notin F
  <2> SUFFICES ASSUME NEW y \in s PROVE Sum(f, s) = f[y] + Sum(f, s \ {y})
    OBVIOUS
  <2>1. IsFiniteSet(s)
    BY FS_Subset
  <2> DEFINE p == Pick(s)
  <2>2. p \in s /\ Sum(f, s) = f[p] + Sum(f, s \ {p})
    BY <2>1, SumPick
  <2> HIDE DEF p
  <2>3. CASE y = p
    BY <2>2, <2>3
  <2>4. CASE y # p
    <3>1. Sum(f, s \ {p}) = f[y] + Sum(f, (s \ {p}) \ {y})
      <4>1. s \ {p} \in SUBSET S /\ s \ {p} \notin F /\ y \in s \ {p}
        BY <1>1, <2>2, <2>4
      <4> QED
        BY <4>1
    <3>2. Sum(f, s \ {y}) = f[p] + Sum(f, (s \ {y}) \ {p})
      <4>1. s \ {y} \in SUBSET S /\ s \ {y} \notin F /\ p \in s \ {y}
        BY <1>1, <2>2, <2>4
      <4> QED
        BY <4>1
    <3>3. (s \ {p}) \ {y} = (s \ {y}) \ {p}
      OBVIOUS
    <3>4. Sum(f, (s \ {y}) \ {p}) \in Int
      <4>1. IsFiniteSet((s \ {y}) \ {p})
        BY <2>1, FS_Subset
      <4> QED
        BY <4>1, SumInt
    <3>5. f[p] \in Int /\ f[y] \in Int
      BY <2>2
    <3>6. Sum(f, s) = f[p] + (f[y] + Sum(f, (s \ {y}) \ {p}))
      BY <2>2, <3>1, <3>3
    <3>7. f[p] + (f[y] + Sum(f, (s \ {y}) \ {p})) = f[y] + (f[p] + Sum(f, (s \ {y}) \ {p}))
      BY <3>4, <3>5
    <3> QED
      BY <3>2, <3>6, <3>7
  <2> QED
    BY <2>3, <2>4
<1>2. F = {}
  <2>1. F \in SUBSET SUBSET S
    OBVIOUS
  <2> HIDE DEF F
  <2> QED
    BY <1>1, <2>1, NoLeastSet
<1> QED
  BY <1>2

\* Sums of sums, element by element.
LEMMA SumPlus ==
    ASSUME NEW f, NEW g, NEW h, NEW S, IsFiniteSet(S),
           \A s \in S : f[s] \in Int /\ g[s] \in Int /\ h[s] = f[s] + g[s]
    PROVE  Sum(h, S) = Sum(f, S) + Sum(g, S)
<1> DEFINE F == {s \in SUBSET S : Sum(h, s) # Sum(f, s) + Sum(g, s)}
<1>1. ASSUME NEW s \in SUBSET S, \A x \in s : s \ {x} \notin F
      PROVE  s \notin F
  <2>1. IsFiniteSet(s)
    BY FS_Subset
  <2>2. CASE s = {}
    BY <2>2, SumEmpty
  <2>3. CASE s # {}
    <3> DEFINE p == Pick(s)
               r == s \ {p}
    <3>1. /\ p \in s /\ Sum(f, s) = f[p] + Sum(f, r)
          /\ Sum(g, s) = g[p] + Sum(g, r) /\ Sum(h, s) = h[p] + Sum(h, r)
      BY <2>1, <2>3, SumPick
    <3>2. r \in SUBSET S /\ r \notin F /\ IsFiniteSet(r)
      BY <1>1, <2>1, <3>1, FS_Subset
    <3>3. Sum(h, r) = Sum(f, r) + Sum(g, r)
      BY <3>2
    <3>4. Sum(f, r) \in Int /\ Sum(g, r) \in Int
      BY <3>2, SumInt
    <3> HIDE DEF p, r
    <3>5. f[p] \in Int /\ g[p] \in Int /\ h[p] = f[p] + g[p]
      BY <3>1
    <3> QED
      BY <3>1, <3>3, <3>4, <3>5
  <2> QED
    BY <2>2, <2>3
<1>2. F = {}
  <2>1. F \in SUBSET SUBSET S
    OBVIOUS
  <2> HIDE DEF F
  <2> QED
    BY <1>1, <2>1, NoLeastSet
<1> QED
  BY <1>2

\* The sum depends on the values only, and grows with them.
LEMMA SumSame ==
    ASSUME NEW f, NEW g, NEW S, IsFiniteSet(S), \A s \in S : f[s] = g[s]
    PROVE  Sum(f, S) = Sum(g, S)
<1> DEFINE F == {s \in SUBSET S : Sum(f, s) # Sum(g, s)}
<1>1. ASSUME NEW s \in SUBSET S, \A x \in s : s \ {x} \notin F
      PROVE  s \notin F
  <2>1. IsFiniteSet(s)
    BY FS_Subset
  <2>2. CASE s = {}
    BY <2>2, SumEmpty
  <2>3. CASE s # {}
    <3>1. /\ Pick(s) \in s /\ Sum(f, s) = f[Pick(s)] + Sum(f, s \ {Pick(s)})
          /\ Sum(g, s) = g[Pick(s)] + Sum(g, s \ {Pick(s)})
      BY <2>1, <2>3, SumPick
    <3> QED
      BY <1>1, <3>1
  <2> QED
    BY <2>2, <2>3
<1>2. F = {}
  <2>1. F \in SUBSET SUBSET S
    OBVIOUS
  <2> HIDE DEF F
  <2> QED
    BY <1>1, <2>1, NoLeastSet
<1> QED
  BY <1>2

\* A sum of zeros.
LEMMA SumZero ==
    ASSUME NEW f, NEW S, IsFiniteSet(S), \A s \in S : f[s] = 0
    PROVE  Sum(f, S) = 0
<1> DEFINE F == {s \in SUBSET S : Sum(f, s) # 0}
<1>1. ASSUME NEW s \in SUBSET S, \A x \in s : s \ {x} \notin F
      PROVE  s \notin F
  <2>1. IsFiniteSet(s)
    BY FS_Subset
  <2>2. CASE s = {}
    BY <2>2, SumEmpty
  <2>3. CASE s # {}
    <3>1. Pick(s) \in s /\ Sum(f, s) = f[Pick(s)] + Sum(f, s \ {Pick(s)})
      BY <2>1, <2>3, SumPick
    <3>2. Sum(f, s \ {Pick(s)}) = 0 /\ f[Pick(s)] = 0
      BY <1>1, <3>1
    <3> QED
      BY <3>1, <3>2
  <2> QED
    BY <2>2, <2>3
<1>2. F = {}
  <2>1. F \in SUBSET SUBSET S
    OBVIOUS
  <2> HIDE DEF F
  <2> QED
    BY <1>1, <2>1, NoLeastSet
<1> QED
  BY <1>2

\* Natural numbers that add up to nothing are all 0.
LEMMA SumNone ==
    ASSUME NEW f, NEW S, IsFiniteSet(S), \A s \in S : f[s] \in Nat, Sum(f, S) = 0
    PROVE  \A s \in S : f[s] = 0
<1> SUFFICES ASSUME NEW x \in S PROVE f[x] = 0
  OBVIOUS
<1>1. Sum(f, S) = f[x] + Sum(f, S \ {x})
  BY SumTake
<1>2. IsFiniteSet(S \ {x})
  BY FS_Subset
<1>3. Sum(f, S \ {x}) \in Nat /\ f[x] \in Nat
  BY <1>2, SumNat
<1> QED
  BY <1>1, <1>3

\* One value changes.
LEMMA SumChange ==
    ASSUME NEW f, NEW g, NEW S, IsFiniteSet(S), NEW x \in S,
           \A s \in S : f[s] \in Int /\ g[s] \in Int,
           \A s \in S \ {x} : g[s] = f[s]
    PROVE  Sum(g, S) = Sum(f, S) + (g[x] - f[x])
<1>1. Sum(f, S) = f[x] + Sum(f, S \ {x}) /\ Sum(g, S) = g[x] + Sum(g, S \ {x})
  BY SumTake
<1>2. IsFiniteSet(S \ {x})
  BY FS_Subset
<1>3. Sum(g, S \ {x}) = Sum(f, S \ {x}) /\ Sum(f, S \ {x}) \in Int
  BY <1>2, SumSame, SumInt
<1> QED
  BY <1>1, <1>3

\* The sum over a part of the set, and over the rest of it.
LEMMA SumSplit ==
    ASSUME NEW f, NEW U, IsFiniteSet(U), \A s \in U : f[s] \in Int, NEW S \in SUBSET U
    PROVE  Sum(f, U) = Sum(f, S) + Sum(f, U \ S)
<1> DEFINE F == {s \in SUBSET S : Sum(f, U) # Sum(f, s) + Sum(f, U \ s)}
<1>0. IsFiniteSet(S) /\ Sum(f, U) \in Int
  BY FS_Subset, SumInt
<1>1. ASSUME NEW s \in SUBSET S, \A x \in s : s \ {x} \notin F
      PROVE  s \notin F
  <2>1. IsFiniteSet(s) /\ IsFiniteSet(U \ s)
    BY FS_Subset
  <2>2. CASE s = {}
    <3>1. U \ s = U
      BY <2>2
    <3> QED
      BY <1>0, <2>2, <3>1, SumEmpty
  <2>3. CASE s # {}
    <3> DEFINE p == Pick(s)
               r == s \ {p}
    <3>1. p \in s /\ Sum(f, s) = f[p] + Sum(f, r)
      BY <2>1, <2>3, SumPick
    <3>2. r \in SUBSET S /\ r \notin F /\ IsFiniteSet(r) /\ IsFiniteSet(U \ r)
      BY <1>1, <2>1, <3>1, FS_Subset
    <3>3. Sum(f, U) = Sum(f, r) + Sum(f, U \ r)
      BY <3>2
    <3>4. Sum(f, U \ r) = f[p] + Sum(f, U \ s)
      <4>1. p \in U \ r /\ (U \ r) \ {p} = U \ s
        BY <3>1
      <4>2. \A q \in U \ r : f[q] \in Int
        OBVIOUS
      <4> HIDE DEF p, r
      <4>3. Sum(f, U \ r) = f[p] + Sum(f, (U \ r) \ {p})
        BY <3>2, <4>1, <4>2, SumTake
      <4> QED
        BY <4>1, <4>3
    <3>5. Sum(f, r) \in Int /\ Sum(f, U \ s) \in Int
      BY <2>1, <3>2, SumInt
    <3> HIDE DEF p, r
    <3>6. f[p] \in Int
      BY <3>1
    <3> QED
      BY <3>1, <3>3, <3>4, <3>5, <3>6
  <2> QED
    BY <2>2, <2>3
<1>2. F = {}
  <2>1. F \in SUBSET SUBSET S
    OBVIOUS
  <2> HIDE DEF F
  <2> QED
    BY <1>0, <1>1, <2>1, NoLeastSet
<1> QED
  BY <1>2

\* What is 0 outside of a part adds nothing.
LEMMA SumPart ==
    ASSUME NEW f, NEW U, IsFiniteSet(U), \A s \in U : f[s] \in Int, NEW S \in SUBSET U,
           \A s \in U \ S : f[s] = 0
    PROVE  Sum(f, U) = Sum(f, S)
<1>1. IsFiniteSet(S) /\ IsFiniteSet(U \ S)
  BY FS_Subset
<1>2. Sum(f, U \ S) = 0 /\ Sum(f, S) \in Int
  BY <1>1, SumZero, SumInt
<1> QED
  BY <1>2, SumSplit

\* The sum of one number, once for each element.
LEMMA SumConst ==
    ASSUME NEW f, NEW S, IsFiniteSet(S), NEW c \in Int, \A s \in S : f[s] = c
    PROVE  Sum(f, S) = c * Cardinality(S)
<1> DEFINE F == {s \in SUBSET S : Sum(f, s) # c * Cardinality(s)}
<1>1. ASSUME NEW s \in SUBSET S, \A x \in s : s \ {x} \notin F
      PROVE  s \notin F
  <2>1. IsFiniteSet(s) /\ Cardinality(s) \in Nat
    BY FS_Subset, FS_CardinalityType
  <2>2. CASE s = {}
    BY <2>2, SumEmpty, FS_EmptySet
  <2>3. CASE s # {}
    <3> DEFINE p == Pick(s)
               r == s \ {p}
    <3>1. p \in s /\ Sum(f, s) = f[p] + Sum(f, r)
      BY <2>1, <2>3, SumPick
    <3>2. Cardinality(r) = Cardinality(s) - 1
      <4> HIDE DEF p
      <4> QED
        BY <2>1, <3>1, FS_RemoveElement
    <3>3. Sum(f, r) = c * Cardinality(r) /\ f[p] = c
      BY <1>1, <3>1
    <3> HIDE DEF p, r
    <3>4. Sum(f, s) = c + c * (Cardinality(s) - 1)
      BY <3>1, <3>2, <3>3
    <3>5. c + c * (Cardinality(s) - 1) = c * Cardinality(s)
      BY <2>1
    <3> QED
      BY <3>4, <3>5
  <2> QED
    BY <2>2, <2>3
<1>2. F = {}
  <2>1. F \in SUBSET SUBSET S
    OBVIOUS
  <2> HIDE DEF F
  <2> QED
    BY <1>1, <2>1, NoLeastSet
<1> QED
  BY <1>2

\* The sum grows with the values.
LEMMA SumMono ==
    ASSUME NEW f, NEW g, NEW S, IsFiniteSet(S),
           \A s \in S : f[s] \in Int /\ g[s] \in Int /\ f[s] <= g[s]
    PROVE  Sum(f, S) <= Sum(g, S)
<1> DEFINE d == [s \in S |-> g[s] - f[s]]
<1>1. \A s \in S : d[s] \in Nat /\ d[s] \in Int /\ g[s] = f[s] + d[s]
  OBVIOUS
<1> HIDE DEF d
<1>2. Sum(g, S) = Sum(f, S) + Sum(d, S)
  BY <1>1, SumPlus
<1>3. Sum(d, S) \in Nat /\ Sum(f, S) \in Int
  BY <1>1, SumNat, SumInt
<1> QED
  BY <1>2, <1>3

\* Rows and columns of a table of numbers add up to the same.
RowSums(f, A, B) == [a \in A |-> Sum(f[a], B)]
Exchanged(f, A, B) == [b \in B |-> [a \in A |-> f[a][b]]]

\* So the sum of the row sums is the sum of the column sums.
LEMMA SumTable ==
    ASSUME NEW A, NEW B, IsFiniteSet(A), IsFiniteSet(B), NEW f,
           \A a \in A : \A b \in B : f[a][b] \in Int
    PROVE  Sum(RowSums(f, A, B), A) = Sum(RowSums(Exchanged(f, A, B), B, A), B)
<1> DEFINE rows == RowSums(f, A, B)
           cell == Exchanged(f, A, B)
           columns == RowSums(cell, B, A)
<1>a. /\ \A a \in A : rows[a] = Sum(f[a], B)
      /\ \A b \in B : columns[b] = Sum(cell[b], A)
      /\ \A a \in A, b \in B : cell[b][a] = f[a][b]
  BY DEF RowSums, Exchanged
<1> HIDE DEF rows, cell, columns
<1> USE <1>a
<1> DEFINE part(r) == [b \in B |-> Sum(cell[b], r)]
           F == {r \in SUBSET A : Sum(rows, r) # Sum(part(r), B)}
<1>1. ASSUME NEW r \in SUBSET A, \A x \in r : r \ {x} \notin F
      PROVE  r \notin F
  <2>1. IsFiniteSet(r)
    BY FS_Subset
  <2>2. CASE r = {}
    <3>1. \A b \in B : part(r)[b] = 0
      BY <2>2, SumEmpty
    <3>2. Sum(part(r), B) = 0
      <4> HIDE DEF part
      <4> QED
        BY <3>1, SumZero
    <3> QED
      BY <2>2, <3>2, SumEmpty
  <2>3. CASE r # {}
    <3> DEFINE p == Pick(r)
               q == r \ {p}
    <3>1. p \in r /\ Sum(rows, r) = rows[p] + Sum(rows, q)
      BY <2>1, <2>3, SumPick
    <3>2. Sum(rows, q) = Sum(part(q), B)
      BY <1>1, <3>1
    <3>3. \A b \in B : Sum(cell[b], r) = cell[b][p] + Sum(cell[b], q)
      BY <2>1, <2>3, SumPick
    <3>4. IsFiniteSet(q) /\ q \in SUBSET A
      BY <2>1, FS_Subset
    <3>5. \A b \in B : Sum(cell[b], q) \in Int
      <4> TAKE b \in B
      <4>1. \A a \in q : cell[b][a] \in Int
        BY <3>4
      <4> HIDE DEF q
      <4> QED
        BY <3>4, <4>1, SumInt
    <3> HIDE DEF p, q
    <3>6. \A b \in B : /\ f[p][b] \in Int /\ part(q)[b] \in Int
                       /\ part(r)[b] = f[p][b] + part(q)[b]
      BY <3>1, <3>3, <3>5
    <3>7. Sum(part(r), B) = Sum(f[p], B) + Sum(part(q), B)
      <4> HIDE DEF part
      <4> QED
        BY <3>6, SumPlus
    <3> QED
      BY <3>1, <3>2, <3>7
  <2> QED
    BY <2>2, <2>3
<1>2. F = {}
  <2>1. F \in SUBSET SUBSET A
    OBVIOUS
  <2> HIDE DEF F
  <2> QED
    BY <1>1, <2>1, NoLeastSet
<1>3. Sum(rows, A) = Sum(part(A), B)
  BY <1>2
<1>4. Sum(part(A), B) = Sum(columns, B)
  <2>1. \A b \in B : part(A)[b] = columns[b]
    OBVIOUS
  <2> HIDE DEF part
  <2> QED
    BY <2>1, SumSame
<1>5. Sum(rows, A) = Sum(columns, B)
  BY <1>3, <1>4
<1> QED
  BY <1>5 DEF rows, cell, columns

\* The same of any functions that hold those sums.
LEMMA SumExchange ==
    ASSUME NEW A, NEW B, IsFiniteSet(A), IsFiniteSet(B), NEW f,
           \A a \in A, b \in B : f[a][b] \in Int,
           NEW rows, \A a \in A : rows[a] = Sum(f[a], B),
           NEW columns, NEW cell, \A a \in A, b \in B : cell[b][a] = f[a][b],
           \A b \in B : columns[b] = Sum(cell[b], A)
    PROVE  Sum(rows, A) = Sum(columns, B)
<1>1. Sum(RowSums(f, A, B), A) = Sum(RowSums(Exchanged(f, A, B), B, A), B)
  BY SumTable
<1>2. Sum(RowSums(f, A, B), A) = Sum(rows, A)
  <2> DEFINE c == RowSums(f, A, B)
  <2>1. \A a \in A : c[a] = rows[a]
    BY DEF RowSums
  <2> HIDE DEF c
  <2>2. Sum(c, A) = Sum(rows, A)
    BY <2>1, SumSame
  <2> QED
    BY <2>2 DEF c
<1>3. \A b \in B : Sum(Exchanged(f, A, B)[b], A) = Sum(cell[b], A)
  <2> TAKE b \in B
  <2> DEFINE c == Exchanged(f, A, B)[b]
             d == cell[b]
  <2>1. \A a \in A : c[a] = d[a]
    BY DEF Exchanged
  <2> HIDE DEF c, d
  <2>2. Sum(c, A) = Sum(d, A)
    BY ONLY IsFiniteSet(A), <2>1, SumSame
  <2> QED
    BY <2>2 DEF c, d
<1>4. Sum(RowSums(Exchanged(f, A, B), B, A), B) = Sum(columns, B)
  <2> DEFINE c == RowSums(Exchanged(f, A, B), B, A)
  <2>1. \A b \in B : c[b] = columns[b]
    BY <1>3 DEF RowSums
  <2> HIDE DEF c
  <2>2. Sum(c, B) = Sum(columns, B)
    BY ONLY IsFiniteSet(B), <2>1, SumSame
  <2> QED
    BY <2>2 DEF c
<1> QED
  BY <1>1, <1>2, <1>4

\* A finite set of numbers has a largest one.
LEMMA MaxIsGreatest ==
    ASSUME NEW T \in SUBSET Nat, IsFiniteSet(T), T # {}
    PROVE  Max(T) \in T /\ \A m \in T : m <= Max(T)
<1> DEFINE F == {r \in SUBSET T : r # {} /\ ~ \E x \in r : \A y \in r : x >= y}
<1>1. ASSUME NEW r \in SUBSET T, \A x \in r : r \ {x} \notin F
      PROVE  r \notin F
  <2> SUFFICES ASSUME r # {} PROVE \E x \in r : \A y \in r : x >= y
    OBVIOUS
  <2>1. PICK z \in r : TRUE
    OBVIOUS
  <2>2. CASE r \ {z} = {}
    BY <2>1, <2>2
  <2>3. CASE r \ {z} # {}
    <3>1. PICK x \in r \ {z} : \A y \in r \ {z} : x >= y
      BY <1>1, <2>1, <2>3
    <3>2. x \in Nat /\ z \in Nat /\ \A y \in r : y \in Nat
      OBVIOUS
    <3>3. CASE x >= z
      BY <3>1, <3>2, <3>3
    <3>4. CASE z >= x
      <4>1. \A y \in r : z >= y
        BY <3>1, <3>2, <3>4
      <4> QED
        BY <4>1
    <3> QED
      BY <3>2, <3>3, <3>4
  <2> QED
    BY <2>2, <2>3
<1>2. F = {}
  <2>1. F \in SUBSET SUBSET T
    OBVIOUS
  <2> HIDE DEF F
  <2> QED
    BY <1>1, <2>1, NoLeastSet
<1>3. \E x \in T : \A y \in T : x >= y
  BY <1>2
<1> QED
  BY <1>3 DEF Max

\* Numbers modulo the size of the table.
LEMMA ModRange ==
    ASSUME NEW n \in Nat \ {0}, NEW a \in Int
    PROVE  a % n \in 0 .. n - 1
OBVIOUS

\* Which numbers below n, and once round, are.
LEMMA ModOnce ==
    ASSUME NEW n \in Nat \ {0}, NEW a \in 0 .. n - 1
    PROVE  a % n = a /\ (a + n) % n = a
OBVIOUS

\* Smallest and largest numbers are what their names say.
LEMMA MinIsLeast ==
    ASSUME NEW T \in SUBSET Nat, T # {}
    PROVE  Min(T) \in T /\ \A m \in T : Min(T) <= m
BY LeastNat DEF Min

\* The larger of 0 and a number.
LEMMA MaxOrZero ==
    ASSUME NEW x \in Int
    PROVE  Max({0, x}) = IF x > 0 THEN x ELSE 0
BY DEF Max

\* The values a function takes on a finite set are finitely many.
LEMMA FiniteImage ==
    ASSUME NEW S, IsFiniteSet(S), NEW f
    PROVE  IsFiniteSet({f[s] : s \in S})
<1> DEFINE T == {f[s] : s \in S}
           h == [s \in S |-> f[s]]
<1>1. h \in Surjection(S, T)
  BY DEF Surjection
<1> QED
  BY <1>1, FS_Surjection

=============================================================================
