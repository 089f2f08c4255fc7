------------------------------- MODULE FoldLemmas ------------------------------
(***************************************************************************)
(* What the folds of the library compute, over sets and over sequences.  A *)
(* fold is a function chosen by its recursion equation; that one exists,   *)
(* and what it is, is proved by induction on the naturals, which here is   *)
(* that a set of naturals closed under + 1 is all of them.  A fold over a  *)
(* sequence is told by its trace: the values it has after each element.    *)
(***************************************************************************)
EXTENDS Integers, FiniteSets, Sequences, SequencesExt, Functions, FiniteSetTheorems,
        SequenceTheorems, WellFoundedInduction, TLAPS

\* A set of naturals has a least member.
LEMMA NatMin ==
  ASSUME NEW S, S \subseteq Nat, S # {}
  PROVE  \E m \in S : \A n \in S : m <= n
<1> DEFINE R == OpToRel(<, Nat)
<1>1. \A m, n \in Nat : n < m => <<n, m>> \in R
  BY DEF OpToRel
<1>2. IsWellFoundedOn(R, Nat)
  BY NatLessThanWellFounded, Zenon
<1> HIDE DEF R
<1>3. PICK m \in S : \A n \in S : ~ (<<n, m>> \in R)
  BY <1>2, WFMin, Zenon
<1>4. \A n \in S : ~ (n < m)
  BY <1>1, <1>3, Zenon
<1> QED BY <1>4

\* Induction over the naturals, for a set where the library's theorem has an operator.
LEMMA NatInduct ==
  ASSUME NEW T, T \subseteq Nat, 0 \in T, \A n \in T : n + 1 \in T
  PROVE  T = Nat
<1> DEFINE Out == Nat \ T
<1>1. SUFFICES ASSUME Out # {} PROVE FALSE
  OBVIOUS
<1>2. PICK m \in Out : \A n \in Out : m <= n
  BY <1>1, NatMin
<1>3. m # 0 /\ m - 1 \in Nat /\ m - 1 \in Out
  OBVIOUS
<1> QED BY <1>2, <1>3

Pick(s) == CHOOSE x \in s : TRUE

\* g adds up f over the subsets of S, in the order of Pick.
Adds(g, f, S) ==
  g = [s \in SUBSET S |-> IF s = {} THEN 0 ELSE f[Pick(s)] + g[s \ {Pick(s)}]]

\* SumFunctionOnSet unfolded to the function it chooses.
LEMMA SumChosen ==
  ASSUME NEW f, NEW S
  PROVE  SumFunctionOnSet(f, S) = (CHOOSE g : Adds(g, f, S))[S]
BY DEF SumFunctionOnSet, FoldFunctionOnSet, MapThenFoldSet, Adds, Pick

\* Pick picks a member.
LEMMA Picked ==
  ASSUME NEW s, s # {}
  PROVE  Pick(s) \in s
BY DEF Pick

\* A set without one of its members.
LEMMA Smaller ==
  ASSUME NEW s, IsFiniteSet(s), NEW x \in s
  PROVE  /\ IsFiniteSet(s \ {x})
         /\ Cardinality(s) \in Nat /\ Cardinality(s \ {x}) \in Nat
         /\ Cardinality(s \ {x}) = Cardinality(s) - 1
BY FS_RemoveElement, FS_CardinalityType

\* A statement about finite sets is proved by induction on their size.
LEMMA AddsExists ==
  ASSUME NEW f, NEW S, IsFiniteSet(S)
  PROVE  \E g : Adds(g, f, S)
<1> DEFINE Upto(n) == {s \in SUBSET S : Cardinality(s) <= n}
           Partial(g, n) == g = [s \in Upto(n) |-> IF s = {} THEN 0
                                       ELSE f[Pick(s)] + g[s \ {Pick(s)}]]
           T == {n \in Nat : \E g : Partial(g, n)}
<1>0. \A s \in SUBSET S : IsFiniteSet(s) /\ Cardinality(s) \in Nat
  BY FS_Subset, FS_CardinalityType
<1>1. 0 \in T
  <2>1. \A s \in Upto(0) : s = {}
    BY <1>0, FS_EmptySet
  <2>2. Partial([s \in Upto(0) |-> 0], 0)
    BY <2>1
  <2> QED BY <2>2
<1>2. ASSUME NEW n \in T PROVE n + 1 \in T
  <2>1. PICK g : Partial(g, n)
    OBVIOUS
  <2> DEFINE h == [s \in Upto(n + 1) |-> IF s = {} THEN 0
                                         ELSE f[Pick(s)] + g[s \ {Pick(s)}]]
  <2>2. \A s \in Upto(n) : s \in Upto(n + 1) /\ h[s] = g[s]
    <3>1. \A s \in Upto(n) : s \in Upto(n + 1)
      BY <1>0
    <3>2. \A s \in Upto(n) : g[s] = IF s = {} THEN 0 ELSE f[Pick(s)] + g[s \ {Pick(s)}]
      BY <2>1
    <3> QED BY <3>1, <3>2
  <2>3. \A s \in Upto(n + 1) : s # {} => s \ {Pick(s)} \in Upto(n)
    <3> SUFFICES ASSUME NEW s \in Upto(n + 1), s # {} PROVE s \ {Pick(s)} \in Upto(n)
      OBVIOUS
    <3>1. Pick(s) \in s /\ IsFiniteSet(s)
      BY <1>0, Picked
    <3>2. Cardinality(s \ {Pick(s)}) <= n
      BY <3>1, <1>0, Smaller
    <3> QED BY <3>2
  <2>4. Partial(h, n + 1)
    BY <2>2, <2>3
  <2>5. \E k : Partial(k, n + 1)
    <3> HIDE DEF h
    <3> QED BY <2>4
  <2> HIDE DEF Partial
  <2> QED BY <2>5
<1>3. T = Nat
  <2> HIDE DEF T
  <2>1. T \subseteq Nat BY DEF T
  <2> QED BY <1>1, <1>2, <2>1, NatInduct
<1>4. PICK g : Partial(g, Cardinality(S))
  BY <1>0, <1>3
<1>5. Upto(Cardinality(S)) = SUBSET S
  BY <1>0, FS_Subset
<1> QED BY <1>4, <1>5 DEF Adds

\* Two functions that add up subsets of two sets agree where both are defined.
LEMMA AddsAgree ==
  ASSUME NEW f, NEW S, NEW g, Adds(g, f, S), IsFiniteSet(S),
         NEW e, NEW T, NEW h, Adds(h, e, T), T \subseteq S,
         \A x \in T : f[x] = e[x]
  PROVE  g[T] = h[T]
<1> DEFINE N == {n \in Nat : \A s \in SUBSET T : Cardinality(s) = n => g[s] = h[s]}
<1>0. \A s \in SUBSET T : IsFiniteSet(s) /\ Cardinality(s) \in Nat
  BY FS_Subset, FS_CardinalityType
<1>g. \A s \in SUBSET T : g[s] = IF s = {} THEN 0 ELSE f[Pick(s)] + g[s \ {Pick(s)}]
  BY DEF Adds
<1>h. \A s \in SUBSET T : h[s] = IF s = {} THEN 0 ELSE e[Pick(s)] + h[s \ {Pick(s)}]
  BY DEF Adds
<1>1. 0 \in N
  <2>1. \A s \in SUBSET T : Cardinality(s) = 0 => s = {}
    BY <1>0, FS_EmptySet
  <2> QED BY <2>1, <1>g, <1>h
<1>2. ASSUME NEW n \in N PROVE n + 1 \in N
  <2> SUFFICES ASSUME NEW s \in SUBSET T, Cardinality(s) = n + 1 PROVE g[s] = h[s]
    OBVIOUS
  <2>1. s # {}
    BY FS_EmptySet
  <2>2. Pick(s) \in s
    BY <2>1, Picked
  <2>3. Cardinality(s \ {Pick(s)}) = n
    BY <2>2, <1>0, Smaller
  <2>4. g[s \ {Pick(s)}] = h[s \ {Pick(s)}]
    BY <2>3
  <2>5. f[Pick(s)] = e[Pick(s)]
    BY <2>2
  <2> QED BY <2>1, <2>4, <2>5, <1>g, <1>h
<1>3. N = Nat
  <2> HIDE DEF N
  <2>1. N \subseteq Nat BY DEF N
  <2> QED BY <1>1, <1>2, <2>1, NatInduct
<1>4. Cardinality(T) \in N
  BY <1>3, <1>0
<1> QED BY <1>4

\* The function SumFunctionOnSet chooses does add up.
LEMMA SumAdds ==
  ASSUME NEW f, NEW S, IsFiniteSet(S)
  PROVE  \E g : Adds(g, f, S) /\ SumFunctionOnSet(f, S) = g[S]
<1> DEFINE g == CHOOSE g : Adds(g, f, S)
<1>1. Adds(g, f, S)
  BY AddsExists
<1> QED BY <1>1, SumChosen

\* The sum over nothing.
LEMMA SumEmpty ==
  ASSUME NEW f
  PROVE  SumFunctionOnSet(f, {}) = 0
<1>1. PICK g : Adds(g, f, {}) /\ SumFunctionOnSet(f, {}) = g[{}]
  BY SumAdds, FS_EmptySet
<1> QED BY <1>1 DEF Adds

\* The sum depends on the values of the function only.
LEMMA SumCongruent ==
  ASSUME NEW f, NEW e, NEW S, IsFiniteSet(S), \A x \in S : f[x] = e[x]
  PROVE  SumFunctionOnSet(f, S) = SumFunctionOnSet(e, S)
<1>1. PICK g : Adds(g, f, S) /\ SumFunctionOnSet(f, S) = g[S]
  BY SumAdds
<1>2. PICK h : Adds(h, e, S) /\ SumFunctionOnSet(e, S) = h[S]
  BY SumAdds
<1> QED BY <1>1, <1>2, AddsAgree

\* The recursion SumFunctionOnSet is made of.
LEMMA SumPicked ==
  ASSUME NEW f, NEW S, IsFiniteSet(S), S # {}
  PROVE  SumFunctionOnSet(f, S) = f[Pick(S)] + SumFunctionOnSet(f, S \ {Pick(S)})
<1>1. PICK g : Adds(g, f, S) /\ SumFunctionOnSet(f, S) = g[S]
  BY SumAdds
<1> DEFINE R == S \ {Pick(S)}
<1>2. IsFiniteSet(R) /\ R \subseteq S
  BY FS_Subset
<1>3. PICK h : Adds(h, f, R) /\ SumFunctionOnSet(f, R) = h[R]
  BY <1>2, SumAdds
<1>4. g[R] = h[R]
  <2> HIDE DEF R
  <2> QED BY <1>1, <1>2, <1>3, AddsAgree
<1>5. g[S] = f[Pick(S)] + g[R]
  BY <1>1 DEF Adds
<1> QED BY <1>1, <1>3, <1>4, <1>5

\* A sum of integers is an integer.
LEMMA SumType ==
  ASSUME NEW S, IsFiniteSet(S), NEW f, \A x \in S : f[x] \in Int
  PROVE  SumFunctionOnSet(f, S) \in Int
<1> DEFINE N == {n \in Nat : \A s \in SUBSET S : Cardinality(s) = n =>
                                SumFunctionOnSet(f, s) \in Int}
<1>0. \A s \in SUBSET S : IsFiniteSet(s) /\ Cardinality(s) \in Nat
  BY FS_Subset, FS_CardinalityType
<1>1. 0 \in N
  BY <1>0, FS_EmptySet, SumEmpty
<1>2. ASSUME NEW n \in N PROVE n + 1 \in N
  <2> SUFFICES ASSUME NEW s \in SUBSET S, Cardinality(s) = n + 1
               PROVE  SumFunctionOnSet(f, s) \in Int
    OBVIOUS
  <2>1. s # {} /\ IsFiniteSet(s)
    BY <1>0, FS_EmptySet
  <2>2. Pick(s) \in s
    BY <2>1, Picked
  <2>3. Cardinality(s \ {Pick(s)}) = n
    BY <2>1, <2>2, Smaller
  <2>4. SumFunctionOnSet(f, s \ {Pick(s)}) \in Int
    BY <2>3
  <2> QED BY <2>1, <2>2, <2>4, SumPicked
<1>3. N = Nat
  <2> HIDE DEF N
  <2>1. N \subseteq Nat BY DEF N
  <2> QED BY <1>1, <1>2, <2>1, NatInduct
<1>4. Cardinality(S) \in N
  BY <1>3, <1>0
<1> QED BY <1>4

\* The order of addition does not matter.
LEMMA SumRemove ==
  ASSUME NEW S, IsFiniteSet(S), NEW f, \A x \in S : f[x] \in Int, NEW x \in S
  PROVE  SumFunctionOnSet(f, S) = f[x] + SumFunctionOnSet(f, S \ {x})
<1> DEFINE Sum(s) == SumFunctionOnSet(f, s)
           N == {n \in Nat : \A s \in SUBSET S : Cardinality(s) = n =>
                   \A y \in s : Sum(s) = f[y] + Sum(s \ {y})}
<1>0. \A s \in SUBSET S : IsFiniteSet(s) /\ Cardinality(s) \in Nat /\ Sum(s) \in Int
  BY FS_Subset, FS_CardinalityType, SumType
<1>p. \A s \in SUBSET S : s # {} => Pick(s) \in s /\ Sum(s) = f[Pick(s)] + Sum(s \ {Pick(s)})
  BY <1>0, SumPicked, Picked
<1>c. \A s \in SUBSET S : \A y \in s : Cardinality(s \ {y}) = Cardinality(s) - 1
  BY <1>0, Smaller
<1>e. Cardinality({}) = 0
  BY FS_EmptySet
<1> HIDE DEF Sum
<1>1. 0 \in N
  <2>1. \A s \in SUBSET S : Cardinality(s) = 0 => s = {}
    BY <1>0, FS_EmptySet
  <2> QED BY <2>1
<1>2. ASSUME NEW n \in N PROVE n + 1 \in N
  <2> SUFFICES ASSUME NEW s \in SUBSET S, Cardinality(s) = n + 1, NEW y \in s
               PROVE  Sum(s) = f[y] + Sum(s \ {y})
    OBVIOUS
  <2> DEFINE p == Pick(s)
  <2>1. p \in s /\ Sum(s) = f[p] + Sum(s \ {p})
    BY <1>p
  <2>2. CASE y = p
    BY <2>1, <2>2
  <2>3. CASE y # p
    <3> HIDE DEF p
    <3>1. Sum(s \ {p}) = f[y] + Sum((s \ {p}) \ {y})
      <4>1. s \ {p} \in SUBSET S /\ Cardinality(s \ {p}) = n /\ y \in s \ {p}
        BY <1>c, <2>1, <2>3
      <4> QED BY <4>1
    <3>2. Sum(s \ {y}) = f[p] + Sum((s \ {y}) \ {p})
      <4>1. s \ {y} \in SUBSET S /\ Cardinality(s \ {y}) = n /\ p \in s \ {y}
        BY <1>c, <2>1, <2>3
      <4> QED BY <4>1
    <3>3. (s \ {p}) \ {y} = (s \ {y}) \ {p}
      OBVIOUS
    <3>4. f[y] \in Int /\ f[p] \in Int /\ Sum((s \ {p}) \ {y}) \in Int
      BY <1>0, <2>1
    <3>5. Sum(s \ {y}) = f[p] + Sum((s \ {p}) \ {y})
      BY <3>2, <3>3, Zenon
    <3> QED BY <2>1, <3>1, <3>4, <3>5
  <2> QED BY <2>2, <2>3
<1>3. N = Nat
  <2> HIDE DEF N
  <2>1. N \subseteq Nat BY DEF N
  <2> QED BY <1>1, <1>2, <2>1, NatInduct
<1>4. Cardinality(S) \in N
  BY <1>3, <1>0
<1> QED BY <1>4 DEF Sum

\* Leaving some elements out takes their part off the sum, and makes it no larger.
LEMMA SumSplit ==
  ASSUME NEW S, IsFiniteSet(S), NEW f, \A x \in S : f[x] \in Int, NEW T \in SUBSET S
  PROVE  SumFunctionOnSet(f, S) = SumFunctionOnSet(f, T) + SumFunctionOnSet(f, S \ T)
<1> DEFINE Sum(s) == SumFunctionOnSet(f, s)
           N == {n \in Nat : \A s \in SUBSET S : Cardinality(s) = n =>
                   Sum(S) = Sum(s) + Sum(S \ s)}
<1>0. \A s \in SUBSET S : IsFiniteSet(s) /\ Cardinality(s) \in Nat /\ Sum(s) \in Int
  BY FS_Subset, FS_CardinalityType, SumType
<1>r. \A s \in SUBSET S : \A y \in s : Sum(s) = f[y] + Sum(s \ {y})
  <2> SUFFICES ASSUME NEW s \in SUBSET S, NEW y \in s PROVE Sum(s) = f[y] + Sum(s \ {y})
    OBVIOUS
  <2> QED BY <1>0, SumRemove
<1>c. \A s \in SUBSET S : \A y \in s : Cardinality(s \ {y}) = Cardinality(s) - 1
  BY <1>0, Smaller
<1>e. Sum({}) = 0 /\ Cardinality({}) = 0
  BY SumEmpty, FS_EmptySet
<1> HIDE DEF Sum
<1>1. 0 \in N
  <2>1. \A s \in SUBSET S : Cardinality(s) = 0 => s = {}
    BY <1>0, FS_EmptySet
  <2>2. S \ {} = S /\ Sum(S) \in Int
    BY <1>0
  <2>3. Sum(S) = Sum({}) + Sum(S \ {})
    BY <2>2, <1>e
  <2> QED BY <2>1, <2>3
<1>2. ASSUME NEW n \in N PROVE n + 1 \in N
  <2> SUFFICES ASSUME NEW s \in SUBSET S, Cardinality(s) = n + 1
               PROVE  Sum(S) = Sum(s) + Sum(S \ s)
    OBVIOUS
  <2>1. PICK y : y \in s
    BY <1>e
  <2>2. s \ {y} \in SUBSET S /\ Cardinality(s \ {y}) = n
    BY <1>c, <2>1
  <2>3. Sum(S) = Sum(s \ {y}) + Sum(S \ (s \ {y}))
    BY <2>2
  <2>4. Sum(s) = f[y] + Sum(s \ {y})
    BY <1>r, <2>1
  <2>5. Sum(S \ (s \ {y})) = f[y] + Sum(S \ s)
    <3>1. (S \ (s \ {y})) \ {y} = S \ s /\ y \in S \ (s \ {y})
      BY <2>1
    <3> QED BY <1>r, <3>1
  <2>6. Sum(s \ {y}) \in Int /\ Sum(S \ s) \in Int /\ f[y] \in Int
    BY <1>0, <2>1, <2>2
  <2> QED BY <2>3, <2>4, <2>5, <2>6
<1>3. N = Nat
  <2> HIDE DEF N
  <2>1. N \subseteq Nat BY DEF N
  <2> QED BY <1>1, <1>2, <2>1, NatInduct
<1>4. Cardinality(T) \in N
  BY <1>3, <1>0
<1> QED BY <1>4 DEF Sum

\* A sum of naturals is a natural.
LEMMA SumNat ==
  ASSUME NEW S, IsFiniteSet(S), NEW f, \A x \in S : f[x] \in Nat
  PROVE  SumFunctionOnSet(f, S) \in Nat
<1> DEFINE N == {n \in Nat : \A s \in SUBSET S : Cardinality(s) = n =>
                                SumFunctionOnSet(f, s) \in Nat}
<1>0. \A s \in SUBSET S : IsFiniteSet(s) /\ Cardinality(s) \in Nat
  BY FS_Subset, FS_CardinalityType
<1>1. 0 \in N
  BY <1>0, FS_EmptySet, SumEmpty
<1>2. ASSUME NEW n \in N PROVE n + 1 \in N
  <2> SUFFICES ASSUME NEW s \in SUBSET S, Cardinality(s) = n + 1
               PROVE  SumFunctionOnSet(f, s) \in Nat
    OBVIOUS
  <2>1. s # {} /\ IsFiniteSet(s)
    BY <1>0, FS_EmptySet
  <2>2. Pick(s) \in s
    BY <2>1, Picked
  <2>3. Cardinality(s \ {Pick(s)}) = n
    BY <2>1, <2>2, Smaller
  <2>4. SumFunctionOnSet(f, s \ {Pick(s)}) \in Nat
    BY <2>3
  <2> QED BY <2>1, <2>2, <2>4, SumPicked
<1>3. N = Nat
  <2> HIDE DEF N
  <2>1. N \subseteq Nat BY DEF N
  <2> QED BY <1>1, <1>2, <2>1, NatInduct
<1>4. Cardinality(S) \in N
  BY <1>3, <1>0
<1> QED BY <1>4

\* As many ones as there are members.
LEMMA SumOfOnes ==
  ASSUME NEW S, IsFiniteSet(S), NEW f, \A x \in S : f[x] = 1
  PROVE  SumFunctionOnSet(f, S) = Cardinality(S)
<1> DEFINE N == {n \in Nat : \A s \in SUBSET S : Cardinality(s) = n =>
                                SumFunctionOnSet(f, s) = n}
<1>0. \A s \in SUBSET S : IsFiniteSet(s) /\ Cardinality(s) \in Nat
  BY FS_Subset, FS_CardinalityType
<1>1. 0 \in N
  BY <1>0, FS_EmptySet, SumEmpty
<1>2. ASSUME NEW n \in N PROVE n + 1 \in N
  <2> SUFFICES ASSUME NEW s \in SUBSET S, Cardinality(s) = n + 1
               PROVE  SumFunctionOnSet(f, s) = n + 1
    OBVIOUS
  <2>1. s # {} /\ IsFiniteSet(s)
    BY <1>0, FS_EmptySet
  <2>2. Pick(s) \in s
    BY <2>1, Picked
  <2>3. Cardinality(s \ {Pick(s)}) = n
    BY <2>1, <2>2, Smaller
  <2>4. SumFunctionOnSet(f, s \ {Pick(s)}) = n
    BY <2>3
  <2>5. f[Pick(s)] = 1
    BY <2>2
  <2> QED BY <2>1, <2>4, <2>5, SumPicked
<1>3. N = Nat
  <2> HIDE DEF N
  <2>1. N \subseteq Nat BY DEF N
  <2> QED BY <1>1, <1>2, <2>1, NatInduct
<1>4. Cardinality(S) \in N
  BY <1>3, <1>0
<1> QED BY <1>4

\* A sum is the sum of the sums of its parts: c tells the part of each member.
LEMMA SumParts ==
  ASSUME NEW S, IsFiniteSet(S), NEW f, \A x \in S : f[x] \in Int, NEW c,
         NEW I, IsFiniteSet(I)
  PROVE  SumFunctionOnSet([i \in I |-> SumFunctionOnSet(f, {x \in S : c[x] = i})], I)
           = SumFunctionOnSet(f, {x \in S : c[x] \in I})
<1> DEFINE Of(T) == {x \in S : c[x] \in T}
           Only(i) == {x \in S : c[x] = i}
           g == [i \in I |-> SumFunctionOnSet(f, Only(i))]
           N == {n \in Nat : \A T \in SUBSET I : Cardinality(T) = n =>
                   SumFunctionOnSet(g, T) = SumFunctionOnSet(f, Of(T))}
<1>0. \A T \in SUBSET I : IsFiniteSet(T) /\ Cardinality(T) \in Nat
  BY FS_Subset, FS_CardinalityType
<1>a. \A i \in I : g[i] \in Int
  <2> SUFFICES ASSUME NEW i \in I PROVE g[i] \in Int
    OBVIOUS
  <2>1. IsFiniteSet(Only(i)) /\ \A x \in Only(i) : f[x] \in Int
    BY FS_Subset
  <2>2. SumFunctionOnSet(f, Only(i)) \in Int
    <3>. HIDE DEF Only
    <3>. QED BY <2>1, SumType
  <2> QED BY <2>2
<1>1. 0 \in N
  <2>1. \A T \in SUBSET I : Cardinality(T) = 0 => T = {}
    BY <1>0, FS_EmptySet
  <2>2. Of({}) = {}
    OBVIOUS
  <2>3. SumFunctionOnSet(g, {}) = 0 /\ SumFunctionOnSet(f, {}) = 0
    <3>. HIDE DEF g
    <3>. QED BY SumEmpty
  <2>. HIDE DEF g, Of
  <2> QED BY <2>1, <2>2, <2>3
<1>2. ASSUME NEW n \in N PROVE n + 1 \in N
  <2> SUFFICES ASSUME NEW T \in SUBSET I, Cardinality(T) = n + 1
               PROVE  SumFunctionOnSet(g, T) = SumFunctionOnSet(f, Of(T))
    OBVIOUS
  <2>1. T # {} /\ IsFiniteSet(T)
    BY <1>0, FS_EmptySet
  <2>2. PICK i \in T : TRUE
    BY <2>1
  <2> DEFINE R == T \ {i}
  <2>3. Cardinality(R) = n /\ R \in SUBSET I
    <3>1. Cardinality(R) = Cardinality(T) - 1
      BY <2>1, FS_RemoveElement
    <3>. QED BY <3>1
  <2>4. SumFunctionOnSet(g, R) = SumFunctionOnSet(f, Of(R))
    BY <2>3
  <2>5. SumFunctionOnSet(g, T) = g[i] + SumFunctionOnSet(g, R)
    <3>1. \A x \in T : g[x] \in Int
      BY <1>a
    <3>. HIDE DEF g
    <3>. QED BY <2>1, <3>1, SumRemove
  <2>6. g[i] = SumFunctionOnSet(f, Only(i))
    OBVIOUS
  <2>7. /\ Only(i) \in SUBSET Of(T) /\ Of(T) \ Only(i) = Of(R)
        /\ IsFiniteSet(Of(T)) /\ \A x \in Of(T) : f[x] \in Int
    <3>1. IsFiniteSet(Of(T))
      BY FS_Subset
    <3>. QED BY <3>1
  <2>. HIDE DEF g, Of, Only, R
  <2>8. SumFunctionOnSet(f, Of(T)) = SumFunctionOnSet(f, Only(i)) + SumFunctionOnSet(f, Of(R))
    BY <2>7, SumSplit
  <2> QED BY <2>4, <2>5, <2>6, <2>8
<1>3. N = Nat
  <2>. HIDE DEF N
  <2>1. N \subseteq Nat
    BY DEF N
  <2> QED BY <1>1, <1>2, <2>1, NatInduct
<1>4. SumFunctionOnSet(g, I) = SumFunctionOnSet(f, Of(I))
  <2>1. Cardinality(I) \in N /\ I \in SUBSET I
    BY <1>0, <1>3
  <2> QED BY <2>1
<1> QED BY <1>4

\* What a function makes of a finite set is finite.
LEMMA ImageFinite ==
  ASSUME NEW S, IsFiniteSet(S), NEW f
  PROVE  IsFiniteSet({f[x] : x \in S})
<1> DEFINE T == {f[x] : x \in S}
           g == [x \in S |-> f[x]]
<1>1. g \in Surjection(S, T)
  BY DEF Surjection
<1> HIDE DEF g, T
<1>2. IsFiniteSet(T)
  BY <1>1, FS_Surjection
<1> QED BY <1>2 DEF T

LEMMA SumOfOne ==
  ASSUME NEW f, NEW x, f[x] \in Int
  PROVE  SumFunctionOnSet(f, {x}) = f[x]
<1>1. IsFiniteSet({x}) /\ x \in {x} /\ {x} \ {x} = {}
  BY FS_Singleton
<1>2. SumFunctionOnSet(f, {x}) = f[x] + SumFunctionOnSet(f, {x} \ {x})
  BY <1>1, SumRemove
<1> QED BY <1>1, <1>2, SumEmpty

\* The sum of sums, member by member.
LEMMA SumAdded ==
  ASSUME NEW S, IsFiniteSet(S), NEW f, NEW e, NEW h,
         \A x \in S : f[x] \in Int /\ e[x] \in Int /\ h[x] = f[x] + e[x]
  PROVE  SumFunctionOnSet(h, S) = SumFunctionOnSet(f, S) + SumFunctionOnSet(e, S)
<1> DEFINE N == {n \in Nat : \A s \in SUBSET S : Cardinality(s) = n =>
                   SumFunctionOnSet(h, s) = SumFunctionOnSet(f, s) + SumFunctionOnSet(e, s)}
<1>0. \A s \in SUBSET S : IsFiniteSet(s) /\ Cardinality(s) \in Nat
  BY FS_Subset, FS_CardinalityType
<1>1. 0 \in N
  <2>1. \A s \in SUBSET S : Cardinality(s) = 0 => s = {}
    BY <1>0, FS_EmptySet
  <2>2. SumFunctionOnSet(h, {}) = SumFunctionOnSet(f, {}) + SumFunctionOnSet(e, {})
    BY SumEmpty
  <2> QED BY <2>1, <2>2
<1>2. ASSUME NEW n \in N PROVE n + 1 \in N
  <2> SUFFICES ASSUME NEW s \in SUBSET S, Cardinality(s) = n + 1
               PROVE  SumFunctionOnSet(h, s) = SumFunctionOnSet(f, s) + SumFunctionOnSet(e, s)
    OBVIOUS
  <2> DEFINE x == Pick(s)
             r == s \ {x}
  <2>1. s # {} /\ IsFiniteSet(s)
    BY <1>0, FS_EmptySet
  <2>2. x \in s
    BY <2>1, Picked
  <2> HIDE DEF x
  <2>3. Cardinality(r) = n
    <3>1. n \in Nat /\ Cardinality(s) = n + 1
      OBVIOUS
    <3>2. Cardinality(s \ {x}) = Cardinality(s) - 1
      BY <2>1, <2>2, Smaller
    <3> QED BY <3>1, <3>2
  <2>4. IsFiniteSet(r) /\ \A y \in r : f[y] \in Int /\ e[y] \in Int
    BY <1>0
  <2> HIDE DEF x, r
  <2>5. SumFunctionOnSet(f, r) \in Int /\ SumFunctionOnSet(e, r) \in Int
    BY <2>4, SumType
  <2>6. SumFunctionOnSet(h, r) = SumFunctionOnSet(f, r) + SumFunctionOnSet(e, r)
    BY <2>3 DEF r
  <2>7. /\ SumFunctionOnSet(h, s) = h[x] + SumFunctionOnSet(h, r)
        /\ SumFunctionOnSet(f, s) = f[x] + SumFunctionOnSet(f, r)
        /\ SumFunctionOnSet(e, s) = e[x] + SumFunctionOnSet(e, r)
    BY <2>1, SumPicked DEF x, r
  <2>8. f[x] \in Int /\ e[x] \in Int /\ h[x] = f[x] + e[x]
    BY <2>2
  <2> QED BY <2>5, <2>6, <2>7, <2>8
<1>3. N = Nat
  <2> HIDE DEF N
  <2>1. N \subseteq Nat BY DEF N
  <2> QED BY <1>1, <1>2, <2>1, NatInduct
<1>4. Cardinality(S) \in N
  BY <1>3, <1>0
<1> QED BY <1>4

\* A factor of every member is one of the sum.
LEMMA SumTimes ==
  ASSUME NEW S, IsFiniteSet(S), NEW f, NEW h, NEW k \in Int,
         \A x \in S : f[x] \in Int /\ h[x] = f[x] * k
  PROVE  SumFunctionOnSet(h, S) = SumFunctionOnSet(f, S) * k
<1> DEFINE N == {n \in Nat : \A s \in SUBSET S : Cardinality(s) = n =>
                   SumFunctionOnSet(h, s) = SumFunctionOnSet(f, s) * k}
<1>0. \A s \in SUBSET S : IsFiniteSet(s) /\ Cardinality(s) \in Nat
  BY FS_Subset, FS_CardinalityType
<1>1. 0 \in N
  <2>1. \A s \in SUBSET S : Cardinality(s) = 0 => s = {}
    BY <1>0, FS_EmptySet
  <2>2. SumFunctionOnSet(h, {}) = SumFunctionOnSet(f, {}) * k
    BY SumEmpty
  <2> QED BY <2>1, <2>2
<1>2. ASSUME NEW n \in N PROVE n + 1 \in N
  <2> SUFFICES ASSUME NEW s \in SUBSET S, Cardinality(s) = n + 1
               PROVE  SumFunctionOnSet(h, s) = SumFunctionOnSet(f, s) * k
    OBVIOUS
  <2> DEFINE x == Pick(s)
             r == s \ {x}
             a == SumFunctionOnSet(f, r)
  <2>1. s # {} /\ IsFiniteSet(s)
    BY <1>0, FS_EmptySet
  <2>2. x \in s
    BY <2>1, Picked
  <2> HIDE DEF x
  <2>3. Cardinality(r) = n
    <3>1. n \in Nat /\ Cardinality(s) = n + 1
      OBVIOUS
    <3>2. Cardinality(s \ {x}) = Cardinality(s) - 1
      BY <2>1, <2>2, Smaller
    <3> QED BY <3>1, <3>2
  <2>4. IsFiniteSet(r) /\ \A y \in r : f[y] \in Int
    BY <1>0
  <2> HIDE DEF x, r
  <2>5. a \in Int
    BY <2>4, SumType
  <2>6. SumFunctionOnSet(h, r) = a * k
    BY <2>3 DEF r
  <2>7. /\ SumFunctionOnSet(h, s) = h[x] + SumFunctionOnSet(h, r)
        /\ SumFunctionOnSet(f, s) = f[x] + a
    BY <2>1, SumPicked DEF x, r
  <2>8. f[x] \in Int /\ h[x] = f[x] * k
    BY <2>2
  <2> HIDE DEF a
  <2>9. f[x] * k + a * k = (f[x] + a) * k
    BY <2>5, <2>8
  <2> QED BY <2>6, <2>7, <2>8, <2>9
<1>3. N = Nat
  <2> HIDE DEF N
  <2>1. N \subseteq Nat BY DEF N
  <2> QED BY <1>1, <1>2, <2>1, NatInduct
<1>4. Cardinality(S) \in N
  BY <1>3, <1>0
<1> QED BY <1>4

\* What three things of a member cost at the same prices.
LEMMA SumLinear ==
  ASSUME NEW S, IsFiniteSet(S), NEW a, NEW b, NEW c, NEW k \in Int, NEW l \in Int, NEW m \in Int,
         NEW h, \A x \in S : a[x] \in Int /\ b[x] \in Int /\ c[x] \in Int,
         \A x \in S : h[x] = a[x] * k + b[x] * l + c[x] * m
  PROVE  SumFunctionOnSet(h, S) = SumFunctionOnSet(a, S) * k + SumFunctionOnSet(b, S) * l
                                    + SumFunctionOnSet(c, S) * m
<1> DEFINE ak == [x \in S |-> a[x] * k]
           bl == [x \in S |-> b[x] * l]
           cm == [x \in S |-> c[x] * m]
           ab == [x \in S |-> ak[x] + bl[x]]
<1>1. \A x \in S : ak[x] = a[x] * k /\ bl[x] = b[x] * l /\ cm[x] = c[x] * m
  OBVIOUS
<1>2. \A x \in S : ak[x] \in Int /\ bl[x] \in Int /\ cm[x] \in Int
  BY <1>1
<1>3. \A x \in S : ab[x] = ak[x] + bl[x]
  OBVIOUS
<1> HIDE DEF ak, bl, cm, ab
<1>4. \A x \in S : ab[x] \in Int /\ h[x] = ab[x] + cm[x]
  BY <1>1, <1>2, <1>3
<1>5. /\ SumFunctionOnSet(ak, S) = SumFunctionOnSet(a, S) * k
      /\ SumFunctionOnSet(bl, S) = SumFunctionOnSet(b, S) * l
      /\ SumFunctionOnSet(cm, S) = SumFunctionOnSet(c, S) * m
  BY <1>1, SumTimes
<1>6. SumFunctionOnSet(ab, S) = SumFunctionOnSet(ak, S) + SumFunctionOnSet(bl, S)
  BY <1>2, <1>3, SumAdded
<1>7. SumFunctionOnSet(h, S) = SumFunctionOnSet(ab, S) + SumFunctionOnSet(cm, S)
  BY <1>2, <1>4, SumAdded
<1> QED BY <1>5, <1>6, <1>7

LEMMA SumOfZeros ==
  ASSUME NEW S, IsFiniteSet(S), NEW f, \A x \in S : f[x] = 0
  PROVE  SumFunctionOnSet(f, S) = 0
<1>1. \A x \in S : f[x] \in Int
  OBVIOUS
<1>2. \A x \in S : f[x] \in Int /\ f[x] \in Int /\ f[x] = f[x] + f[x]
  OBVIOUS
<1>3. SumFunctionOnSet(f, S) = SumFunctionOnSet(f, S) + SumFunctionOnSet(f, S)
  BY <1>2, SumAdded
<1>4. SumFunctionOnSet(f, S) \in Int
  BY <1>1, SumType
<1> DEFINE a == SumFunctionOnSet(f, S)
<1> HIDE DEF a
<1>5. a \in Int /\ a = a + a
  BY <1>3, <1>4 DEF a
<1>6. a = 0
  BY <1>5
<1> QED BY <1>6 DEF a

\* The members of T count as one, the others do not.
LEMMA SumCounts ==
  ASSUME NEW S, IsFiniteSet(S), NEW T \in SUBSET S, NEW f,
         \A x \in T : f[x] = 1, \A x \in S \ T : f[x] = 0
  PROVE  SumFunctionOnSet(f, S) = Cardinality(T)
<1>1. IsFiniteSet(T) /\ IsFiniteSet(S \ T) /\ Cardinality(T) \in Nat
  BY FS_Subset, FS_CardinalityType
<1>2. SumFunctionOnSet(f, T) = Cardinality(T)
  BY <1>1, SumOfOnes
<1>3. SumFunctionOnSet(f, S \ T) = 0
  BY <1>1, SumOfZeros
<1>4. \A x \in S : f[x] \in Int
  OBVIOUS
<1>5. SumFunctionOnSet(f, S) = SumFunctionOnSet(f, T) + SumFunctionOnSet(f, S \ T)
  BY <1>4, SumSplit
<1> QED BY <1>1, <1>2, <1>3, <1>5

\* g has the sums of the parts: c tells the part of each member.
PartSums(g, f, S, c, I) ==
  \A i \in I : g[i] = SumFunctionOnSet(f, {x \in S : c[x] = i})

\* When every member is in one of the parts, their sums add up to the sum.
LEMMA SumClasses ==
  ASSUME NEW S, IsFiniteSet(S), NEW f, \A x \in S : f[x] \in Int, NEW c,
         NEW I, IsFiniteSet(I), \A x \in S : c[x] \in I, NEW g, PartSums(g, f, S, c, I)
  PROVE  SumFunctionOnSet(g, I) = SumFunctionOnSet(f, S)
<1> DEFINE e == [i \in I |-> SumFunctionOnSet(f, {x \in S : c[x] = i})]
<1>1. SumFunctionOnSet(e, I) = SumFunctionOnSet(f, {x \in S : c[x] \in I})
  BY SumParts
<1>2. {x \in S : c[x] \in I} = S
  OBVIOUS
<1>3. \A i \in I : g[i] = e[i]
  BY DEF PartSums
<1> HIDE DEF e
<1>4. SumFunctionOnSet(g, I) = SumFunctionOnSet(e, I)
  BY <1>3, SumCongruent
<1> QED BY <1>1, <1>2, <1>4

\* h has the sums of the parts that c and d tell.
GridSums(h, f, S, c, d, I, J) ==
  \A i \in I : \A j \in J : h[i][j] = SumFunctionOnSet(f, {x \in S : c[x] = i /\ d[x] = j})

RowSums(g, h, I, J) == \A i \in I : g[i] = SumFunctionOnSet(h[i], J)

\* Row by row, and then all rows, they add up to the sum.
LEMMA SumGrid ==
  ASSUME NEW S, IsFiniteSet(S), NEW f, \A x \in S : f[x] \in Int, NEW c, NEW d,
         NEW I, IsFiniteSet(I), NEW J, IsFiniteSet(J), \A x \in S : c[x] \in I /\ d[x] \in J,
         NEW g, NEW h, RowSums(g, h, I, J), GridSums(h, f, S, c, d, I, J)
  PROVE  SumFunctionOnSet(g, I) = SumFunctionOnSet(f, S)
<1>1. ASSUME NEW i \in I PROVE g[i] = SumFunctionOnSet(f, {x \in S : c[x] = i})
  <2> DEFINE R == {x \in S : c[x] = i}
             hi == h[i]
  <2>1. IsFiniteSet(R)
    BY FS_Subset
  <2>2. \A x \in R : f[x] \in Int
    OBVIOUS
  <2>3. \A x \in R : d[x] \in J
    OBVIOUS
  <2>4. \A j \in J : {x \in S : c[x] = i /\ d[x] = j} = {x \in R : d[x] = j}
    OBVIOUS
  <2>5. PartSums(hi, f, R, d, J)
    BY <2>4 DEF PartSums, GridSums
  <2>6. g[i] = SumFunctionOnSet(hi, J)
    BY DEF RowSums
  <2> HIDE DEF R, hi
  <2>7. SumFunctionOnSet(hi, J) = SumFunctionOnSet(f, R)
    BY <2>1, <2>2, <2>3, <2>5, SumClasses
  <2> QED BY <2>6, <2>7 DEF R
<1>2. \A x \in S : c[x] \in I
  OBVIOUS
<1>3. PartSums(g, f, S, c, I)
  BY <1>1 DEF PartSums
<1> QED BY <1>2, <1>3, SumClasses

\* A sum is at least that of what is less, member by member.
LEMMA SumAtLeast ==
  ASSUME NEW S, IsFiniteSet(S), NEW f, NEW e,
         \A x \in S : f[x] \in Int /\ e[x] \in Int /\ f[x] <= e[x]
  PROVE  SumFunctionOnSet(f, S) <= SumFunctionOnSet(e, S)
<1> DEFINE d == [x \in S |-> e[x] - f[x]]
<1>1. \A x \in S : d[x] \in Nat /\ d[x] \in Int /\ e[x] = f[x] + d[x]
  OBVIOUS
<1> HIDE DEF d
<1>2. SumFunctionOnSet(d, S) \in Nat
  BY <1>1, SumNat
<1>3. SumFunctionOnSet(e, S) = SumFunctionOnSet(f, S) + SumFunctionOnSet(d, S)
  BY <1>1, SumAdded
<1>4. SumFunctionOnSet(f, S) \in Int
  BY SumType
<1> QED BY <1>2, <1>3, <1>4

-------------------------------------------------------------------------------
(* Sequences *)

\* t is the trace of the step function f over s.
Traces(t, f, base, s) ==
  /\ t[0] = base
  /\ \A i \in 0..(Len(s) - 1) : t[i + 1] = f[<<t[i], s[i + 1]>>]

\* A step function has a trace over every sequence.
LEMMA TraceExists ==
  ASSUME NEW A, NEW X, NEW f \in [A \X X -> A], NEW base \in A, NEW s \in Seq(X)
  PROVE  \E t \in [0..Len(s) -> A] : Traces(t, f, base, s)
<1> DEFINE Upto(t, n) == t[0] = base /\ \A i \in 1..n : t[i] = f[<<t[i - 1], s[i]>>]
           T == {n \in Nat : n <= Len(s) => \E t \in [0..n -> A] : Upto(t, n)}
<1>0. Len(s) \in Nat /\ \A i \in 1..Len(s) : s[i] \in X
  OBVIOUS
<1>1. 0 \in T
  <2>1. [i \in 0..0 |-> base] \in [0..0 -> A]
    OBVIOUS
  <2>2. Upto([i \in 0..0 |-> base], 0)
    OBVIOUS
  <2>3. \E t \in [0..0 -> A] : Upto(t, 0)
    BY <2>1, <2>2
  <2> QED BY <2>3
<1>2. ASSUME NEW n \in T PROVE n + 1 \in T
  <2> SUFFICES ASSUME n + 1 <= Len(s) PROVE \E t \in [0..(n + 1) -> A] : Upto(t, n + 1)
    OBVIOUS
  <2>n. n \in Nat /\ n <= Len(s)
    BY <1>0
  <2>1. PICK t \in [0..n -> A] : Upto(t, n)
    BY <2>n
  <2>2. t[n] \in A /\ s[n + 1] \in X
    BY <1>0, <2>n
  <2> DEFINE u == [i \in 0..(n + 1) |-> IF i = n + 1 THEN f[<<t[n], s[n + 1]>>] ELSE t[i]]
  <2>3. f[<<t[n], s[n + 1]>>] \in A
    BY <2>2
  <2>4. u \in [0..(n + 1) -> A]
    <3>1. ASSUME NEW i \in 0..(n + 1), i # n + 1 PROVE t[i] \in A
      <4>1. i \in 0..n
        BY <3>1, <2>n
      <4> QED BY <4>1
    <3> QED BY <3>1, <2>3
  <2>5. u[0] = base
    BY <2>1, <2>n
  <2>6. ASSUME NEW i \in 1..(n + 1) PROVE u[i] = f[<<u[i - 1], s[i]>>]
    <3>1. i - 1 \in 0..(n + 1) /\ i - 1 # n + 1
      BY <2>n
    <3>2. u[i - 1] = t[i - 1]
      BY <3>1
    <3>3. CASE i = n + 1
      <4>1. n + 1 \in 0..(n + 1) /\ n + 1 - 1 = n
        BY <2>n
      <4>2. u[n + 1] = f[<<t[n], s[n + 1]>>]
        BY <4>1
      <4>3. u[n] = t[n] /\ i - 1 = n
        BY <4>1, <3>2, <3>3, <2>n
      <4> HIDE DEF u
      <4> QED BY <4>2, <4>3, <3>3
    <3>4. CASE i # n + 1
      <4>1. i \in 1..n /\ i \in 0..(n + 1)
        BY <3>4, <2>n
      <4>2. u[i] = t[i]
        BY <4>1, <3>4
      <4> QED BY <4>1, <4>2, <3>2, <2>1
    <3> QED BY <3>3, <3>4
  <2>7. Upto(u, n + 1)
    <3> HIDE DEF u
    <3> QED BY <2>5, <2>6
  <2> HIDE DEF u
  <2> QED BY <2>4, <2>7
<1>3. T = Nat
  <2> HIDE DEF T
  <2>1. T \subseteq Nat BY DEF T
  <2> QED BY <1>1, <1>2, <2>1, NatInduct
<1>4. Len(s) \in T
  BY <1>3, <1>0
<1>5. PICK t \in [0..Len(s) -> A] : Upto(t, Len(s))
  BY <1>4
<1>6. ASSUME NEW i \in 0..(Len(s) - 1) PROVE t[i + 1] = f[<<t[i], s[i + 1]>>]
  <2> DEFINE n == i + 1
  <2>1. n \in 1..Len(s) /\ n - 1 = i
    BY <1>0
  <2> HIDE DEF n
  <2>2. t[n] = f[<<t[n - 1], s[n]>>]
    BY <2>1, <1>5
  <2>3. t[n] = f[<<t[i], s[n]>>]
    BY <2>1, <2>2
  <2> QED BY <2>3 DEF n
<1> QED BY <1>5, <1>6 DEF Traces

\* A property of positions that holds at 0 and passes from each to the next holds up to n.
LEMMA StepByStep ==
  ASSUME NEW n \in Nat, NEW T, 0 \in T, \A i \in 0..(n - 1) : i \in T => i + 1 \in T
  PROVE  \A i \in 0..n : i \in T
<1> DEFINE U == {i \in Nat : i <= n => i \in T}
<1>1. 0 \in U
  OBVIOUS
<1>2. ASSUME NEW i \in U PROVE i + 1 \in U
  <2> SUFFICES ASSUME i + 1 <= n PROVE i + 1 \in T
    OBVIOUS
  <2>1. i \in Nat /\ i <= n /\ i \in 0..(n - 1)
    OBVIOUS
  <2>2. i \in T
    BY <2>1
  <2> QED BY <2>1, <2>2
<1>3. U = Nat
  <2> HIDE DEF U
  <2>1. U \subseteq Nat BY DEF U
  <2> QED BY <1>1, <1>2, <2>1, NatInduct
<1> QED BY <1>3

\* A fold over subsets of 1..n, in the order of Max, for a step function.
Folds(g, f, base, s, n) ==
  \A S \in SUBSET (1..n) :
    g[S] = IF S = {} THEN base ELSE f[<<g[S \ {Max(S)}], s[Max(S)]>>]

\* The greatest of some numbers is one of them.
LEMMA MaxOfNumbers ==
  ASSUME NEW n \in Nat, NEW S \in SUBSET (1..n), S # {}
  PROVE  Max(S) \in S /\ \A x \in S : x <= Max(S)
<1> DEFINE T == {m \in Nat : \A R \in SUBSET (1..m) : R # {} => \E x \in R : \A y \in R : x >= y}
<1>1. 0 \in T
  <2>1. 1..0 = {}
    OBVIOUS
  <2> QED BY <2>1
<1>2. ASSUME NEW m \in T PROVE m + 1 \in T
  <2> SUFFICES ASSUME NEW R \in SUBSET (1..(m + 1)), R # {} PROVE \E x \in R : \A y \in R : x >= y
    OBVIOUS
  <2>1. CASE m + 1 \in R
    BY <2>1
  <2>2. CASE m + 1 \notin R
    <3>1. R \in SUBSET (1..m)
      BY <2>2
    <3> QED BY <3>1
  <2> QED BY <2>1, <2>2
<1>3. T = Nat
  <2> HIDE DEF T
  <2>1. T \subseteq Nat BY DEF T
  <2> QED BY <1>1, <1>2, <2>1, NatInduct
<1>4. \E x \in S : \A y \in S : x >= y
  BY <1>3
<1>5. Max(S) \in S /\ \A y \in S : Max(S) >= y
  BY <1>4 DEF Max
<1> QED BY <1>5

\* The greatest of the first n numbers, and the others.
LEMMA MaxOfUpto ==
  ASSUME NEW n \in Nat, n > 0
  PROVE  Max(1..n) = n /\ (1..n) \ {n} = 1..(n - 1)
<1>1. 1..n \in SUBSET (1..n) /\ 1..n # {} /\ n \in 1..n
  OBVIOUS
<1>2. Max(1..n) \in 1..n /\ n <= Max(1..n)
  BY <1>1, MaxOfNumbers
<1> QED BY <1>2

\* A fold over a sequence has a value on every set of its positions.
LEMMA FoldsExists ==
  ASSUME NEW A, NEW X, NEW f \in [A \X X -> A], NEW base \in A, NEW s \in Seq(X)
  PROVE  \E g \in [SUBSET (1..Len(s)) -> A] : Folds(g, f, base, s, Len(s))
<1> DEFINE P(n) == \E g \in [SUBSET (1..n) -> A] : Folds(g, f, base, s, n)
           T == {n \in Nat : n <= Len(s) => P(n)}
<1>0. Len(s) \in Nat /\ \A i \in 1..Len(s) : s[i] \in X
  OBVIOUS
<1>1. 0 \in T
  <2> DEFINE g == [S \in SUBSET (1..0) |-> base]
  <2>1. g \in [SUBSET (1..0) -> A]
    OBVIOUS
  <2>2. \A S \in SUBSET (1..0) : S = {}
    OBVIOUS
  <2>3. Folds(g, f, base, s, 0)
    BY <2>2 DEF Folds
  <2> HIDE DEF g
  <2>4. P(0)
    BY <2>1, <2>3
  <2> HIDE DEF P
  <2> QED BY <2>4
<1>2. ASSUME NEW n \in T PROVE n + 1 \in T
  <2> HIDE DEF P
  <2> SUFFICES ASSUME n + 1 <= Len(s) PROVE P(n + 1)
    OBVIOUS
  <2> USE DEF P
  <2>n. n \in Nat /\ n <= Len(s) /\ n + 1 \in Nat /\ s[n + 1] \in X
    BY <1>0
  <2>1. PICK g \in [SUBSET (1..n) -> A] : Folds(g, f, base, s, n)
    BY <2>n
  <2> DEFINE h == [S \in SUBSET (1..(n + 1)) |->
                     IF n + 1 \in S THEN f[<<g[S \ {n + 1}], s[n + 1]>>] ELSE g[S]]
  <2>2. ASSUME NEW S \in SUBSET (1..(n + 1))
        PROVE  S \ {n + 1} \in SUBSET (1..n) /\ (n + 1 \notin S => S \in SUBSET (1..n))
    BY <2>n
  <2>3. ASSUME NEW S \in SUBSET (1..(n + 1)) PROVE h[S] \in A
    <3>1. g[S \ {n + 1}] \in A
      BY <2>2
    <3>2. f[<<g[S \ {n + 1}], s[n + 1]>>] \in A
      BY <3>1, <2>n
    <3>3. n + 1 \notin S => g[S] \in A
      BY <2>2
    <3> QED BY <3>2, <3>3
  <2>4. h \in [SUBSET (1..(n + 1)) -> A]
    <3>1. h = [S \in SUBSET (1..(n + 1)) |-> h[S]]
      OBVIOUS
    <3> HIDE DEF h
    <3> QED BY <3>1, <2>3
  <2>5. ASSUME NEW S \in SUBSET (1..(n + 1))
        PROVE  h[S] = IF S = {} THEN base ELSE f[<<h[S \ {Max(S)}], s[Max(S)]>>]
    <3>1. CASE n + 1 \in S
      <4>1. Max(S) = n + 1
        <5>1. Max(S) \in S /\ n + 1 <= Max(S)
          BY <3>1, <2>n, MaxOfNumbers
        <5>2. Max(S) \in 1..(n + 1)
          BY <5>1
        <5> QED BY <5>1, <5>2, <2>n
      <4>2. h[S \ {n + 1}] = g[S \ {n + 1}]
        BY <2>2
      <4>3. h[S] = f[<<g[S \ {n + 1}], s[n + 1]>>]
        BY <3>1
      <4> HIDE DEF h
      <4> QED BY <4>1, <4>2, <4>3, <3>1
    <3>2. CASE n + 1 \notin S
      <4>1. S \in SUBSET (1..n) /\ S \ {Max(S)} \in SUBSET (1..n)
        BY <2>2, <3>2
      <4>2. h[S] = g[S] /\ h[S \ {Max(S)}] = g[S \ {Max(S)}]
        <5>1. S \ {Max(S)} \in SUBSET (1..(n + 1)) /\ n + 1 \notin S \ {Max(S)}
          BY <3>2
        <5> QED BY <5>1, <3>2
      <4> HIDE DEF h
      <4> QED BY <4>1, <4>2, <2>1 DEF Folds
    <3> QED BY <3>1, <3>2
  <2> HIDE DEF h
  <2>6. Folds(h, f, base, s, n + 1)
    BY <2>5 DEF Folds
  <2> QED BY <2>4, <2>6
<1>3. T = Nat
  <2> HIDE DEF T
  <2>1. T \subseteq Nat BY DEF T
  <2> QED BY <1>1, <1>2, <2>1, NatInduct
<1>4. P(Len(s))
  <2> HIDE DEF P
  <2> QED BY <1>3, <1>0
<1> QED BY <1>4

\* t puts the first m of the sequences of ss together one after the other.
Concats(t, ss, m) ==
  t[0] = <<>> /\ \A i \in 0..(m - 1) : t[i + 1] = t[i] \o ss[i + 1]

\* FlattenSeq puts the sequences together one after the other.
LEMMA FlattenTrace ==
  ASSUME NEW S, NEW ss \in Seq(Seq(S))
  PROVE  \E t \in [0..Len(ss) -> Seq(S)] :
           Concats(t, ss, Len(ss)) /\ FlattenSeq(ss) = t[Len(ss)]
<1> DEFINE f == [p \in Seq(S) \X Seq(S) |-> p[1] \o p[2]]
           Flattens(t) == t = [i \in 1..Len(ss) |-> IF i = 1 THEN ss[i] ELSE t[i - 1] \o ss[i]]
<1>0. Len(ss) \in Nat /\ \A i \in 1..Len(ss) : ss[i] \in Seq(S)
  OBVIOUS
<1>1. f \in [Seq(S) \X Seq(S) -> Seq(S)] /\ <<>> \in Seq(S)
  BY ConcatProperties
<1>2. PICK t \in [0..Len(ss) -> Seq(S)] : Traces(t, f, <<>>, ss)
  <2> HIDE DEF f
  <2> QED BY <1>1, TraceExists
<1>3. ASSUME NEW i \in 0..(Len(ss) - 1)
      PROVE  t[i] \in Seq(S) /\ t[i + 1] = t[i] \o ss[i + 1]
  <2>1. i \in 0..Len(ss) /\ i + 1 \in 1..Len(ss)
    BY <1>0
  <2>2. t[i] \in Seq(S) /\ ss[i + 1] \in Seq(S)
    BY <2>1, <1>0
  <2>3. t[i + 1] = f[<<t[i], ss[i + 1]>>]
    BY <1>2 DEF Traces
  <2> QED BY <2>2, <2>3
<1>4. t[0] = <<>>
  BY <1>2 DEF Traces
<1> HIDE DEF f
<1>5. CASE Len(ss) = 0
  <2>1. FlattenSeq(ss) = <<>>
    BY <1>5, EmptySeq DEF FlattenSeq
  <2> QED BY <2>1, <1>3, <1>4, <1>5 DEF Concats
<1>6. CASE Len(ss) # 0
  <2>1. Flattens([i \in 1..Len(ss) |-> t[i]])
    <3> DEFINE u == [i \in 1..Len(ss) |-> t[i]]
    <3>1. ASSUME NEW i \in 1..Len(ss) PROVE u[i] = IF i = 1 THEN ss[i] ELSE u[i - 1] \o ss[i]
      <4>1. CASE i = 1
        <5>1. 0 \in 0..(Len(ss) - 1) /\ 0 + 1 = 1
          BY <1>0, <1>6
        <5>2. t[1] = <<>> \o ss[1]
          BY <1>3, <1>4, <5>1
        <5>3. <<>> \o ss[1] = ss[1]
          BY <1>0, <4>1, ConcatEmptySeq
        <5> QED BY <5>2, <5>3, <4>1
      <4>2. CASE i # 1
        <5> DEFINE k == i - 1
        <5>1. k \in 0..(Len(ss) - 1) /\ k \in 1..Len(ss) /\ k + 1 = i
          BY <4>2, <1>0
        <5> HIDE DEF k
        <5>2. t[i] = t[k] \o ss[i]
          BY <5>1, <1>3
        <5>3. u[i] = u[k] \o ss[i]
          BY <5>1, <5>2
        <5> QED BY <5>3, <4>2 DEF k
      <4> QED BY <4>1, <4>2
    <3>2. u = [i \in 1..Len(ss) |-> u[i]]
      OBVIOUS
    <3> HIDE DEF u
    <3>3. Flattens(u)
      BY <3>1, <3>2
    <3> QED BY <3>3 DEF u
  <2> DEFINE F == CHOOSE g : Flattens(g)
  <2>2. Flattens(F)
    <3>1. \E g : Flattens(g)
      BY <2>1
    <3> HIDE DEF Flattens
    <3> QED BY <3>1
  <2>3. FlattenSeq(ss) = F[Len(ss)]
    BY <1>6 DEF FlattenSeq
  <2> HIDE DEF F
  <2>4. \A i \in 1..Len(ss) : F[i] = IF i = 1 THEN ss[i] ELSE F[i - 1] \o ss[i]
    BY <2>2
  <2> HIDE DEF Flattens
  <2> DEFINE T == {i \in 0..Len(ss) : i # 0 => F[i] = t[i]}
  <2>5. 0 \in T
    BY <1>0
  <2>6. ASSUME NEW i \in 0..(Len(ss) - 1), i \in T PROVE i + 1 \in T
    <3>1. i + 1 \in 1..Len(ss) /\ i + 1 \in 0..Len(ss) /\ i + 1 - 1 = i
      BY <1>0
    <3>2. t[i + 1] = t[i] \o ss[i + 1]
      BY <1>3
    <3>3. CASE i = 0
      <4>1. F[i + 1] = ss[i + 1]
        BY <3>1, <3>3, <2>4
      <4>2. t[i + 1] = ss[i + 1]
        BY <3>1, <3>2, <3>3, <1>0, <1>4, ConcatEmptySeq
      <4> QED BY <4>1, <4>2, <3>1
    <3>4. CASE i # 0
      <4>1. F[i] = t[i]
        BY <2>6, <3>4
      <4> DEFINE n == i + 1
      <4>2. n \in 1..Len(ss) /\ n # 1 /\ n - 1 = i
        BY <3>1, <3>4, <1>0
      <4> HIDE DEF n
      <4>3. F[n] = F[i] \o ss[n]
        BY <4>2, <2>4
      <4> USE DEF n
      <4> QED BY <4>1, <4>3, <3>2, <3>1
    <3> QED BY <3>3, <3>4
  <2>7. \A i \in 0..Len(ss) : i \in T
    <3> HIDE DEF T
    <3> QED BY <2>5, <2>6, <1>0, StepByStep
  <2>8. F[Len(ss)] = t[Len(ss)]
    BY <2>7, <1>6, <1>0
  <2> QED BY <2>3, <2>8, <1>3, <1>4 DEF Concats
<1> QED BY <1>5, <1>6

\* The elements put together are those of the sequences.
LEMMA FlattenType ==
  ASSUME NEW S, NEW ss \in Seq(Seq(S))
  PROVE  FlattenSeq(ss) \in Seq(S)
<1>1. PICK t \in [0..Len(ss) -> Seq(S)] : FlattenSeq(ss) = t[Len(ss)]
  BY FlattenTrace, Zenon
<1>2. Len(ss) \in 0..Len(ss)
  BY LenProperties
<1> QED BY <1>1, <1>2

\* No sequences make the empty one.
LEMMA FlattenEmpty == FlattenSeq(<<>>) = <<>>
BY EmptySeq DEF FlattenSeq

\* Concatenation associates.
Associates(S) == \A a, b, c \in Seq(S) : (a \o b) \o c = a \o (b \o c)

LEMMA ConcatAssociates ==
  ASSUME NEW S
  PROVE  Associates(S)
<1> SUFFICES ASSUME NEW a \in Seq(S), NEW b \in Seq(S), NEW c \in Seq(S)
             PROVE  (a \o b) \o c = a \o (b \o c)
  BY DEF Associates
<1> QED BY ConcatAssociative

\* Two runs of sequences are put together one after the other.
LEMMA FlattenConcat ==
  ASSUME NEW S, NEW s1 \in Seq(Seq(S)), NEW s2 \in Seq(Seq(S))
  PROVE  FlattenSeq(s1 \o s2) = FlattenSeq(s1) \o FlattenSeq(s2)
<1> DEFINE s12 == s1 \o s2
           m == Len(s1)
           k == Len(s2)
<1>0. /\ s12 \in Seq(Seq(S)) /\ m \in Nat /\ k \in Nat /\ Len(s12) = m + k
      /\ \A i \in 1..m : s12[i] = s1[i]
      /\ \A i \in 1..k : s12[m + i] = s2[i]
  BY ConcatProperties
<1> HIDE DEF s12, m, k
<1>1. PICK t \in [0..m -> Seq(S)] :
        /\ Concats(t, s1, m)
        /\ FlattenSeq(s1) = t[m]
  BY FlattenTrace DEF m
<1>2. PICK u \in [0..k -> Seq(S)] :
        /\ Concats(u, s2, k)
        /\ FlattenSeq(s2) = u[k]
  BY FlattenTrace DEF k
<1>3. PICK v \in [0..(m + k) -> Seq(S)] :
        /\ Concats(v, s12, m + k)
        /\ FlattenSeq(s12) = v[m + k]
  <2>1. \E v \in [0..Len(s12) -> Seq(S)] :
          /\ Concats(v, s12, Len(s12))
          /\ FlattenSeq(s12) = v[Len(s12)]
    BY <1>0, FlattenTrace, Zenon
  <2> QED BY <2>1, <1>0
<1>4. \A i \in 0..m : i \in {j \in 0..m : v[j] = t[j]}
  <2> DEFINE T == {j \in 0..m : v[j] = t[j]}
  <2>1. 0 \in T
    BY <1>0, <1>1, <1>3 DEF Concats
  <2>2. ASSUME NEW i \in 0..(m - 1), i \in T PROVE i + 1 \in T
    <3>1. i + 1 \in 1..m /\ i + 1 \in 1..(m + k) /\ i + 1 - 1 = i /\ i + 1 \in 0..m
      BY <1>0
    <3>2. v[i + 1] = v[i] \o s12[i + 1] /\ t[i + 1] = t[i] \o s1[i + 1]
      <4>1. i \in 0..(m - 1) /\ i \in 0..((m + k) - 1)
        BY <1>0
      <4>2. t[i + 1] = t[i] \o s1[i + 1]
        BY <4>1, <1>1 DEF Concats
      <4>3. v[i + 1] = v[i] \o s12[i + 1]
        BY <4>1, <1>3, <1>0 DEF Concats
      <4> QED BY <4>2, <4>3
    <3> QED BY <3>1, <3>2, <2>2, <1>0
  <2> HIDE DEF T
  <2>3. \A i \in 0..m : i \in T
    BY <2>1, <2>2, <1>0, StepByStep
  <2> QED BY <2>3 DEF T
<1>5. \A i \in 0..k : i \in {j \in 0..k : v[m + j] = t[m] \o u[j]}
  <2> DEFINE T == {j \in 0..k : v[m + j] = t[m] \o u[j]}
  <2>0. t[m] \in Seq(S) /\ v[m] = t[m]
    BY <1>0, <1>1, <1>4
  <2>1. 0 \in T
    <3>1. t[m] \o <<>> = t[m]
      BY <2>0, ConcatEmptySeq
    <3>2. 0 \in 0..k /\ m + 0 = m
      BY <1>0
    <3> QED BY <3>1, <3>2, <1>2, <2>0 DEF Concats
  <2>2. ASSUME NEW i \in 0..(k - 1), i \in T PROVE i + 1 \in T
    <3>1. i + 1 \in 1..k /\ m + (i + 1) \in 1..(m + k) /\ m + (i + 1) - 1 = m + i /\ i + 1 \in 0..k
          /\ i + 1 - 1 = i /\ i \in 0..k
      BY <1>0
    <3>2. v[m + (i + 1)] = v[m + i] \o s12[m + (i + 1)] /\ u[i + 1] = u[i] \o s2[i + 1]
      <4>1. m + i \in 0..((m + k) - 1) /\ m + i + 1 = m + (i + 1)
        BY <1>0
      <4>2. u[i + 1] = u[i] \o s2[i + 1]
        BY <1>2 DEF Concats
      <4>3. v[m + i + 1] = v[m + i] \o s12[m + i + 1]
        BY <4>1, <1>3, <1>0 DEF Concats
      <4> QED BY <4>1, <4>2, <4>3
    <3>3. s12[m + (i + 1)] = s2[i + 1] /\ u[i] \in Seq(S)
      BY <3>1, <1>0, Zenon
    <3>a. s2[i + 1] \in Seq(S)
      BY <3>1, ElementOfSeq DEF k
    <3>4. (t[m] \o u[i]) \o s2[i + 1] = t[m] \o (u[i] \o s2[i + 1])
      <4>1. t[m] \in Seq(S) /\ u[i] \in Seq(S) /\ s2[i + 1] \in Seq(S)
        BY <2>0, <3>3, <3>a
      <4>2. Associates(S)
        BY ConcatAssociates
      <4> QED BY <4>1, <4>2 DEF Associates
    <3>5. v[m + i] = t[m] \o u[i]
      BY <2>2
    <3>6. v[m + (i + 1)] = t[m] \o u[i + 1]
      BY <3>2, <3>3, <3>4, <3>5
    <3> QED BY <3>1, <3>6
  <2> HIDE DEF T
  <2>3. \A i \in 0..k : i \in T
    BY <2>1, <2>2, <1>0, StepByStep
  <2> QED BY <2>3 DEF T
<1>6. v[m + k] = t[m] \o u[k]
  <2>1. k \in 0..k
    BY <1>0
  <2> QED BY <1>5, <2>1, Zenon
<1> QED BY <1>6, <1>1, <1>2, <1>3 DEF s12

\* One sequence makes itself.
LEMMA FlattenOne ==
  ASSUME NEW S, NEW s \in Seq(S)
  PROVE  FlattenSeq(<<s>>) = s
<1>1. <<s>> \in Seq(Seq(S)) /\ Len(<<s>>) = 1 /\ <<s>>[1] = s
  OBVIOUS
<1>2. PICK t \in [0..1 -> Seq(S)] :
        Concats(t, <<s>>, 1) /\ FlattenSeq(<<s>>) = t[1]
  BY <1>1, FlattenTrace
<1>3. t[1] = <<>> \o s
  <2>1. 0 \in 0..(1 - 1) /\ 0 + 1 = 1
    OBVIOUS
  <2> QED BY <2>1, <1>1, <1>2 DEF Concats
<1> QED BY <1>2, <1>3, ConcatEmptySeq

\* One sequence more comes at the end.
LEMMA FlattenAppend ==
  ASSUME NEW S, NEW ss \in Seq(Seq(S)), NEW s \in Seq(S)
  PROVE  FlattenSeq(Append(ss, s)) = FlattenSeq(ss) \o s
<1>1. Append(ss, s) = ss \o <<s>> /\ <<s>> \in Seq(Seq(S))
  BY AppendIsConcat
<1>2. FlattenSeq(ss \o <<s>>) = FlattenSeq(ss) \o FlattenSeq(<<s>>)
  BY <1>1, FlattenConcat
<1> QED BY <1>1, <1>2, FlattenOne

\* Sequences of one element each make the sequence of their elements.
LEMMA FlattenSingles ==
  ASSUME NEW S, NEW s \in Seq(S)
  PROVE  FlattenSeq([i \in DOMAIN s |-> <<s[i]>>]) = s
<1> DEFINE ss == [i \in DOMAIN s |-> <<s[i]>>]
           n == Len(s)
<1>0. n \in Nat /\ DOMAIN s = 1..n /\ \A i \in 1..n : s[i] \in S
  OBVIOUS
<1>1. ss \in Seq(Seq(S)) /\ Len(ss) = n /\ \A i \in 1..n : ss[i] = <<s[i]>>
  <2>1. \A i \in 1..n : <<s[i]>> \in Seq(S)
    BY <1>0
  <2> QED BY <2>1, <1>0
<1> HIDE DEF ss
<1>2. PICK t \in [0..n -> Seq(S)] : Concats(t, ss, n) /\ FlattenSeq(ss) = t[n]
  <2>1. \E t \in [0..Len(ss) -> Seq(S)] : Concats(t, ss, Len(ss)) /\ FlattenSeq(ss) = t[Len(ss)]
    BY <1>1, FlattenTrace
  <2> QED BY <2>1, <1>1
<1> DEFINE T == {i \in Nat : t[i] = SubSeq(s, 1, i)}
<1>3. 0 \in T
  <2>1. SubSeq(s, 1, 0) = <<>>
    BY SubSeqEmpty
  <2> QED BY <1>2, <2>1 DEF Concats
<1>4. ASSUME NEW i \in 0..(n - 1), i \in T PROVE i + 1 \in T
  <2>1. i + 1 \in 1..n /\ i \in Nat /\ 1 \in 1..n /\ i + 1 - 1 = i
    BY <1>0
  <2>2. t[i + 1] = t[i] \o <<s[i + 1]>>
    BY <2>1, <1>1, <1>2 DEF Concats
  <2>3. SubSeq(s, 1, i + 1) = SubSeq(s, 1, i) \o <<s[i + 1]>>
    <3> DEFINE j == i + 1
    <3>1. j \in 1..Len(s) /\ 1 \in 1..Len(s) /\ j \in 1..Len(s) /\ j - 1 = i
      BY <2>1
    <3> HIDE DEF j
    <3>2. SubSeq(s, 1, j) = SubSeq(s, 1, j - 1) \o <<s[j]>>
      BY <3>1, SubSeqRecursiveSecond
    <3>3. SubSeq(s, 1, j) = SubSeq(s, 1, i) \o <<s[j]>>
      BY <3>1, <3>2
    <3> QED BY <3>3 DEF j
  <2>4. t[i] = SubSeq(s, 1, i)
    BY <1>4
  <2> QED BY <2>1, <2>2, <2>3, <2>4
<1> HIDE DEF T
<1>5. \A i \in 0..n : i \in T
  BY <1>0, <1>3, <1>4, StepByStep
<1>6. t[n] = SubSeq(s, 1, n)
  <2>1. n \in T
    BY <1>0, <1>5
  <2> QED BY <2>1 DEF T
<1>7. SubSeq(s, 1, n) = s
  BY SubSeqFull
<1> QED BY <1>2, <1>6, <1>7 DEF ss

\* A set of sequences that has the empty one, and each that is a member with one element
\* more, has all of them.
LEMMA SeqInduct ==
  ASSUME NEW X, NEW T, <<>> \in T,
         \A q \in Seq(X) : \A x \in X : q \in T => Append(q, x) \in T
  PROVE  Seq(X) \subseteq T
<1> DEFINE N == {n \in Nat : \A q \in Seq(X) : Len(q) = n => q \in T}
<1>1. 0 \in N
  <2>1. \A q \in Seq(X) : Len(q) = 0 => q = <<>>
    BY EmptySeq
  <2> QED BY <2>1
<1>2. ASSUME NEW n \in N PROVE n + 1 \in N
  <2> SUFFICES ASSUME NEW q \in Seq(X), Len(q) = n + 1 PROVE q \in T
    OBVIOUS
  <2>1. q # <<>> /\ n \in Nat
    BY EmptySeq
  <2>2. PICK p \in Seq(X), x \in X : q = Append(p, x)
    BY <2>1, SequenceEmptyOrAppend
  <2>3. Len(p) = n
    <3>1. Len(p) \in Nat /\ Len(Append(p, x)) = Len(p) + 1
      BY <2>2, AppendProperties, LenProperties
    <3> QED BY <2>1, <2>2, <3>1
  <2>4. p \in T
    BY <2>3
  <2> QED BY <2>2, <2>4
<1>3. N = Nat
  <2> HIDE DEF N
  <2>1. N \subseteq Nat BY DEF N
  <2> QED BY <1>1, <1>2, <2>1, NatInduct
<1>4. ASSUME NEW q \in Seq(X) PROVE q \in T
  <2>1. Len(q) \in N
    BY <1>3, LenProperties
  <2> QED BY <2>1
<1> QED BY <1>4

\* What f makes of each element, put together.
FlatMap(f, q) == FlattenSeq([i \in DOMAIN q |-> f[q[i]]])

LEMMA MapType ==
  ASSUME NEW X, NEW Y, NEW f \in [X -> Y], NEW q \in Seq(X)
  PROVE  /\ [i \in DOMAIN q |-> f[q[i]]] \in Seq(Y)
         /\ Len([i \in DOMAIN q |-> f[q[i]]]) = Len(q)
<1>1. Len(q) \in Nat /\ DOMAIN q = 1..Len(q) /\ \A i \in 1..Len(q) : f[q[i]] \in Y
  OBVIOUS
<1> DEFINE r == [i \in DOMAIN q |-> f[q[i]]]
<1>2. r = [i \in 1..Len(q) |-> r[i]] /\ \A i \in 1..Len(q) : r[i] \in Y
  BY <1>1
<1>3. DOMAIN r = 1..Len(q)
  BY <1>1
<1> HIDE DEF r
<1>4. r \in Seq(Y) /\ Len(r) = Len(q)
  BY <1>1, <1>2, <1>3, IsASeq, LenProperties
<1> QED BY <1>4 DEF r

\* The map of a sequence with one element more.
LEMMA MapAppend ==
  ASSUME NEW X, NEW Y, NEW f \in [X -> Y], NEW q \in Seq(X), NEW x \in X
  PROVE  [i \in DOMAIN Append(q, x) |-> f[Append(q, x)[i]]]
           = Append([i \in DOMAIN q |-> f[q[i]]], f[x])
<1> DEFINE r == [i \in DOMAIN q |-> f[q[i]]]
           p == Append(q, x)
           u == [i \in DOMAIN p |-> f[p[i]]]
           v == Append(r, f[x])
           n == Len(q)
<1>1. /\ p \in Seq(X) /\ Len(p) = n + 1 /\ p[n + 1] = x /\ n \in Nat
      /\ \A i \in 1..n : p[i] = q[i]
  BY AppendProperties, LenProperties
<1>2. r \in Seq(Y) /\ Len(r) = n /\ \A i \in 1..n : r[i] = f[q[i]]
  <2>1. DOMAIN q = 1..n
    OBVIOUS
  <2>2. \A i \in 1..n : r[i] = f[q[i]]
    BY <2>1
  <2>3. r \in Seq(Y) /\ Len(r) = n
    BY MapType
  <2> HIDE DEF r
  <2> QED BY <2>2, <2>3
<1> HIDE DEF r, p
<1>3. u \in Seq(Y) /\ Len(u) = n + 1 /\ \A i \in 1..(n + 1) : u[i] = f[p[i]]
  <2>1. DOMAIN p = 1..(n + 1)
    BY <1>1
  <2>2. \A i \in 1..(n + 1) : u[i] = f[p[i]]
    BY <2>1
  <2>3. u \in Seq(Y) /\ Len(u) = Len(p)
    BY <1>1, MapType
  <2> QED BY <1>1, <2>2, <2>3
<1>4. /\ v \in Seq(Y) /\ Len(v) = n + 1 /\ v[n + 1] = f[x]
      /\ \A i \in 1..n : v[i] = r[i]
  BY <1>2, AppendProperties
<1> HIDE DEF u, v
<1>5. ASSUME NEW i \in 1..(n + 1) PROVE u[i] = v[i]
  <2>1. i \in 1..n \/ i = n + 1
    BY <1>1
  <2> QED BY <2>1, <1>1, <1>2, <1>3, <1>4
<1>6. u = v
  BY <1>3, <1>4, <1>5, SeqEqual
<1> QED BY <1>6 DEF u, v, r, p

LEMMA FlatMapType ==
  ASSUME NEW X, NEW S, NEW f \in [X -> Seq(S)], NEW q \in Seq(X)
  PROVE  FlatMap(f, q) \in Seq(S)
<1> DEFINE r == [i \in DOMAIN q |-> f[q[i]]]
<1>1. r \in Seq(Seq(S))
  BY MapType
<1> HIDE DEF r
<1>2. FlattenSeq(r) \in Seq(S)
  BY <1>1, FlattenType
<1> QED BY <1>2 DEF FlatMap, r

LEMMA FlatMapEmpty == \A f : FlatMap(f, <<>>) = <<>>
<1> TAKE f
<1>1. [i \in DOMAIN <<>> |-> f[<<>>[i]]] = <<>>
  OBVIOUS
<1> QED BY <1>1, FlattenEmpty DEF FlatMap

LEMMA FlatMapAppend ==
  ASSUME NEW X, NEW S, NEW f \in [X -> Seq(S)], NEW q \in Seq(X), NEW x \in X
  PROVE  FlatMap(f, Append(q, x)) = FlatMap(f, q) \o f[x]
<1> DEFINE r == [i \in DOMAIN q |-> f[q[i]]]
<1>1. r \in Seq(Seq(S)) /\ f[x] \in Seq(S)
  BY MapType
<1>2. FlatMap(f, Append(q, x)) = FlattenSeq(Append(r, f[x]))
  <2>1. [i \in DOMAIN Append(q, x) |-> f[Append(q, x)[i]]] = Append(r, f[x])
    BY MapAppend
  <2> HIDE DEF r
  <2> QED BY <2>1 DEF FlatMap
<1>3. FlatMap(f, q) = FlattenSeq(r)
  BY DEF FlatMap
<1> HIDE DEF r
<1>4. FlattenSeq(Append(r, f[x])) = FlattenSeq(r) \o f[x]
  BY <1>1, FlattenAppend
<1> QED BY <1>2, <1>3, <1>4

LEMMA FlatMapOne ==
  ASSUME NEW X, NEW S, NEW f \in [X -> Seq(S)], NEW x \in X
  PROVE  FlatMap(f, <<x>>) = f[x]
<1>1. <<x>> = Append(<<>>, x) /\ <<>> \in Seq(X)
  OBVIOUS
<1>2. FlatMap(f, Append(<<>>, x)) = FlatMap(f, <<>>) \o f[x]
  BY <1>1, FlatMapAppend
<1>3. f[x] \in Seq(S) /\ FlatMap(f, <<>>) = <<>>
  BY FlatMapEmpty
<1> QED BY <1>1, <1>2, <1>3, ConcatEmptySeq

LEMMA ThreeInARow ==
  ASSUME NEW S, NEW a \in Seq(S), NEW b \in Seq(S), NEW c \in Seq(S)
  PROVE  (a \o b) \o c = a \o (b \o c)
BY ConcatAssociative, SMTT(60)

LEMMA FlatMapConcat ==
  ASSUME NEW X, NEW S, NEW f \in [X -> Seq(S)], NEW p \in Seq(X), NEW q \in Seq(X)
  PROVE  FlatMap(f, p \o q) = FlatMap(f, p) \o FlatMap(f, q)
<1> DEFINE T == {r \in Seq(X) : FlatMap(f, p \o r) = FlatMap(f, p) \o FlatMap(f, r)}
<1>0. FlatMap(f, p) \in Seq(S)
  BY FlatMapType
<1>1. <<>> \in T
  <2>1. <<>> \in Seq(X) /\ p \o <<>> = p
    BY ConcatEmptySeq
  <2>2. FlatMap(f, p) \o <<>> = FlatMap(f, p)
    BY <1>0, ConcatEmptySeq
  <2>3. FlatMap(f, <<>>) = <<>>
    BY FlatMapEmpty
  <2> QED BY <2>1, <2>2, <2>3
<1>2. ASSUME NEW r \in Seq(X), NEW x \in X, r \in T PROVE Append(r, x) \in T
  <2>1. p \o Append(r, x) = Append(p \o r, x) /\ p \o r \in Seq(X) /\ Append(r, x) \in Seq(X)
    <3>1. p \o r \in Seq(X) /\ <<x>> \in Seq(X) /\ Append(r, x) \in Seq(X)
      BY ConcatProperties, AppendProperties
    <3>2. Append(r, x) = r \o <<x>> /\ Append(p \o r, x) = (p \o r) \o <<x>>
      BY <3>1, AppendIsConcat
    <3>3. (p \o r) \o <<x>> = p \o (r \o <<x>>)
      BY <3>1, ThreeInARow, SMTT(30)
    <3> QED BY <3>1, <3>2, <3>3
  <2>2. FlatMap(f, Append(p \o r, x)) = FlatMap(f, p \o r) \o f[x]
    BY <2>1, FlatMapAppend
  <2>3. FlatMap(f, Append(r, x)) = FlatMap(f, r) \o f[x]
    BY FlatMapAppend
  <2>4. FlatMap(f, r) \in Seq(S) /\ f[x] \in Seq(S)
    BY FlatMapType
  <2>5. FlatMap(f, p \o r) = FlatMap(f, p) \o FlatMap(f, r)
    BY <1>2
  <2> DEFINE a == FlatMap(f, p)
             b == FlatMap(f, r)
             c == f[x]
  <2>6. (a \o b) \o c = a \o (b \o c)
    <3>1. a \in Seq(S) /\ b \in Seq(S) /\ c \in Seq(S)
      BY <1>0, <2>4
    <3> HIDE DEF a, b, c
    <3> QED BY <3>1, ThreeInARow, SMTT(30)
  <2>7. FlatMap(f, p \o Append(r, x)) = FlatMap(f, p) \o FlatMap(f, Append(r, x))
    BY <2>1, <2>2, <2>3, <2>5, <2>6
  <2> QED BY <2>1, <2>7
<1>3. q \in T
  <2> HIDE DEF T
  <2> QED BY <1>1, <1>2, SeqInduct
<1> QED BY <1>3

\* Functions that agree on the elements.
LEMMA FlatMapSame ==
  ASSUME NEW X, NEW q \in Seq(X), NEW f, NEW g, \A x \in X : f[x] = g[x]
  PROVE  FlatMap(f, q) = FlatMap(g, q)
<1>1. \A i \in DOMAIN q : q[i] \in X
  OBVIOUS
<1>2. [i \in DOMAIN q |-> f[q[i]]] = [i \in DOMAIN q |-> g[q[i]]]
  BY <1>1
<1> QED BY <1>2 DEF FlatMap

\* The same, of all sequences.
Distributes(f, X) == \A p, q \in Seq(X) : FlatMap(f, p \o q) = FlatMap(f, p) \o FlatMap(f, q)

LEMMA FlatMapDistributes ==
  ASSUME NEW X, NEW S, NEW f \in [X -> Seq(S)]
  PROVE  Distributes(f, X)
BY FlatMapConcat DEF Distributes

\* One map after another is one map.
Composed(h, g, f, X) == \A x \in X : h[x] = FlatMap(g, f[x])

\* With names for the hypotheses and the conclusion, which the provers then match as they are.
Twice(h, g, f, X) == \A q \in Seq(X) : FlatMap(g, FlatMap(f, q)) = FlatMap(h, q)
Maps(f, X, S) == f \in [X -> Seq(S)]

LEMMA FlatMapsTwice ==
  ASSUME NEW X, NEW Y, NEW S, NEW f, NEW g, NEW h,
         Maps(f, X, Y), Maps(g, Y, S), Maps(h, X, S), Composed(h, g, f, X)
  PROVE  Twice(h, g, f, X)
<1> SUFFICES ASSUME NEW q \in Seq(X) PROVE FlatMap(g, FlatMap(f, q)) = FlatMap(h, q)
  BY DEF Twice
<1>1. f \in [X -> Seq(Y)] /\ g \in [Y -> Seq(S)] /\ h \in [X -> Seq(S)]
  BY DEF Maps
<1> DEFINE T == {r \in Seq(X) : FlatMap(g, FlatMap(f, r)) = FlatMap(h, r)}
<1>2. <<>> \in T
  BY FlatMapEmpty
<1>3. ASSUME NEW r \in Seq(X), NEW x \in X, r \in T PROVE Append(r, x) \in T
  <2>1. FlatMap(f, Append(r, x)) = FlatMap(f, r) \o f[x]
    BY <1>1, FlatMapAppend
  <2>2. FlatMap(h, Append(r, x)) = FlatMap(h, r) \o h[x]
    BY <1>1, FlatMapAppend
  <2>3. FlatMap(f, r) \in Seq(Y) /\ f[x] \in Seq(Y)
    BY <1>1, FlatMapType
  <2>4. FlatMap(g, FlatMap(f, r) \o f[x]) = FlatMap(g, FlatMap(f, r)) \o FlatMap(g, f[x])
    <3> DEFINE a == FlatMap(f, r)
               c == f[x]
    <3> HIDE DEF a, c, T
    <3>1. a \in Seq(Y) /\ c \in Seq(Y)
      BY <2>3 DEF a, c
    <3>2. Distributes(g, Y)
      BY <1>1, FlatMapDistributes
    <3>3. FlatMap(g, a \o c) = FlatMap(g, a) \o FlatMap(g, c)
      BY <3>1, <3>2 DEF Distributes
    <3> QED BY <3>3 DEF a, c
  <2>5. Append(r, x) \in Seq(X)
    BY AppendProperties
  <2>6. FlatMap(g, FlatMap(f, r)) = FlatMap(h, r)
    BY <1>3
  <2>7. h[x] = FlatMap(g, f[x])
    BY DEF Composed
  <2> QED BY <2>1, <2>2, <2>4, <2>5, <2>6, <2>7
<1>4. q \in T
  <2> HIDE DEF T
  <2> QED BY <1>2, <1>3, SeqInduct
<1> QED BY <1>4

\* What is in a concatenation, and in a map.
LEMMA ConcatHas ==
  ASSUME NEW S, NEW p \in Seq(S), NEW q \in Seq(S), NEW e, e \in ToSet(p) \/ e \in ToSet(q)
  PROVE  e \in ToSet(p \o q)
<1>1. /\ p \o q \in Seq(S) /\ Len(p \o q) = Len(p) + Len(q)
      /\ \A i \in 1..Len(p) : (p \o q)[i] = p[i]
      /\ \A i \in 1..Len(q) : (p \o q)[Len(p) + i] = q[i]
      /\ Len(p) \in Nat /\ Len(q) \in Nat
  BY ConcatProperties, LenProperties
<1>2. DOMAIN p = 1..Len(p) /\ DOMAIN q = 1..Len(q) /\ DOMAIN (p \o q) = 1..Len(p \o q)
  BY <1>1, LenProperties
<1> DEFINE c == p \o q
<1> HIDE DEF c
<1>3. CASE e \in ToSet(p)
  <2>1. PICK i \in 1..Len(p) : e = p[i]
    BY <1>2, <1>3 DEF ToSet
  <2>2. i \in DOMAIN c /\ c[i] = e
    BY <1>1, <1>2, <2>1 DEF c
  <2> QED BY <2>2 DEF ToSet, c
<1>4. CASE e \in ToSet(q)
  <2>1. PICK i \in 1..Len(q) : e = q[i]
    BY <1>2, <1>4 DEF ToSet
  <2>2. Len(p) + i \in DOMAIN c /\ c[Len(p) + i] = e
    BY <1>1, <1>2, <2>1 DEF c
  <2> QED BY <2>2 DEF ToSet, c
<1> QED BY <1>3, <1>4

LEMMA FlatMapHas ==
  ASSUME NEW X, NEW S, NEW f \in [X -> Seq(S)], NEW q \in Seq(X),
         NEW x \in ToSet(q), NEW e \in ToSet(f[x])
  PROVE  e \in ToSet(FlatMap(f, q))
<1> DEFINE T == {r \in Seq(X) : x \in ToSet(r) => e \in ToSet(FlatMap(f, r))}
<1>1. <<>> \in T
  BY DEF ToSet
<1>2. ASSUME NEW r \in Seq(X), NEW y \in X, r \in T PROVE Append(r, y) \in T
  <2>1. FlatMap(f, Append(r, y)) = FlatMap(f, r) \o f[y]
    BY FlatMapAppend
  <2>2. FlatMap(f, r) \in Seq(S) /\ f[y] \in Seq(S)
    BY FlatMapType
  <2>3. Append(r, y) \in Seq(X) /\ DOMAIN r = 1..Len(r) /\ Len(r) \in Nat
        /\ DOMAIN Append(r, y) = 1..(Len(r) + 1) /\ Append(r, y)[Len(r) + 1] = y
        /\ \A i \in 1..Len(r) : Append(r, y)[i] = r[i]
    BY AppendProperties, LenProperties
  <2>4. ASSUME x \in ToSet(Append(r, y)) PROVE e \in ToSet(FlatMap(f, r)) \/ e \in ToSet(f[y])
    <3>1. PICK i \in 1..(Len(r) + 1) : x = Append(r, y)[i]
      BY <2>3, <2>4 DEF ToSet
    <3>2. CASE i = Len(r) + 1
      BY <2>3, <3>1, <3>2
    <3>3. CASE i # Len(r) + 1
      <4>0. i \in 1..Len(r)
        <5> DEFINE n == Len(r)
        <5>1. n \in Nat /\ i \in 1..(n + 1) /\ i # n + 1
          BY <2>3, <3>3
        <5> HIDE DEF n
        <5>2. i \in 1..n
          BY <5>1
        <5> QED BY <5>2 DEF n
      <4>1. i \in DOMAIN r /\ x = r[i]
        BY <2>3, <3>1, <4>0
      <4>2. x \in ToSet(r)
        BY <4>1 DEF ToSet
      <4> QED BY <1>2, <4>2
    <3> QED BY <3>2, <3>3
  <2> DEFINE a == FlatMap(f, r)
             c == f[y]
  <2>5. ASSUME e \in ToSet(a) \/ e \in ToSet(c) PROVE e \in ToSet(a \o c)
    <3>1. a \in Seq(S) /\ c \in Seq(S)
      BY <2>2
    <3> HIDE DEF a, c
    <3> QED BY <2>5, <3>1, ConcatHas
  <2> HIDE DEF a, c
  <2>6. x \in ToSet(Append(r, y)) => e \in ToSet(FlatMap(f, Append(r, y)))
    BY <2>1, <2>4, <2>5 DEF a, c
  <2> QED BY <2>3, <2>6
<1>3. q \in T
  <2> HIDE DEF T
  <2> QED BY <1>1, <1>2, SeqInduct
<1> QED BY <1>3

\* c is p, then q.
IsConcat(S, p, q, c) ==
  /\ c \in Seq(S) /\ Len(c) = Len(p) + Len(q)
  /\ \A i \in 1..Len(p) : c[i] = p[i]
  /\ \A i \in 1..Len(q) : c[Len(p) + i] = q[i]
  /\ Len(p) \in Nat /\ Len(q) \in Nat

LEMMA ConcatIsConcat ==
  ASSUME NEW S, NEW p \in Seq(S), NEW q \in Seq(S)
  PROVE  IsConcat(S, p, q, p \o q)
<1> DEFINE c == p \o q
<1>1. /\ c \in Seq(S) /\ Len(c) = Len(p) + Len(q)
      /\ \A i \in 1..Len(p) : c[i] = p[i]
      /\ \A i \in 1..Len(q) : c[Len(p) + i] = q[i]
      /\ Len(p) \in Nat /\ Len(q) \in Nat
  BY ConcatProperties, LenProperties
<1> HIDE DEF c
<1>2. IsConcat(S, p, q, c)
  BY <1>1 DEF IsConcat
<1> QED BY <1>2 DEF c

\* What is in a concatenation is in one of the two, and what is in a map is of an element.
LEMMA ConcatFrom ==
  ASSUME NEW S, NEW p \in Seq(S), NEW q \in Seq(S)
  PROVE  \A e \in ToSet(p \o q) : e \in ToSet(p) \/ e \in ToSet(q)
<1> DEFINE c == p \o q
<1>1. /\ c \in Seq(S) /\ Len(c) = Len(p) + Len(q)
      /\ \A i \in 1..Len(p) : c[i] = p[i]
      /\ \A i \in 1..Len(q) : c[Len(p) + i] = q[i]
      /\ Len(p) \in Nat /\ Len(q) \in Nat
  BY ConcatProperties, LenProperties
<1>2. DOMAIN p = 1..Len(p) /\ DOMAIN q = 1..Len(q) /\ DOMAIN c = 1..Len(c)
  <2> HIDE DEF c
  <2> QED BY <1>1, LenProperties
<1> HIDE DEF c
<1> SUFFICES ASSUME NEW e \in ToSet(c) PROVE e \in ToSet(p) \/ e \in ToSet(q)
  BY DEF c
<1>3. PICK i \in 1..Len(c) : e = c[i]
  BY <1>2 DEF ToSet
<1>4. CASE i <= Len(p)
  <2>1. i \in DOMAIN p /\ e = p[i]
    BY <1>1, <1>2, <1>3, <1>4
  <2> QED BY <2>1 DEF ToSet
<1>5. CASE i > Len(p)
  <2> DEFINE j == i - Len(p)
  <2>1. j \in 1..Len(q) /\ i = Len(p) + j
    BY <1>1, <1>3, <1>5
  <2> HIDE DEF j
  <2>2. e = q[j] /\ j \in DOMAIN q
    BY <1>1, <1>2, <1>3, <2>1
  <2> QED BY <2>2 DEF ToSet
<1> QED BY <1>1, <1>3, <1>4, <1>5

LEMMA FlatMapFrom ==
  ASSUME NEW X, NEW S, NEW f \in [X -> Seq(S)], NEW q \in Seq(X), NEW e \in ToSet(FlatMap(f, q))
  PROVE  \E x \in ToSet(q) : x \in X /\ e \in ToSet(f[x])
<1> DEFINE Has(r) == \E x \in ToSet(r) : x \in X /\ e \in ToSet(f[x])
           T == {r \in Seq(X) : e \in ToSet(FlatMap(f, r)) => Has(r)}
<1>1. <<>> \in T
  <2>1. FlatMap(f, <<>>) = <<>>
    BY FlatMapEmpty
  <2> QED BY <2>1 DEF ToSet
<1>2. ASSUME NEW r \in Seq(X), NEW y \in X, r \in T PROVE Append(r, y) \in T
  <2>1. FlatMap(f, Append(r, y)) = FlatMap(f, r) \o f[y]
    BY FlatMapAppend
  <2>2. FlatMap(f, r) \in Seq(S) /\ f[y] \in Seq(S)
    BY FlatMapType
  <2>3. Append(r, y) \in Seq(X) /\ DOMAIN r = 1..Len(r) /\ Len(r) \in Nat
        /\ DOMAIN Append(r, y) = 1..(Len(r) + 1) /\ Append(r, y)[Len(r) + 1] = y
        /\ \A i \in 1..Len(r) : Append(r, y)[i] = r[i]
    BY AppendProperties, LenProperties
  <2> DEFINE s == Append(r, y)
             a == FlatMap(f, r)
             b == f[y]
  <2>4. y \in ToSet(s) /\ ToSet(r) \subseteq ToSet(s)
    <3>1. Len(r) + 1 \in DOMAIN s /\ s[Len(r) + 1] = y
      BY <2>3
    <3>2. \A i \in DOMAIN r : i \in DOMAIN s /\ s[i] = r[i]
      BY <2>3
    <3> HIDE DEF s
    <3> QED BY <3>1, <3>2 DEF ToSet
  <2>5. ASSUME e \in ToSet(a \o b) PROVE Has(s)
    <3>1. e \in ToSet(a) \/ e \in ToSet(b)
      <4>1. a \in Seq(S) /\ b \in Seq(S)
        BY <2>2
      <4> HIDE DEF a, b
      <4> QED BY <2>5, <4>1, ConcatFrom
    <3>2. CASE e \in ToSet(a)
      <4>1. Has(r)
        BY <1>2, <3>2
      <4> HIDE DEF s
      <4> QED BY <2>4, <4>1
    <3>3. CASE e \in ToSet(b)
      BY <2>4, <3>3
    <3> QED BY <3>1, <3>2, <3>3
  <2> HIDE DEF Has
  <2>6. e \in ToSet(FlatMap(f, s)) => Has(s)
    BY <2>1, <2>5
  <2> QED BY <2>3, <2>6
<1>3. q \in T
  <2> HIDE DEF T
  <2> QED BY <1>1, <1>2, SeqInduct
<1> QED BY <1>3
===============================================================================
