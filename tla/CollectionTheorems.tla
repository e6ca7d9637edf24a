------------------------- MODULE CollectionTheorems -------------------------
(***************************************************************************)
(* Facts about collections that the components' proofs share: the sum of a *)
(* function over a finite set, which the books' risk is; a finite set in   *)
(* an order and what a filter leaves of a sequence, which are sorted() and *)
(* the list comprehensions; and a fold over a sequence, which is a loop.   *)
(*                                                                         *)
(* SumFunctionOnSet and FoldLeft pick the elements one after the other.    *)
(* That each is well defined is shown by induction on the number of        *)
(* elements; an induction is a search for the least number that fails.     *)
(***************************************************************************)
EXTENDS Arrangements, Functions, SequencesExt, FiniteSetTheorems, SequenceTheorems,
        WellFoundedInduction, TLAPS

LEMMA LeastOf ==
    ASSUME NEW T, T \subseteq Nat, T # {}
    PROVE  \E n \in T : \A m \in T : n <= m
<1> DEFINE R == {ss \in Nat \X Nat : ss[1] < ss[2]}
<1>1. IsWellFoundedOn(R, Nat)
  BY NatLessThanWellFounded DEF OpToRel
<1>2. \E n \in T : \A m \in T : ~(<<m, n>> \in R)
  <2> HIDE DEF R
  <2> QED BY <1>1, WFMin
<1>3. PICK n \in T : \A m \in T : ~(<<m, n>> \in R)
  BY <1>2
<1>4. \A m \in T : ~(m < n)
  BY <1>3
<1> QED BY <1>4

\* Min of FiniteSetsExt on two numbers.
LEMMA LeastOfTwo ==
    ASSUME NEW a \in Int, NEW b \in Int
    PROVE  Min({a, b}) = IF a <= b THEN a ELSE b
<1>1. \E x \in {a, b} : \A y \in {a, b} : x =< y
  OBVIOUS
<1>2. Min({a, b}) \in {a, b} /\ \A y \in {a, b} : Min({a, b}) =< y
  BY <1>1 DEF Min
<1> QED BY <1>2

-----------------------------------------------------------------------------
(* The recursion.                                                           *)

Pick(s) == CHOOSE x \in s : TRUE

\* g adds f over the sets of a family.
Adds(g, f, family) ==
    g = [s \in family |-> IF s = {} THEN 0 ELSE f[Pick(s)] + g[s \ {Pick(s)}]]

UpTo(S, n) == {s \in SUBSET S : Cardinality(s) <= n}

LEMMA Picked ==
    ASSUME NEW s, s # {}
    PROVE  Pick(s) \in s
BY DEF Pick

LEMMA Smaller ==
    ASSUME NEW S, IsFiniteSet(S), NEW s \in SUBSET S, s # {}
    PROVE  /\ IsFiniteSet(s) /\ Cardinality(s) \in Nat \ {0}
           /\ s \ {Pick(s)} \in SUBSET S
           /\ Cardinality(s \ {Pick(s)}) = Cardinality(s) - 1
<1>1. IsFiniteSet(s) /\ Cardinality(s) \in Nat
  BY FS_Subset, FS_CardinalityType
<1>2. Cardinality(s) # 0
  BY <1>1, FS_EmptySet
<1>3. Cardinality(s \ {Pick(s)}) = Cardinality(s) - 1
  BY <1>1, Picked, FS_RemoveElement
<1> QED BY <1>1, <1>2, <1>3

LEMMA AddsNext ==
    ASSUME NEW S, IsFiniteSet(S), NEW f, NEW n \in Nat, NEW g, Adds(g, f, UpTo(S, n))
    PROVE  \E h : Adds(h, f, UpTo(S, n + 1))
<1> DEFINE F(s) == IF s = {} THEN 0 ELSE f[Pick(s)] + g[s \ {Pick(s)}]
           h == [s \in UpTo(S, n + 1) |-> F(s)]
<1>1. ASSUME NEW s \in UpTo(S, n + 1), s # {}
      PROVE  h[s \ {Pick(s)}] = g[s \ {Pick(s)}]
  <2> DEFINE t == s \ {Pick(s)}
  <2>1. t \in UpTo(S, n) /\ t \in UpTo(S, n + 1)
    <3>1. /\ Cardinality(s) \in Nat \ {0} /\ Cardinality(s) <= n + 1
          /\ t \in SUBSET S /\ Cardinality(t) = Cardinality(s) - 1
      BY <1>1, Smaller DEF UpTo
    <3> HIDE DEF t
    <3> QED BY <3>1 DEF UpTo
  <2>2. h[t] = F(t)
    BY <2>1
  <2>3. g[t] = F(t)
    <3> HIDE DEF t
    <3> QED BY <2>1 DEF Adds
  <2> QED BY <2>2, <2>3
<1>2. h = [s \in UpTo(S, n + 1) |-> IF s = {} THEN 0 ELSE f[Pick(s)] + h[s \ {Pick(s)}]]
  <2>1. \A s \in UpTo(S, n + 1) :
           F(s) = IF s = {} THEN 0 ELSE f[Pick(s)] + h[s \ {Pick(s)}]
    BY <1>1
  <2> HIDE DEF F
  <2> QED BY <2>1
<1>3. Adds(h, f, UpTo(S, n + 1))
  <2> HIDE DEF h
  <2> QED BY <1>2 DEF Adds
<1> QED BY <1>3

LEMMA AddsExists ==
    ASSUME NEW S, IsFiniteSet(S), NEW f
    PROVE  \E g : Adds(g, f, SUBSET S)
<1> DEFINE T == {n \in Nat : ~ \E g : Adds(g, f, UpTo(S, n))}
<1>1. 0 \notin T
  <2> DEFINE g == [s \in UpTo(S, 0) |-> 0]
  <2>1. \A s \in UpTo(S, 0) : s = {}
    <3> SUFFICES ASSUME NEW s \in UpTo(S, 0), s # {} PROVE FALSE
      OBVIOUS
    <3>1. s \in SUBSET S /\ Cardinality(s) <= 0
      BY DEF UpTo
    <3>2. Cardinality(s) \in Nat \ {0}
      BY <3>1, Smaller
    <3> QED BY <3>1, <3>2
  <2>2. g = [s \in UpTo(S, 0) |-> IF s = {} THEN 0 ELSE f[Pick(s)] + g[s \ {Pick(s)}]]
    BY <2>1
  <2>3. Adds(g, f, UpTo(S, 0))
    <3> HIDE DEF g
    <3> QED BY <2>2 DEF Adds
  <2> QED BY <2>3
<1>2. T = {}
  <2> SUFFICES ASSUME T # {} PROVE FALSE
    OBVIOUS
  <2>1. PICK n \in T : \A m \in T : n <= m
    <3>1. T \subseteq Nat
      OBVIOUS
    <3> HIDE DEF T
    <3> QED BY <3>1, LeastOf
  <2>2. n \in Nat \ {0}
    BY <1>1, <2>1
  <2>3. n - 1 \in Nat /\ n - 1 \notin T
    <3> HIDE DEF T
    <3> QED BY <2>1, <2>2
  <2>4. \E g : Adds(g, f, UpTo(S, n - 1))
    BY <2>3
  <2>5. \E g : Adds(g, f, UpTo(S, n - 1 + 1))
    BY <2>3, <2>4, AddsNext
  <2>6. n - 1 + 1 = n
    BY <2>2
  <2> QED BY <2>1, <2>5, <2>6
<1>3. Cardinality(S) \in Nat
  BY FS_CardinalityType
<1>4. UpTo(S, Cardinality(S)) = SUBSET S
  BY FS_Subset DEF UpTo
<1>5. \E g : Adds(g, f, UpTo(S, Cardinality(S)))
  BY <1>2, <1>3
<1> HIDE DEF T
<1> QED BY <1>4, <1>5

\* The sum is the value of a function that adds.
LEMMA SumAdds ==
    ASSUME NEW S, IsFiniteSet(S), NEW f
    PROVE  \E g : Adds(g, f, SUBSET S) /\ SumFunctionOnSet(f, S) = g[S]
<1> DEFINE g == CHOOSE h : Adds(h, f, SUBSET S)
<1>1. Adds(g, f, SUBSET S)
  BY AddsExists
<1>2. SumFunctionOnSet(f, S) = g[S]
  BY DEF SumFunctionOnSet, FoldFunctionOnSet, MapThenFoldSet, Adds, Pick
<1> QED BY <1>1, <1>2

\* An induction over the subsets of a finite set: a smallest one that fails.
LEMMA SmallestSet ==
    ASSUME NEW S, IsFiniteSet(S), NEW B \in SUBSET (SUBSET S), B # {}
    PROVE  \E s \in B : IsFiniteSet(s) /\ \A x \in s : s \ {x} \notin B
<1> DEFINE T == {Cardinality(s) : s \in B}
<1>1. \A s \in B : IsFiniteSet(s) /\ Cardinality(s) \in Nat
  BY FS_Subset, FS_CardinalityType
<1>2. PICK n \in T : \A m \in T : n <= m
  <2>1. T \subseteq Nat /\ T # {}
    BY <1>1
  <2> HIDE DEF T
  <2> QED BY <2>1, LeastOf
<1>3. PICK s \in B : n = Cardinality(s)
  BY <1>2
<1>4. ASSUME NEW x \in s, s \ {x} \in B PROVE FALSE
  <2>1. Cardinality(s \ {x}) = n - 1 /\ n \in Nat
    BY <1>1, <1>3, FS_RemoveElement
  <2>2. Cardinality(s \ {x}) \in T
    BY <1>4
  <2> HIDE DEF T
  <2> QED BY <1>2, <2>1, <2>2
<1> QED BY <1>1, <1>3, <1>4

LEMMA AddsAlike ==
    ASSUME NEW S, IsFiniteSet(S), NEW f, NEW e, \A x \in S : f[x] = e[x],
           NEW R, NEW g, Adds(g, f, SUBSET S), NEW h, Adds(h, e, SUBSET R)
    PROVE  \A s \in SUBSET (S \cap R) : g[s] = h[s]
<1> DEFINE B == {s \in SUBSET (S \cap R) : g[s] # h[s]}
<1> SUFFICES ASSUME B # {} PROVE FALSE
  OBVIOUS
<1>1. PICK s \in B : \A x \in s : s \ {x} \notin B
  <2>1. IsFiniteSet(S \cap R) /\ B \in SUBSET (SUBSET (S \cap R))
    BY FS_Subset
  <2> HIDE DEF B
  <2> QED BY <2>1, SmallestSet
<1>2. s \in SUBSET S /\ s \in SUBSET R /\ g[s] # h[s]
  OBVIOUS
<1>3. s # {}
  BY <1>2 DEF Adds
<1>4. Pick(s) \in s
  BY <1>3, Picked
<1>5. g[s] = f[Pick(s)] + g[s \ {Pick(s)}]
  BY <1>2, <1>3 DEF Adds
<1>6. h[s] = e[Pick(s)] + h[s \ {Pick(s)}]
  BY <1>2, <1>3 DEF Adds
<1>7. g[s \ {Pick(s)}] = h[s \ {Pick(s)}]
  BY <1>1, <1>4
<1> QED BY <1>2, <1>4, <1>5, <1>6, <1>7

LEMMA AddsOnce ==
    ASSUME NEW S, IsFiniteSet(S), NEW f, NEW R, R \subseteq S,
           NEW g, Adds(g, f, SUBSET S), NEW h, Adds(h, f, SUBSET R)
    PROVE  g[R] = h[R]
<1>1. \A s \in SUBSET (S \cap R) : g[s] = h[s]
  BY AddsAlike
<1> QED BY <1>1

\* Only the values on the set count.
LEMMA SumAlike ==
    ASSUME NEW S, IsFiniteSet(S), NEW f, NEW e, \A x \in S : f[x] = e[x]
    PROVE  SumFunctionOnSet(f, S) = SumFunctionOnSet(e, S)
<1>1. PICK g : Adds(g, f, SUBSET S) /\ SumFunctionOnSet(f, S) = g[S]
  BY SumAdds
<1>2. PICK h : Adds(h, e, SUBSET S) /\ SumFunctionOnSet(e, S) = h[S]
  BY SumAdds
<1>3. \A s \in SUBSET (S \cap S) : g[s] = h[s]
  BY <1>1, <1>2, AddsAlike
<1> QED BY <1>1, <1>2, <1>3

LEMMA SumEmpty ==
    ASSUME NEW f
    PROVE  SumFunctionOnSet(f, {}) = 0
<1>1. PICK g : Adds(g, f, SUBSET {}) /\ SumFunctionOnSet(f, {}) = g[{}]
  BY SumAdds, FS_EmptySet
<1> QED BY <1>1 DEF Adds

LEMMA SumUnfolds ==
    ASSUME NEW S, IsFiniteSet(S), S # {}, NEW f
    PROVE  SumFunctionOnSet(f, S) = f[Pick(S)] + SumFunctionOnSet(f, S \ {Pick(S)})
<1> DEFINE R == S \ {Pick(S)}
<1>1. PICK g : Adds(g, f, SUBSET S) /\ SumFunctionOnSet(f, S) = g[S]
  BY SumAdds
<1>2. PICK h : Adds(h, f, SUBSET R) /\ SumFunctionOnSet(f, R) = h[R]
  BY SumAdds, FS_Subset
<1>3. g[R] = h[R]
  <2>1. R \subseteq S
    OBVIOUS
  <2> HIDE DEF R
  <2> QED BY <1>1, <1>2, <2>1, AddsOnce
<1>4. g[S] = f[Pick(S)] + g[R]
  BY <1>1 DEF Adds
<1> QED BY <1>1, <1>2, <1>3, <1>4

-----------------------------------------------------------------------------
(* Sums of integers.                                                        *)

LEMMA SumInt ==
    ASSUME NEW S, IsFiniteSet(S), NEW f, \A x \in S : f[x] \in Int
    PROVE  SumFunctionOnSet(f, S) \in Int
<1> DEFINE B == {s \in SUBSET S : SumFunctionOnSet(f, s) \notin Int}
<1> SUFFICES ASSUME B # {} PROVE FALSE
  OBVIOUS
<1>1. PICK s \in B : IsFiniteSet(s) /\ \A x \in s : s \ {x} \notin B
  <2> HIDE DEF B
  <2>1. B \in SUBSET (SUBSET S)
    BY DEF B
  <2> QED BY <2>1, SmallestSet
<1>2. s # {}
  BY SumEmpty
<1>3. Pick(s) \in s /\ f[Pick(s)] \in Int
  BY <1>2, Picked
<1>4. SumFunctionOnSet(f, s \ {Pick(s)}) \in Int
  BY <1>1, <1>3
<1>5. SumFunctionOnSet(f, s) = f[Pick(s)] + SumFunctionOnSet(f, s \ {Pick(s)})
  BY <1>1, <1>2, SumUnfolds
<1> QED BY <1>3, <1>4, <1>5

\* The sum does not depend on which element is taken first.
LEMMA SumRemove ==
    ASSUME NEW S, IsFiniteSet(S), NEW f, \A x \in S : f[x] \in Int, NEW x \in S
    PROVE  SumFunctionOnSet(f, S) = f[x] + SumFunctionOnSet(f, S \ {x})
<1> DEFINE Total(s) == SumFunctionOnSet(f, s)
           B == {s \in SUBSET S : \E y \in s : Total(s) # f[y] + Total(s \ {y})}
<1> HIDE DEF Total
<1> SUFFICES ASSUME B # {} PROVE FALSE
  BY DEF Total
<1>1. PICK s \in B : IsFiniteSet(s) /\ \A y \in s : s \ {y} \notin B
  <2> HIDE DEF B
  <2>1. B \in SUBSET (SUBSET S)
    BY DEF B
  <2> QED BY <2>1, SmallestSet
<1>2. PICK y \in s : Total(s) # f[y] + Total(s \ {y})
  OBVIOUS
<1> DEFINE p == Pick(s)
<1>3. p \in s /\ Total(s) = f[p] + Total(s \ {p})
  BY <1>1, <1>2, Picked, SumUnfolds DEF Total
<1> HIDE DEF p
<1>4. p # y
  BY <1>2, <1>3
<1>5. y \in s \ {p} /\ p \in s \ {y}
  BY <1>2, <1>3, <1>4
<1>6. Total(s \ {p}) = f[y] + Total((s \ {p}) \ {y})
  BY <1>1, <1>3, <1>5
<1>7. Total(s \ {y}) = f[p] + Total((s \ {y}) \ {p})
  BY <1>1, <1>2, <1>5
<1>8. (s \ {y}) \ {p} = (s \ {p}) \ {y}
  OBVIOUS
<1>9. Total((s \ {p}) \ {y}) \in Int /\ f[p] \in Int /\ f[y] \in Int
  <2>1. IsFiniteSet((s \ {p}) \ {y}) /\ \A z \in (s \ {p}) \ {y} : f[z] \in Int
    BY <1>1, FS_Subset
  <2> QED BY <1>3, <2>1, SumInt DEF Total
<1> QED BY <1>2, <1>3, <1>6, <1>7, <1>8, <1>9

LEMMA SumAdd ==
    ASSUME NEW S, IsFiniteSet(S), NEW x, x \notin S, NEW f,
           \A y \in S \cup {x} : f[y] \in Int
    PROVE  SumFunctionOnSet(f, S \cup {x}) = f[x] + SumFunctionOnSet(f, S)
<1>1. IsFiniteSet(S \cup {x}) /\ (S \cup {x}) \ {x} = S
  BY FS_AddElement
<1> QED BY <1>1, SumRemove

LEMMA SumNat ==
    ASSUME NEW S, IsFiniteSet(S), NEW f, \A x \in S : f[x] \in Nat
    PROVE  SumFunctionOnSet(f, S) \in Nat
<1> DEFINE B == {s \in SUBSET S : SumFunctionOnSet(f, s) \notin Nat}
<1> SUFFICES ASSUME B # {} PROVE FALSE
  OBVIOUS
<1>1. PICK s \in B : IsFiniteSet(s) /\ \A x \in s : s \ {x} \notin B
  <2> HIDE DEF B
  <2>1. B \in SUBSET (SUBSET S)
    BY DEF B
  <2> QED BY <2>1, SmallestSet
<1>2. s # {}
  BY SumEmpty
<1>3. Pick(s) \in s /\ f[Pick(s)] \in Nat
  BY <1>2, Picked
<1>4. SumFunctionOnSet(f, s \ {Pick(s)}) \in Nat
  BY <1>1, <1>3
<1>5. SumFunctionOnSet(f, s) = f[Pick(s)] + SumFunctionOnSet(f, s \ {Pick(s)})
  BY <1>1, <1>2, SumUnfolds
<1> QED BY <1>3, <1>4, <1>5

\* A part of a sum of naturals is no more than the whole.
LEMMA SumOfPart ==
    ASSUME NEW S, IsFiniteSet(S), NEW f, \A x \in S : f[x] \in Nat, NEW R \in SUBSET S
    PROVE  SumFunctionOnSet(f, R) <= SumFunctionOnSet(f, S)
<1> DEFINE Total(s) == SumFunctionOnSet(f, s)
           B == {s \in SUBSET S : R \subseteq s /\ ~(Total(R) <= Total(s))}
<1>0. \A s \in SUBSET S : IsFiniteSet(s) /\ Total(s) \in Nat
  <2>1. \A s \in SUBSET S : IsFiniteSet(s)
    BY FS_Subset
  <2> QED BY <2>1, SumNat
<1> HIDE DEF Total
<1> SUFFICES ASSUME B # {} PROVE FALSE
  BY DEF Total
<1>1. PICK s \in B : \A x \in s : s \ {x} \notin B
  <2> HIDE DEF B
  <2>1. B \in SUBSET (SUBSET S)
    BY DEF B
  <2> QED BY <2>1, SmallestSet
<1>2. s # R
  BY <1>0
<1>3. PICK x \in s : x \notin R
  BY <1>2
<1>4. Total(R) <= Total(s \ {x})
  BY <1>1, <1>3
<1>5. Total(s) = f[x] + Total(s \ {x})
  BY <1>0, <1>3, SumRemove DEF Total
<1>6. Total(R) \in Nat /\ Total(s) \in Nat /\ Total(s \ {x}) \in Nat /\ f[x] \in Nat
  BY <1>0
<1> QED BY <1>4, <1>5, <1>6

\* A sum is no more than its greatest term times their number.
LEMMA SumBound ==
    ASSUME NEW S, IsFiniteSet(S), NEW f, NEW b \in Int,
           \A x \in S : f[x] \in Int /\ f[x] <= b
    PROVE  SumFunctionOnSet(f, S) <= b * Cardinality(S)
<1> DEFINE Total(s) == SumFunctionOnSet(f, s)
           B == {s \in SUBSET S : ~(Total(s) <= b * Cardinality(s))}
<1> HIDE DEF Total
<1> SUFFICES ASSUME B # {} PROVE FALSE
  BY DEF Total
<1>1. PICK s \in B : IsFiniteSet(s) /\ \A x \in s : s \ {x} \notin B
  <2> HIDE DEF B
  <2>1. B \in SUBSET (SUBSET S)
    BY DEF B
  <2> QED BY <2>1, SmallestSet
<1>2. s # {}
  <2>1. Total({}) = 0 /\ Cardinality({}) = 0 /\ b * 0 = 0
    BY SumEmpty, FS_EmptySet DEF Total
  <2>2. ~(Total(s) <= b * Cardinality(s))
    OBVIOUS
  <2> HIDE DEF B
  <2> QED BY <2>1, <2>2
<1>3. PICK x : x \in s
  BY <1>2
<1>4. Total(s \ {x}) <= b * Cardinality(s \ {x})
  BY <1>1, <1>3
<1>5. Total(s) = f[x] + Total(s \ {x}) /\ Total(s \ {x}) \in Int
  <2>1. IsFiniteSet(s \ {x})
    BY <1>1, FS_Subset
  <2> QED BY <1>1, <1>3, <2>1, SumRemove, SumInt DEF Total
<1>6. Cardinality(s \ {x}) = Cardinality(s) - 1 /\ Cardinality(s) \in Nat
  BY <1>1, <1>3, FS_RemoveElement, FS_CardinalityType
<1>7. b * (Cardinality(s) - 1) = b * Cardinality(s) - b
  BY <1>6
<1>8. f[x] \in Int /\ f[x] <= b /\ b * Cardinality(s) \in Int
  BY <1>3, <1>6
<1> HIDE DEF B
<1> QED BY <1>4, <1>5, <1>6, <1>7, <1>8 DEF B

\* A part of a sum of naturals, with the same terms, is no more than the whole.
LEMMA SumLess ==
    ASSUME NEW S, IsFiniteSet(S), NEW f, \A x \in S : f[x] \in Nat,
           NEW R \in SUBSET S, NEW e, \A x \in R : e[x] = f[x]
    PROVE  /\ SumFunctionOnSet(e, R) \in Nat /\ SumFunctionOnSet(f, S) \in Nat
           /\ SumFunctionOnSet(e, R) <= SumFunctionOnSet(f, S)
<1>1. IsFiniteSet(R) /\ \A x \in R : f[x] \in Nat
  BY FS_Subset
<1>2. SumFunctionOnSet(e, R) = SumFunctionOnSet(f, R)
  BY <1>1, SumAlike
<1>3. SumFunctionOnSet(f, R) \in Nat /\ SumFunctionOnSet(f, S) \in Nat
  BY <1>1, SumNat
<1>4. SumFunctionOnSet(f, R) <= SumFunctionOnSet(f, S)
  BY SumOfPart
<1> QED BY <1>2, <1>3, <1>4

LEMMA TimesMonotone ==
    ASSUME NEW a \in Nat, NEW m \in Int, NEW n \in Int, m <= n
    PROVE  a * m <= a * n
<1>1. n - m \in Nat /\ a * (n - m) >= 0
  OBVIOUS
<1>2. a * (n - m) = a * n - a * m
  OBVIOUS
<1> QED BY <1>1, <1>2

\* A finite set of integers has a greatest element.
LEMMA FiniteMax ==
    ASSUME NEW S \in SUBSET Int, IsFiniteSet(S), S # {}
    PROVE  \E m \in S : \A x \in S : x <= m
<1> DEFINE HasMax(s) == \E m \in s : \A x \in s : x <= m
           B == {s \in SUBSET S : s # {} /\ ~HasMax(s)}
<1> SUFFICES ASSUME B # {} PROVE FALSE
  OBVIOUS
<1>1. PICK s \in B : \A x \in s : s \ {x} \notin B
  <2> HIDE DEF B
  <2>1. B \in SUBSET (SUBSET S)
    BY DEF B
  <2> QED BY <2>1, SmallestSet
<1>2. PICK y \in s : y \in Int
  OBVIOUS
<1>3. s \ {y} # {}
  OBVIOUS
<1>4. HasMax(s \ {y})
  BY <1>1, <1>3
<1>5. PICK m \in s \ {y} : \A x \in s \ {y} : x <= m
  BY <1>4
<1>6. HasMax(s)
  <2>1. CASE y <= m
    BY <1>2, <1>5, <2>1
  <2>2. CASE ~(y <= m)
    <3>1. \A x \in s : x <= y
      BY <1>2, <1>5, <2>2
    <3> QED BY <3>1
  <2> QED BY <2>1, <2>2
<1> QED BY <1>6

LEMMA FiniteMin ==
    ASSUME NEW S \in SUBSET Int, IsFiniteSet(S), S # {}
    PROVE  \E m \in S : \A x \in S : m <= x
<1>1. PICK f : f = [x \in S |-> -x]
  OBVIOUS
<1>2. PICK N \in SUBSET Int : N = {-x : x \in S}
  <2>1. \A x \in S : -x \in Int
    OBVIOUS
  <2>2. {-x : x \in S} \in SUBSET Int
    BY <2>1
  <2> QED BY <2>2
<1>3. f \in Surjection(S, N)
  BY <1>1, <1>2 DEF Surjection
<1>4. IsFiniteSet(N)
  BY <1>3, FS_Surjection
<1>5. N # {}
  BY <1>2
<1>6. PICK k \in N : \A y \in N : y <= k
  BY <1>4, <1>5, FiniteMax
<1>7. PICK m \in S : k = -m
  BY <1>2
<1>8. \A x \in S : m <= x
  BY <1>2, <1>6, <1>7, SMTT(40)
<1> QED BY <1>8

\* The sum of a function changed at one point.
LEMMA SumChanges ==
    ASSUME NEW S, IsFiniteSet(S), NEW x \in S, NEW f, NEW g,
           \A y \in S : f[y] \in Int /\ g[y] \in Int,
           \A y \in S \ {x} : g[y] = f[y]
    PROVE  /\ SumFunctionOnSet(f, S) \in Int
           /\ SumFunctionOnSet(g, S) = SumFunctionOnSet(f, S) - f[x] + g[x]
<1>1. IsFiniteSet(S \ {x})
  BY FS_Subset
<1>2. SumFunctionOnSet(f, S) = f[x] + SumFunctionOnSet(f, S \ {x})
  BY SumRemove
<1>3. SumFunctionOnSet(g, S) = g[x] + SumFunctionOnSet(g, S \ {x})
  BY SumRemove
<1>4. SumFunctionOnSet(g, S \ {x}) = SumFunctionOnSet(f, S \ {x})
  <2>1. \A y \in S \ {x} : f[y] = g[y]
    OBVIOUS
  <2> QED BY <1>1, <2>1, SumAlike
<1>5. SumFunctionOnSet(f, S \ {x}) \in Int
  BY <1>1, SumInt
<1> QED BY <1>2, <1>3, <1>4, <1>5

LEMMA SumOfUnion ==
    ASSUME NEW S, IsFiniteSet(S), NEW R, IsFiniteSet(R), S \cap R = {}, NEW f,
           \A x \in S \cup R : f[x] \in Int
    PROVE  SumFunctionOnSet(f, S \cup R) = SumFunctionOnSet(f, S) + SumFunctionOnSet(f, R)
<1> DEFINE Total(s) == SumFunctionOnSet(f, s)
           B == {s \in SUBSET R : Total(S \cup s) # Total(S) + Total(s)}
<1>0. \A s \in SUBSET R : /\ IsFiniteSet(s) /\ IsFiniteSet(S \cup s)
                           /\ Total(s) \in Int /\ Total(S) \in Int
  <2>1. \A s \in SUBSET R : IsFiniteSet(s) /\ IsFiniteSet(S \cup s)
    BY FS_Subset, FS_Union
  <2>2. \A s \in SUBSET R : \A x \in s : f[x] \in Int
    OBVIOUS
  <2>3. Total(S) \in Int
    BY SumInt
  <2>4. ASSUME NEW s \in SUBSET R PROVE Total(s) \in Int
    <3>1. IsFiniteSet(s) /\ \A x \in s : f[x] \in Int
      BY <2>1, <2>2
    <3> QED BY <3>1, SumInt
  <2> HIDE DEF Total
  <2> QED BY <2>1, <2>3, <2>4
<1> HIDE DEF Total
<1> SUFFICES ASSUME B # {} PROVE FALSE
  BY DEF Total
<1>1. PICK s \in B : \A x \in s : s \ {x} \notin B
  <2> HIDE DEF B
  <2>1. B \in SUBSET (SUBSET R)
    BY DEF B
  <2> QED BY <2>1, SmallestSet
<1>2. s # {}
  <2> SUFFICES ASSUME s = {} PROVE FALSE
    OBVIOUS
  <2>1. S \cup s = S /\ Total(s) = 0
    BY SumEmpty DEF Total
  <2>2. Total(S \cup s) # Total(S) + Total(s) /\ Total(S) \in Int
    BY <1>0, <1>1
  <2> QED BY <2>1, <2>2
<1>3. PICK y : y \in s
  BY <1>2
<1>4. Total(S \cup (s \ {y})) = Total(S) + Total(s \ {y})
  BY <1>1, <1>3
<1>5. Total(s) = f[y] + Total(s \ {y})
  <2>1. IsFiniteSet(s) /\ \A x \in s : f[x] \in Int
    BY <1>0
  <2> QED BY <1>3, <2>1, SumRemove DEF Total
<1>6. Total(S \cup s) = f[y] + Total(S \cup (s \ {y}))
  <2>1. IsFiniteSet(S \cup s) /\ (\A x \in S \cup s : f[x] \in Int) /\ y \in S \cup s
    BY <1>0, <1>3
  <2>2. (S \cup s) \ {y} = S \cup (s \ {y})
    BY <1>3
  <2>3. Total(S \cup s) = f[y] + Total((S \cup s) \ {y})
    BY <2>1, SumRemove DEF Total
  <2> QED BY <2>2, <2>3
<1>7. f[y] \in Int /\ Total(S) \in Int /\ Total(s \ {y}) \in Int
  BY <1>0, <1>3
<1>8. Total(S \cup s) # Total(S) + Total(s)
  BY <1>1
<1> QED BY <1>4, <1>5, <1>6, <1>7, <1>8

\* A sum may be taken by the places its terms are found at.
OneToOne(at, S) == \A x, y \in S : at[x] = at[y] => x = y
Places(at, S) == {at[x] : x \in S}

LEMMA SumMoved ==
    ASSUME NEW S, IsFiniteSet(S), NEW R, IsFiniteSet(R), NEW at \in [S -> R], OneToOne(at, S),
           NEW f, \A y \in R : f[y] \in Int, NEW e, \A x \in S : e[x] = f[at[x]]
    PROVE  SumFunctionOnSet(e, S) = SumFunctionOnSet(f, Places(at, S))
<1> DEFINE E(s) == SumFunctionOnSet(e, s)
           F(s) == SumFunctionOnSet(f, {at[x] : x \in s})
           B == {s \in SUBSET S : E(s) # F(s)}
<1>1. ASSUME NEW s \in SUBSET S
      PROVE  IsFiniteSet(s) /\ IsFiniteSet({at[x] : x \in s}) /\ {at[x] : x \in s} \subseteq R
  <2>1. {at[x] : x \in s} \subseteq R
    OBVIOUS
  <2> QED BY <2>1, FS_Subset
<1>2. \A x \in S : e[x] \in Int
  OBVIOUS
<1> SUFFICES ASSUME E(S) # F(S) PROVE FALSE
  BY DEF Places
<1>3. S \in B
  OBVIOUS
<1>4. PICK s \in B : IsFiniteSet(s) /\ \A x \in s : s \ {x} \notin B
  <2>1. B \in SUBSET (SUBSET S) /\ B # {}
    BY <1>3
  <2> HIDE DEF B
  <2> QED BY <2>1, SmallestSet
<1>5. s # {}
  <2>1. E({}) = 0
    BY SumEmpty
  <2>2. {at[x] : x \in {}} = {}
    OBVIOUS
  <2>3. F({}) = 0
    BY <2>2, SumEmpty
  <2> QED BY <1>4, <2>1, <2>3
<1>6. PICK x \in s : TRUE
  BY <1>5
<1>7. E(s \ {x}) = F(s \ {x})
  BY <1>4
<1>8. E(s) = e[x] + E(s \ {x})
  <2>1. \A y \in s : e[y] \in Int
    BY <1>2
  <2> QED BY <1>4, <1>6, <2>1, SumRemove
<1>9. F(s) = f[at[x]] + F(s \ {x})
  <2> DEFINE T == {at[y] : y \in s}
  <2>1. IsFiniteSet(T) /\ \A y \in T : f[y] \in Int
    BY <1>1
  <2>2. at[x] \in T /\ T \ {at[x]} = {at[y] : y \in s \ {x}}
    BY <1>6 DEF OneToOne
  <2>3. SumFunctionOnSet(f, T) = f[at[x]] + SumFunctionOnSet(f, T \ {at[x]})
    <3> HIDE DEF T
    <3> QED BY <2>1, <2>2, SumRemove
  <2> QED BY <2>2, <2>3
<1>10. e[x] = f[at[x]]
  BY <1>6
<1> QED BY <1>4, <1>7, <1>8, <1>9, <1>10

\* A sum may be taken group by group.
SumsByGroup(t, G, f, S, key) ==
    \A g \in G : t[g] = SumFunctionOnSet(f, {x \in S : key[x] = g})

LEMMA SumOfGroups ==
    ASSUME NEW S, IsFiniteSet(S), NEW G, IsFiniteSet(G), NEW key \in [S -> G],
           NEW f, \A x \in S : f[x] \in Int, NEW t, SumsByGroup(t, G, f, S, key)
    PROVE  SumFunctionOnSet(t, G) = SumFunctionOnSet(f, S)
<1> DEFINE In(M) == {x \in S : key[x] \in M}
           B == {M \in SUBSET G : SumFunctionOnSet(t, M) # SumFunctionOnSet(f, In(M))}
<1>1. ASSUME NEW g \in G PROVE t[g] \in Int
  <2> DEFINE T == {x \in S : key[x] = g}
  <2>1. IsFiniteSet(T) /\ \A x \in T : f[x] \in Int
    BY FS_Subset
  <2>2. t[g] = SumFunctionOnSet(f, T)
    BY DEF SumsByGroup
  <2> HIDE DEF T
  <2> QED BY <2>1, <2>2, SumInt
<1> SUFFICES ASSUME SumFunctionOnSet(t, G) # SumFunctionOnSet(f, S) PROVE FALSE
  OBVIOUS
<1>2. G \in B
  <2>1. In(G) = S
    OBVIOUS
  <2> QED BY <2>1
<1>3. PICK M \in B : IsFiniteSet(M) /\ \A g \in M : M \ {g} \notin B
  <2>1. B \in SUBSET (SUBSET G) /\ B # {}
    BY <1>2
  <2> HIDE DEF B
  <2> QED BY <2>1, SmallestSet
<1>4. M # {}
  <2>1. In({}) = {}
    OBVIOUS
  <2> QED BY <1>3, <2>1, SumEmpty
<1>5. PICK g \in M : TRUE
  BY <1>4
<1>6. SumFunctionOnSet(t, M \ {g}) = SumFunctionOnSet(f, In(M \ {g}))
  BY <1>3
<1>7. SumFunctionOnSet(t, M) = t[g] + SumFunctionOnSet(t, M \ {g})
  <2>1. \A y \in M : t[y] \in Int
    BY <1>1
  <2> QED BY <1>3, <1>5, <2>1, SumRemove
<1>8. SumFunctionOnSet(f, In(M)) = t[g] + SumFunctionOnSet(f, In(M \ {g}))
  <2> DEFINE P == {x \in S : key[x] = g}
             Q == In(M \ {g})
  <2>1. IsFiniteSet(P) /\ IsFiniteSet(Q) /\ \A x \in P \cup Q : f[x] \in Int
    BY FS_Subset
  <2>2. P \cap Q = {} /\ P \cup Q = In(M)
    BY <1>5
  <2>3. t[g] = SumFunctionOnSet(f, P)
    BY <1>3, <1>5 DEF SumsByGroup
  <2>4. SumFunctionOnSet(f, P \cup Q) = SumFunctionOnSet(f, P) + SumFunctionOnSet(f, Q)
    <3> HIDE DEF P, Q
    <3> QED BY <2>1, <2>2, SumOfUnion
  <2> QED BY <2>2, <2>3, <2>4
<1> QED BY <1>3, <1>6, <1>7, <1>8

LEMMA SumZero ==
    ASSUME NEW S, IsFiniteSet(S), NEW f, \A x \in S : f[x] = 0
    PROVE  SumFunctionOnSet(f, S) = 0
<1>1. \A x \in S : f[x] \in Int /\ f[x] <= 0
  OBVIOUS
<1>2. PICK z \in Int : z = 0
  OBVIOUS
<1>3. SumFunctionOnSet(f, S) <= z * Cardinality(S)
  BY <1>1, <1>2, SumBound
<1>4. \A x \in S : f[x] \in Nat
  OBVIOUS
<1>5. SumFunctionOnSet(f, S) \in Nat /\ Cardinality(S) \in Nat
  BY <1>4, SumNat, FS_CardinalityType
<1> QED BY <1>2, <1>3, <1>5

LEMMA SumPlus ==
    ASSUME NEW S, IsFiniteSet(S), NEW f, NEW g, NEW h,
           \A x \in S : f[x] \in Int /\ g[x] \in Int /\ h[x] = f[x] + g[x]
    PROVE  SumFunctionOnSet(h, S) = SumFunctionOnSet(f, S) + SumFunctionOnSet(g, S)
<1> DEFINE F(s) == SumFunctionOnSet(f, s)
           G(s) == SumFunctionOnSet(g, s)
           H(s) == SumFunctionOnSet(h, s)
           B == {s \in SUBSET S : H(s) # F(s) + G(s)}
<1>0. ASSUME NEW s \in SUBSET S
      PROVE  IsFiniteSet(s) /\ F(s) \in Int /\ G(s) \in Int
  <2>1. IsFiniteSet(s)
    BY FS_Subset
  <2>2. (\A x \in s : f[x] \in Int) /\ \A x \in s : g[x] \in Int
    OBVIOUS
  <2>3. F(s) \in Int
    BY <2>1, <2>2, SumInt
  <2>4. G(s) \in Int
    BY <2>1, <2>2, SumInt
  <2> HIDE DEF F, G
  <2> QED BY <2>1, <2>3, <2>4
<1> HIDE DEF F, G, H
<1> SUFFICES ASSUME B # {} PROVE FALSE
  BY DEF F, G, H
<1>1. PICK s \in B : \A x \in s : s \ {x} \notin B
  <2> HIDE DEF B
  <2>1. B \in SUBSET (SUBSET S)
    BY DEF B
  <2> QED BY <2>1, SmallestSet
<1>2. s \in SUBSET S /\ H(s) # F(s) + G(s)
  BY <1>1
<1>3. s # {}
  <2> SUFFICES ASSUME s = {} PROVE FALSE
    OBVIOUS
  <2>1. F(s) = 0 /\ G(s) = 0 /\ H(s) = 0
    BY SumEmpty DEF F, G, H
  <2> QED BY <1>2, <2>1
<1>4. PICK y : y \in s
  BY <1>3
<1> DEFINE r == s \ {y}
<1>5. H(r) = F(r) + G(r) /\ r \in SUBSET S
  BY <1>1, <1>4
<1>6. IsFiniteSet(s) /\ F(r) \in Int /\ G(r) \in Int
  BY <1>0, <1>2
<1>7. f[y] \in Int /\ g[y] \in Int /\ h[y] = f[y] + g[y]
  BY <1>2, <1>4
<1>8. F(s) = f[y] + F(r)
  <2>1. \A x \in s : f[x] \in Int
    BY <1>2
  <2> QED BY <1>4, <1>6, <2>1, SumRemove DEF F
<1>9. G(s) = g[y] + G(r)
  <2>1. \A x \in s : g[x] \in Int
    BY <1>2
  <2> QED BY <1>4, <1>6, <2>1, SumRemove DEF G
<1>10. H(s) = h[y] + H(r)
  <2>1. \A x \in s : h[x] \in Int
    BY <1>2
  <2> QED BY <1>4, <1>6, <2>1, SumRemove DEF H
<1> HIDE DEF r
<1> QED BY <1>2, <1>5, <1>6, <1>7, <1>8, <1>9, <1>10

LEMMA SumTimes ==
    ASSUME NEW S, IsFiniteSet(S), NEW k \in Int, NEW f, NEW g,
           \A x \in S : f[x] \in Int /\ g[x] = k * f[x]
    PROVE  SumFunctionOnSet(g, S) = k * SumFunctionOnSet(f, S)
<1> DEFINE F(s) == SumFunctionOnSet(f, s)
           G(s) == SumFunctionOnSet(g, s)
           B == {s \in SUBSET S : G(s) # k * F(s)}
<1>0. ASSUME NEW s \in SUBSET S
      PROVE  IsFiniteSet(s) /\ F(s) \in Int
  <2>1. IsFiniteSet(s)
    BY FS_Subset
  <2>2. \A x \in s : f[x] \in Int
    OBVIOUS
  <2> QED BY <2>1, <2>2, SumInt
<1> HIDE DEF F, G
<1> SUFFICES ASSUME B # {} PROVE FALSE
  BY DEF F, G
<1>1. PICK s \in B : \A x \in s : s \ {x} \notin B
  <2> HIDE DEF B
  <2>1. B \in SUBSET (SUBSET S)
    BY DEF B
  <2> QED BY <2>1, SmallestSet
<1>2. s \in SUBSET S /\ G(s) # k * F(s)
  BY <1>1
<1>3. s # {}
  <2> SUFFICES ASSUME s = {} PROVE FALSE
    OBVIOUS
  <2>1. F(s) = 0 /\ G(s) = 0
    BY SumEmpty DEF F, G
  <2> QED BY <1>2, <2>1
<1>4. PICK y : y \in s
  BY <1>3
<1> DEFINE r == s \ {y}
<1>5. G(r) = k * F(r) /\ r \in SUBSET S
  BY <1>1, <1>4
<1>6. IsFiniteSet(s) /\ F(r) \in Int
  BY <1>0, <1>2
<1>7. f[y] \in Int /\ g[y] = k * f[y]
  BY <1>2, <1>4
<1>8. F(s) = f[y] + F(r)
  <2>1. \A x \in s : f[x] \in Int
    BY <1>2
  <2> QED BY <1>4, <1>6, <2>1, SumRemove DEF F
<1>9. G(s) = g[y] + G(r)
  <2>1. \A x \in s : g[x] \in Int
    BY <1>2
  <2> QED BY <1>4, <1>6, <2>1, SumRemove DEF G
<1> HIDE DEF r
<1>10. k * (f[y] + F(r)) = k * f[y] + k * F(r)
  BY <1>6, <1>7
<1> QED BY <1>2, <1>5, <1>7, <1>8, <1>9, <1>10

LEMMA SumConst ==
    ASSUME NEW S, IsFiniteSet(S), NEW c \in Int, NEW f, \A x \in S : f[x] = c
    PROVE  SumFunctionOnSet(f, S) = c * Cardinality(S)
<1> DEFINE m == -c
           g == [x \in S |-> m]
           z == [x \in S |-> 0]
<1>1. SumFunctionOnSet(f, S) <= c * Cardinality(S)
  <2>1. \A x \in S : f[x] \in Int /\ f[x] <= c
    OBVIOUS
  <2> QED BY <2>1, SumBound
<1>2. SumFunctionOnSet(g, S) <= m * Cardinality(S)
  <2>1. m \in Int /\ \A x \in S : g[x] \in Int /\ g[x] <= m
    OBVIOUS
  <2> HIDE DEF m, g
  <2> QED BY <2>1, SumBound
<1>3. SumFunctionOnSet(z, S) = SumFunctionOnSet(f, S) + SumFunctionOnSet(g, S)
  <2>1. \A x \in S : f[x] \in Int /\ g[x] \in Int /\ z[x] = f[x] + g[x]
    OBVIOUS
  <2> HIDE DEF z, g
  <2> QED BY <2>1, SumPlus
<1>4. SumFunctionOnSet(z, S) = 0
  BY SumZero
<1>5. SumFunctionOnSet(f, S) \in Int
  BY SumInt
<1>6. SumFunctionOnSet(g, S) \in Int
  BY SumInt
<1>7. Cardinality(S) \in Nat
  BY FS_CardinalityType
<1>8. m * Cardinality(S) = -(c * Cardinality(S))
  BY <1>7
<1> HIDE DEF m, g, z
<1>9. c * Cardinality(S) \in Int
  BY <1>7
<1> QED BY <1>1, <1>2, <1>3, <1>4, <1>5, <1>6, <1>8, <1>9

-----------------------------------------------------------------------------
(* Sets in order.                                                           *)

StrictOrder(S, order) ==
    /\ order \subseteq S \X S
    /\ \A x \in S : <<x, x>> \notin order
    /\ \A x, y \in S : x # y => <<x, y>> \in order \/ <<y, x>> \in order
    /\ \A x, y, z \in S : <<x, y>> \in order /\ <<y, z>> \in order => <<x, z>> \in order

\* A set in order holds each of its elements once, in the order.
ListedInOrder(a, S, order) ==
    /\ a \in [1 .. Cardinality(S) -> S]
    /\ \A x \in S : \E k \in 1 .. Cardinality(S) : a[k] = x
    /\ \A j, k \in 1 .. Cardinality(S) : j < k <=> <<a[j], a[k]>> \in order

\* The number of elements before an element gives its place away.
LEMMA BeforeGrows ==
    ASSUME NEW S, IsFiniteSet(S), NEW order, StrictOrder(S, order),
           NEW x \in S, NEW y \in S, <<x, y>> \in order
    PROVE  /\ Cardinality(Before(S, order, x)) \in Nat
           /\ Cardinality(Before(S, order, y)) \in Nat
           /\ Cardinality(Before(S, order, x)) < Cardinality(Before(S, order, y))
<1> DEFINE A == Before(S, order, x)
           B == Before(S, order, y)
<1>1. A \subseteq B /\ x \in B /\ x \notin A
  BY DEF StrictOrder, Before
<1>2. IsFiniteSet(A) /\ IsFiniteSet(B)
  <2>1. A \in SUBSET S /\ B \in SUBSET S
    BY DEF Before
  <2> HIDE DEF A, B
  <2> QED BY <2>1, FS_Subset
<1> HIDE DEF A, B
<1>3. Cardinality(A) <= Cardinality(B) /\ Cardinality(A) # Cardinality(B)
  <2>1. A \in SUBSET B
    BY <1>1
  <2>2. Cardinality(A) <= Cardinality(B) /\ (Cardinality(B) = Cardinality(A) => B = A)
    BY <1>2, <2>1, FS_Subset
  <2> QED BY <1>1, <2>2
<1>4. Cardinality(A) \in Nat /\ Cardinality(B) \in Nat
  BY <1>2, FS_CardinalityType
<1>5. Cardinality(A) < Cardinality(B)
  BY <1>3, <1>4
<1> QED BY <1>4, <1>5 DEF A, B

LEMMA BeforeBounded ==
    ASSUME NEW S, IsFiniteSet(S), NEW order, StrictOrder(S, order), NEW x \in S
    PROVE  Cardinality(Before(S, order, x)) \in 0 .. Cardinality(S) - 1
<1> DEFINE A == Before(S, order, x)
<1>1. A \in SUBSET (S \ {x})
  BY DEF StrictOrder, Before
<1> HIDE DEF A
<1>2. IsFiniteSet(S \ {x}) /\ Cardinality(S \ {x}) = Cardinality(S) - 1
  BY FS_RemoveElement
<1>3. IsFiniteSet(A) /\ Cardinality(A) <= Cardinality(S \ {x})
  BY <1>1, <1>2, FS_Subset
<1>4. Cardinality(A) \in Nat /\ Cardinality(S) \in Nat
  BY <1>3, FS_CardinalityType
<1>5. Cardinality(A) \in 0 .. Cardinality(S) - 1
  BY <1>2, <1>3, <1>4
<1> QED BY <1>5 DEF A

LEMMA ArrangedInOrder ==
    ASSUME NEW S, IsFiniteSet(S), NEW order, StrictOrder(S, order)
    PROVE  ListedInOrder(Arranged(S, order), S, order)
<1> DEFINE n == Cardinality(S)
           At(x) == Cardinality(Before(S, order, x))
           f == [x \in S |-> At(x) + 1]
           a == Arranged(S, order)
<1>1. n \in Nat
  BY FS_CardinalityType
<1>2. \A x \in S : At(x) \in 0 .. n - 1
  BY BeforeBounded
<1>3. \A x, y \in S : <<x, y>> \in order => At(x) < At(y)
  BY BeforeGrows
<1>4. \A x, y \in S : x # y => At(x) # At(y)
  <2> SUFFICES ASSUME NEW x \in S, NEW y \in S, x # y PROVE At(x) # At(y)
    OBVIOUS
  <2>1. <<x, y>> \in order \/ <<y, x>> \in order
    BY DEF StrictOrder
  <2>2. At(x) \in Int /\ At(y) \in Int
    BY <1>1, <1>2
  <2> HIDE DEF At
  <2> QED BY <1>3, <2>1, <2>2
<1>5. a = [k \in 1 .. n |-> CHOOSE x \in S : At(x) = k - 1]
  BY DEF Arranged
<1> HIDE DEF At, n, a
<1>6. f \in [S -> 1 .. n]
  BY <1>1, <1>2
<1>7. f \in Injection(S, 1 .. n)
  BY <1>1, <1>2, <1>4, <1>6 DEF Injection, IsInjective
<1>8. f \in Surjection(S, 1 .. n)
  <2>1. IsFiniteSet(1 .. n) /\ Cardinality(1 .. n) = n
    BY <1>1, FS_Interval
  <2> HIDE DEF f
  <2> QED BY <1>7, <2>1, FS_Injection DEF n
<1>9. \A k \in 1 .. n : \E x \in S : At(x) = k - 1
  <2> SUFFICES ASSUME NEW k \in 1 .. n PROVE \E x \in S : At(x) = k - 1
    OBVIOUS
  <2>1. PICK x \in S : f[x] = k
    BY <1>8 DEF Surjection
  <2>2. At(x) + 1 = k
    BY <2>1
  <2>3. At(x) = k - 1
    BY <1>1, <1>2, <2>2
  <2> QED BY <2>3
<1> HIDE DEF f
<1>10. \A k \in 1 .. n : a[k] \in S /\ At(a[k]) = k - 1
  <2> SUFFICES ASSUME NEW k \in 1 .. n PROVE a[k] \in S /\ At(a[k]) = k - 1
    OBVIOUS
  <2>1. \E x \in S : At(x) = k - 1
    BY <1>9
  <2>2. a[k] = CHOOSE x \in S : At(x) = k - 1
    BY <1>5
  <2> QED BY <2>1, <2>2
<1>11. a \in [1 .. n -> S]
  BY <1>5, <1>10
<1>12. \A x \in S : \E k \in 1 .. n : a[k] = x
  <2> SUFFICES ASSUME NEW x \in S PROVE a[At(x) + 1] = x /\ At(x) + 1 \in 1 .. n
    OBVIOUS
  <2>1. At(x) + 1 \in 1 .. n /\ (At(x) + 1) - 1 = At(x)
    BY <1>1, <1>2
  <2>2. a[At(x) + 1] \in S /\ At(a[At(x) + 1]) = At(x)
    BY <1>10, <2>1
  <2> QED BY <1>4, <2>1, <2>2
<1>13. ASSUME NEW j \in 1 .. n, NEW k \in 1 .. n PROVE j < k <=> <<a[j], a[k]>> \in order
  <2>1. a[j] \in S /\ a[k] \in S /\ At(a[j]) = j - 1 /\ At(a[k]) = k - 1
    BY <1>10
  <2>2. ASSUME <<a[j], a[k]>> \in order PROVE j < k
    <3>1. At(a[j]) < At(a[k])
      BY <1>3, <2>1, <2>2
    <3> QED BY <1>1, <2>1, <3>1
  <2>3. ASSUME j < k PROVE <<a[j], a[k]>> \in order
    <3>1. a[j] # a[k]
      BY <2>1, <2>3, <1>1
    <3>2. ASSUME <<a[k], a[j]>> \in order PROVE FALSE
      <4>1. At(a[k]) < At(a[j])
        BY <1>3, <2>1, <3>2
      <4> QED BY <1>1, <2>1, <2>3, <4>1
    <3> QED BY <2>1, <3>1, <3>2 DEF StrictOrder
  <2> QED BY <2>2, <2>3
<1> QED BY <1>11, <1>12, <1>13 DEF ListedInOrder, n, a

LEMMA DescendingFalls ==
    ASSUME NEW S \in SUBSET Int, IsFiniteSet(S)
    PROVE  /\ Cardinality(S) \in Nat
           /\ Descending(S) \in [1 .. Cardinality(S) -> S]
           /\ \A x \in S : \E k \in 1 .. Cardinality(S) : Descending(S)[k] = x
           /\ \A j, k \in 1 .. Cardinality(S) : j < k <=> Descending(S)[j] > Descending(S)[k]
<1> DEFINE order == {p \in {<<x, y>> : x, y \in S} : p[1] > p[2]}
<1>1. \A x, y \in S : <<x, y>> \in order <=> x > y
  OBVIOUS
<1>2. StrictOrder(S, order)
  <2>1. order \subseteq S \X S
    OBVIOUS
  <2> HIDE DEF order
  <2> QED BY <1>1, <2>1 DEF StrictOrder
<1>3. ListedInOrder(Descending(S), S, order)
  <2> HIDE DEF order
  <2>1. ListedInOrder(Arranged(S, order), S, order)
    BY <1>2, ArrangedInOrder
  <2> QED BY <2>1 DEF Descending, order
<1>4. Cardinality(S) \in Nat
  BY FS_CardinalityType
<1> HIDE DEF order
<1> DEFINE d == Descending(S)
           n == Cardinality(S)
<1>5. d \in [1 .. n -> S] /\ (\A x \in S : \E k \in 1 .. n : d[k] = x)
  BY <1>3 DEF ListedInOrder
<1>6. \A j, k \in 1 .. n : j < k <=> <<d[j], d[k]>> \in order
  BY <1>3 DEF ListedInOrder
<1> HIDE DEF d
<1>7. \A j, k \in 1 .. n : j < k <=> d[j] > d[k]
  BY <1>1, <1>5, <1>6
<1> QED BY <1>4, <1>5, <1>7 DEF d

LEMMA AscendingRises ==
    ASSUME NEW S \in SUBSET Int, IsFiniteSet(S)
    PROVE  /\ Cardinality(S) \in Nat
           /\ Ascending(S) \in [1 .. Cardinality(S) -> S]
           /\ \A x \in S : \E k \in 1 .. Cardinality(S) : Ascending(S)[k] = x
           /\ \A j, k \in 1 .. Cardinality(S) : j < k <=> Ascending(S)[j] < Ascending(S)[k]
<1> DEFINE order == {p \in {<<x, y>> : x, y \in S} : p[1] < p[2]}
<1>1. \A x, y \in S : <<x, y>> \in order <=> x < y
  OBVIOUS
<1>2. StrictOrder(S, order)
  <2>1. order \subseteq S \X S
    OBVIOUS
  <2> HIDE DEF order
  <2> QED BY <1>1, <2>1 DEF StrictOrder
<1>3. ListedInOrder(Ascending(S), S, order)
  <2> HIDE DEF order
  <2>1. ListedInOrder(Arranged(S, order), S, order)
    BY <1>2, ArrangedInOrder
  <2> QED BY <2>1 DEF Ascending, order
<1>4. Cardinality(S) \in Nat
  BY FS_CardinalityType
<1> HIDE DEF order
<1> DEFINE d == Ascending(S)
           n == Cardinality(S)
<1>5. d \in [1 .. n -> S] /\ (\A x \in S : \E k \in 1 .. n : d[k] = x)
  BY <1>3 DEF ListedInOrder
<1>6. \A j, k \in 1 .. n : j < k <=> <<d[j], d[k]>> \in order
  BY <1>3 DEF ListedInOrder
<1> HIDE DEF d
<1>7. \A j, k \in 1 .. n : j < k <=> d[j] < d[k]
  BY <1>1, <1>5, <1>6
<1> QED BY <1>4, <1>5, <1>7 DEF d

\* A filter keeps what it is given.
LEMMA FilteredKeeps ==
    ASSUME NEW T, NEW s \in Seq(T), NEW I \in SUBSET (DOMAIN s)
    PROVE  /\ IsFiniteSet(I) /\ Cardinality(I) \in Nat
           /\ Filtered(s, I) \in Seq(T) /\ Len(Filtered(s, I)) = Cardinality(I)
           /\ \A k \in 1 .. Cardinality(I) :
                 /\ Ascending(I)[k] \in I
                 /\ Filtered(s, I)[k] = s[Ascending(I)[k]]
<1>1. DOMAIN s = 1 .. Len(s) /\ Len(s) \in Nat
  BY LenProperties
<1>2. IsFiniteSet(I) /\ I \in SUBSET Int
  <2>1. IsFiniteSet(1 .. Len(s))
    BY <1>1, FS_Interval
  <2> QED BY <1>1, <2>1, FS_Subset
<1>3. Cardinality(I) \in Nat /\ Ascending(I) \in [1 .. Cardinality(I) -> I]
  BY <1>2, AscendingRises
<1> DEFINE n == Cardinality(I)
           a == Ascending(I)
           f == Filtered(s, I)
<1>4. f = [k \in 1 .. n |-> s[a[k]]]
  <2>1. DOMAIN a = 1 .. n
    BY <1>3
  <2> QED BY <2>1 DEF Filtered
<1> HIDE DEF n, a, f
<1>5. n \in Nat /\ \A k \in 1 .. n : a[k] \in I
  BY <1>3 DEF n, a
<1>6. \A k \in 1 .. n : s[a[k]] \in T
  BY <1>1, <1>5, ElementOfSeq
<1>7. f \in Seq(T) /\ Len(f) = n
  BY <1>4, <1>5, <1>6
<1> QED BY <1>2, <1>4, <1>5, <1>7 DEF n, a, f

-----------------------------------------------------------------------------
(* Folds from the left.  An operator cannot be a parameter of a lemma; a    *)
(* step given as a function can.                                            *)

Top(s) == Max(s)

\* g walks over the sets of a family of positions, last position last.
Steps(g, step, base, family) ==
    g = [s \in family |-> IF s = {} THEN base ELSE step[<<Top(s), g[s \ {Top(s)}]>>]]

LEMMA TopIn ==
    ASSUME NEW s \in SUBSET Int, IsFiniteSet(s), s # {}
    PROVE  Top(s) \in s /\ \A x \in s : x <= Top(s)
<1>1. \E m \in s : \A x \in s : x <= m
  BY FiniteMax
<1>2. \E m \in s : \A x \in s : m >= x
  BY <1>1
<1>3. Top(s) \in s /\ \A x \in s : Top(s) >= x
  BY <1>2 DEF Top, Max
<1> QED BY <1>3

\* What is left of a set of positions without the last of them.
LEMMA TopLast ==
    ASSUME NEW n \in Nat, NEW s \in SUBSET (1 .. n), s # {}
    PROVE  Top(s) \in s /\ s \ {Top(s)} \in SUBSET (1 .. n - 1)
<1>1. IsFiniteSet(1 .. n)
  BY FS_Interval
<1>2. IsFiniteSet(s)
  BY <1>1, FS_Subset
<1>3. s \in SUBSET Int
  OBVIOUS
<1>4. Top(s) \in s /\ \A x \in s : x <= Top(s)
  BY <1>2, <1>3, TopIn
<1>5. ASSUME NEW x \in s, x # Top(s) PROVE x \in 1 .. n - 1
  <2>1. x \in 1 .. n /\ Top(s) \in 1 .. n /\ x <= Top(s)
    BY <1>4
  <2> QED BY <1>5, <2>1
<1> QED BY <1>4, <1>5

LEMMA StepsNext ==
    ASSUME NEW n \in Nat, NEW k \in 0 .. n, k < n, NEW T, NEW base \in T,
           NEW step \in [(1 .. n) \X T -> T],
           NEW g \in [SUBSET (1 .. k) -> T], Steps(g, step, base, SUBSET (1 .. k))
    PROVE  \E h \in [SUBSET (1 .. k + 1) -> T] : Steps(h, step, base, SUBSET (1 .. k + 1))
<1> DEFINE F(s) == IF s = {} THEN base ELSE step[<<Top(s), g[s \ {Top(s)}]>>]
           h == [s \in SUBSET (1 .. k + 1) |-> F(s)]
<1>1. ASSUME NEW s \in SUBSET (1 .. k + 1), s # {}
      PROVE  Top(s) \in 1 .. n /\ s \ {Top(s)} \in SUBSET (1 .. k)
  <2>1. PICK m \in Nat : m = k + 1
    OBVIOUS
  <2>2. s \in SUBSET (1 .. m)
    BY <2>1
  <2>3. Top(s) \in s /\ s \ {Top(s)} \in SUBSET (1 .. m - 1)
    BY <1>1, <2>2, TopLast
  <2>4. m - 1 = k /\ 1 .. m \subseteq 1 .. n
    BY <2>1
  <2> QED BY <2>2, <2>3, <2>4
<1>2. ASSUME NEW s \in SUBSET (1 .. k)
      PROVE  g[s] = IF s = {} THEN base ELSE step[<<Top(s), g[s \ {Top(s)}]>>]
  BY DEF Steps
<1>3. ASSUME NEW s \in SUBSET (1 .. k + 1), s # {}
      PROVE  h[s \ {Top(s)}] = g[s \ {Top(s)}]
  <2> DEFINE t == s \ {Top(s)}
  <2>1. t \in SUBSET (1 .. k) /\ t \in SUBSET (1 .. k + 1)
    BY <1>1, <1>3
  <2>2. h[t] = F(t)
    BY <2>1
  <2>3. g[t] = F(t)
    <3> HIDE DEF t
    <3> QED BY <1>2, <2>1
  <2> QED BY <2>2, <2>3
<1>4. \A s \in SUBSET (1 .. k + 1) :
         F(s) = IF s = {} THEN base ELSE step[<<Top(s), h[s \ {Top(s)}]>>]
  BY <1>3
<1>5. ASSUME NEW s \in SUBSET (1 .. k + 1) PROVE F(s) \in T
  <2>1. CASE s = {}
    BY <2>1
  <2>2. CASE s # {}
    <3>1. Top(s) \in 1 .. n /\ g[s \ {Top(s)}] \in T
      BY <1>1, <2>2
    <3> QED BY <2>2, <3>1
  <2> QED BY <2>1, <2>2
<1> HIDE DEF F
<1>6. h \in [SUBSET (1 .. k + 1) -> T]
  BY <1>5
<1>7. Steps(h, step, base, SUBSET (1 .. k + 1))
  BY <1>4 DEF Steps
<1> HIDE DEF h
<1> QED BY <1>6, <1>7

LEMMA StepsExist ==
    ASSUME NEW n \in Nat, NEW T, NEW base \in T, NEW step \in [(1 .. n) \X T -> T]
    PROVE  \E g \in [SUBSET (1 .. n) -> T] : Steps(g, step, base, SUBSET (1 .. n))
<1> DEFINE Made(k) == \E g \in [SUBSET (1 .. k) -> T] : Steps(g, step, base, SUBSET (1 .. k))
           B == {k \in 0 .. n : ~Made(k)}
<1>1. Made(0)
  <2> DEFINE g == [s \in SUBSET (1 .. 0) |-> base]
  <2>1. \A s \in SUBSET (1 .. 0) : s = {}
    OBVIOUS
  <2>2. g = [s \in SUBSET (1 .. 0) |-> IF s = {} THEN base ELSE step[<<Top(s), g[s \ {Top(s)}]>>]]
    BY <2>1
  <2>3. g \in [SUBSET (1 .. 0) -> T]
    OBVIOUS
  <2> HIDE DEF g
  <2> QED BY <2>2, <2>3 DEF Steps
<1>2. ASSUME NEW k \in 0 .. n, k < n, Made(k) PROVE Made(k + 1)
  BY <1>2, StepsNext
<1> HIDE DEF Made
<1>3. B = {}
  <2> SUFFICES ASSUME B # {} PROVE FALSE
    OBVIOUS
  <2>1. PICK k \in B : \A m \in B : k <= m
    <3>1. B \subseteq Nat
      OBVIOUS
    <3> HIDE DEF B
    <3> QED BY <3>1, LeastOf
  <2>2. k \in 0 .. n /\ ~Made(k) /\ k # 0
    BY <1>1, <2>1
  <2>3. k - 1 \in 0 .. n /\ k - 1 < n /\ k - 1 \notin B
    <3> HIDE DEF B
    <3> QED BY <2>1, <2>2
  <2>4. Made(k - 1)
    BY <2>3
  <2>5. Made((k - 1) + 1)
    BY <1>2, <2>3, <2>4
  <2>6. (k - 1) + 1 = k
    BY <2>2
  <2> QED BY <2>2, <2>5, <2>6
<1>4. Made(n)
  BY <1>3
<1> QED BY <1>4 DEF Made

\* The values of a fold, position by position.
LEMMA StepsUnfold ==
    ASSUME NEW n \in Nat, NEW T, NEW base, NEW step,
           NEW g \in [SUBSET (1 .. n) -> T], Steps(g, step, base, SUBSET (1 .. n))
    PROVE  /\ g[1 .. 0] = base
           /\ \A k \in 1 .. n : g[1 .. k] = step[<<k, g[1 .. k - 1]>>] /\ g[1 .. k] \in T
<1>1. ASSUME NEW s \in SUBSET (1 .. n)
      PROVE  g[s] = IF s = {} THEN base ELSE step[<<Top(s), g[s \ {Top(s)}]>>]
  BY DEF Steps
<1>2. g[1 .. 0] = base
  <2>1. 1 .. 0 = {} /\ {} \in SUBSET (1 .. n)
    OBVIOUS
  <2> QED BY <1>1, <2>1
<1>3. ASSUME NEW k \in 1 .. n
      PROVE  g[1 .. k] = step[<<k, g[1 .. k - 1]>>] /\ g[1 .. k] \in T
  <2> DEFINE s == 1 .. k
  <2>1. s \in SUBSET (1 .. n) /\ s # {} /\ s \in SUBSET Int
    OBVIOUS
  <2>2. IsFiniteSet(s)
    BY FS_Interval
  <2>3. Top(s) = k
    <3>1. Top(s) \in s /\ \A x \in s : x <= Top(s)
      <4> HIDE DEF s
      <4> QED BY <2>1, <2>2, TopIn
    <3> QED BY <3>1
  <2>4. s \ {k} = 1 .. k - 1
    OBVIOUS
  <2>5. g[s] = step[<<Top(s), g[s \ {Top(s)}]>>]
    <3> HIDE DEF s
    <3> QED BY <1>1, <2>1
  <2> QED BY <2>1, <2>3, <2>4, <2>5
<1> QED BY <1>2, <1>3

\* The positions up to one of them, and the last of these.
LEMMA TopOfPrefix ==
    ASSUME NEW n \in Nat, NEW k \in 1 .. n
    PROVE  /\ 1 .. k \in SUBSET (1 .. n) /\ 1 .. k # {} /\ Max(1 .. k) = k
           /\ (1 .. k) \ {k} = 1 .. k - 1 /\ k - 1 \in 0 .. n /\ k - 1 < n
<1>1. 1 .. k \in SUBSET (1 .. n) /\ 1 .. k # {} /\ 1 .. k \in SUBSET Int
  OBVIOUS
<1>2. IsFiniteSet(1 .. k)
  BY FS_Interval
<1>3. Top(1 .. k) \in 1 .. k /\ \A x \in 1 .. k : x <= Top(1 .. k)
  BY <1>1, <1>2, TopIn
<1>4. Top(1 .. k) = k
  BY <1>3
<1>5. (1 .. k) \ {k} = 1 .. k - 1
  OBVIOUS
<1> QED BY <1>1, <1>4, <1>5 DEF Top

\* An induction up to a position.
LEMMA Upwards ==
    ASSUME NEW n \in Nat, NEW B, 0 \in B, \A k \in 1 .. n : k - 1 \in B => k \in B
    PROVE  0 .. n \subseteq B
<1> DEFINE C == (0 .. n) \ B
<1> SUFFICES ASSUME C # {} PROVE FALSE
  OBVIOUS
<1>1. PICK k \in C : \A m \in C : k <= m
  <2>1. C \subseteq Nat
    OBVIOUS
  <2> HIDE DEF C
  <2> QED BY <2>1, LeastOf
<1>2. k \in 1 .. n /\ k \notin B
  BY <1>1
<1>3. k - 1 \in B
  <2>1. k - 1 \in 0 .. n /\ ~(k <= k - 1)
    BY <1>2
  <2> QED BY <1>1, <2>1
<1> QED BY <1>2, <1>3

\* What a filter leaves of numbers adds up to the numbers at its positions.
LEMMA SumFiltered ==
    ASSUME NEW s \in Seq(Int), NEW I \in SUBSET (DOMAIN s)
    PROVE  SumFunction(Filtered(s, I)) = SumFunctionOnSet(s, I)
<1> DEFINE at == Ascending(I)
           K == 1 .. Cardinality(I)
           e == Filtered(s, I)
<1>1. DOMAIN s \in SUBSET Int /\ \A i \in DOMAIN s : s[i] \in Int
  BY ElementOfSeq, LenProperties
<1>2. /\ IsFiniteSet(I) /\ Cardinality(I) \in Nat
      /\ e \in Seq(Int) /\ Len(e) = Cardinality(I)
      /\ \A k \in K : e[k] = s[at[k]]
  BY FilteredKeeps
<1>3. /\ at \in [K -> I]
      /\ \A x \in I : \E k \in K : at[k] = x
      /\ \A j, k \in K : j < k <=> at[j] < at[k]
  BY <1>1, <1>2, AscendingRises
<1> HIDE DEF at, e
<1>4. OneToOne(at, K)
  <2> SUFFICES ASSUME NEW j \in K, NEW k \in K, at[j] = at[k] PROVE j = k
    BY DEF OneToOne
  <2>1. j \in Int /\ k \in Int /\ at[j] \in Int
    BY <1>1, <1>3
  <2>2. ~(j < k) /\ ~(k < j)
    BY <1>3, <2>1
  <2> QED BY <2>1, <2>2
<1>5. IsFiniteSet(K)
  BY <1>2, FS_Interval
<1>6. I = Places(at, K)
  BY <1>3 DEF Places
<1>7. DOMAIN e = K
  BY <1>2, LenProperties
<1>8. SumFunctionOnSet(e, K) = SumFunctionOnSet(s, Places(at, K))
  <2>1. \A i \in I : s[i] \in Int
    BY <1>1
  <2>2. IsFiniteSet(I) /\ at \in [K -> I] /\ \A k \in K : e[k] = s[at[k]]
    BY <1>2, <1>3
  <2> HIDE DEF K
  <2> QED BY <1>4, <1>5, <2>1, <2>2, SumMoved
<1>9. SumFunction(e) = SumFunctionOnSet(s, I)
  BY <1>6, <1>7, <1>8 DEF SumFunction
<1> QED BY <1>9 DEF e

\* The elements of a set without gaps follow one another.
LEMMA AscendingByOne ==
    ASSUME NEW S \in SUBSET Int, IsFiniteSet(S),
           \A x, z \in S : \A y \in x .. z : y \in S
    PROVE  \A k \in 1 .. Cardinality(S) : Ascending(S)[k] = Ascending(S)[1] + k - 1
<1> DEFINE n == Cardinality(S)
           at == Ascending(S)
           B == {k \in 0 .. n : k > 0 => at[k] = at[1] + k - 1}
<1>1. /\ n \in Nat /\ at \in [1 .. n -> S]
      /\ \A x \in S : \E k \in 1 .. n : at[k] = x
      /\ \A j, k \in 1 .. n : j < k <=> at[j] < at[k]
  BY AscendingRises
<1> HIDE DEF n, at
<1>2. ASSUME NEW k \in 1 .. n, k + 1 <= n PROVE at[k + 1] = at[k] + 1
  <2>1. k + 1 \in 1 .. n /\ at[k] \in S /\ at[k + 1] \in S /\ at[k] < at[k + 1]
    BY <1>1, <1>2
  <2>2. at[k] \in Int /\ at[k + 1] \in Int
    BY <2>1
  <2>3. at[k] + 1 \in at[k] .. at[k + 1]
    BY <2>1, <2>2
  <2>4. at[k] + 1 \in S
    BY <2>1, <2>3
  <2>5. PICK j \in 1 .. n : at[j] = at[k] + 1
    BY <1>1, <2>4
  <2>6. k < j
    BY <1>1, <2>2, <2>5
  <2>7. ~(at[j] < at[k + 1]) \/ j < k + 1
    BY <1>1, <2>1
  <2> QED BY <2>1, <2>2, <2>5, <2>6, <2>7
<1>3. 0 \in B
  BY <1>1
<1>4. \A k \in 1 .. n : k - 1 \in B => k \in B
  <2> SUFFICES ASSUME NEW k \in 1 .. n, k - 1 \in B PROVE k \in B
    OBVIOUS
  <2>1. CASE k = 1
    <3>1. at[1] \in Int
      BY <1>1, <2>1
    <3>2. at[k] = at[1] + k - 1
      BY <2>1, <3>1
    <3> QED BY <1>1, <3>2
  <2>2. CASE k # 1
    <3>1. k - 1 \in 1 .. n /\ (k - 1) + 1 = k /\ (k - 1) + 1 <= n
      BY <1>1, <2>2
    <3>2. at[k] = at[k - 1] + 1
      BY <1>2, <3>1
    <3>3. at[1] \in Int
      <4>1. 1 \in 1 .. n
        BY <1>1, <3>1
      <4> QED BY <1>1, <4>1
    <3>4. at[k - 1] = at[1] + (k - 1) - 1
      BY <3>1
    <3>5. at[k] = at[1] + k - 1
      BY <3>1, <3>2, <3>3, <3>4
    <3> QED BY <1>1, <3>5
  <2> QED BY <2>1, <2>2
<1>5. 0 .. n \subseteq B
  <2> HIDE DEF B
  <2> QED BY <1>1, <1>3, <1>4, Upwards
<1>6. \A k \in 1 .. n : at[k] = at[1] + k - 1
  BY <1>1, <1>5
<1> QED BY <1>6 DEF n, at
=============================================================================
