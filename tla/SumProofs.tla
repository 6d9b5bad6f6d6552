------------------------------- MODULE SumProofs -------------------------------
(***************************************************************************)
(* Lemmas about sums over finite sets (SumFunctionOnSet of the community   *)
(* module Functions), which the books of the command line and the size of  *)
(* an export are made of.  The induction is on the number of elements, as  *)
(* an argument by least counterexample: a set of naturals that is not      *)
(* empty has a least element.                                              *)
(***************************************************************************)
EXTENDS Integers, Functions, FiniteSetTheorems, WellFoundedInduction, TLAPS

\* The least-number principle, from the well-foundedness of < on Nat.
LEMMA LeastNumber ==
    ASSUME NEW T, T \subseteq Nat, T # {}
    PROVE  \E n \in T : \A m \in T : n <= m
<1> DEFINE R == OpToRel(<, Nat)
<1>1. IsWellFoundedOn(R, Nat)
  BY NatLessThanWellFounded
<1>2. PICK n \in T : \A m \in T : ~(<<m, n>> \in R)
  <2> HIDE DEF R
  <2> QED BY <1>1, WFMin
<1>3. \A m \in T : ~(m < n)
  BY <1>2 DEF OpToRel
<1> QED BY <1>3

\* The element that the fold takes next, and the recursion it goes by.
AnyOf(s) == CHOOSE x \in s : TRUE

IsSum(g, f, S) ==
    g = [s \in SUBSET S |-> IF s = {} THEN 0 ELSE f[AnyOf(s)] + g[s \ {AnyOf(s)}]]

\* The sum is the value at S of a solution of the recursion.
LEMMA SumDef ==
    ASSUME NEW f, NEW S
    PROVE  SumFunctionOnSet(f, S) = (CHOOSE g : IsSum(g, f, S))[S]
BY DEF SumFunctionOnSet, FoldFunctionOnSet, MapThenFoldSet, IsSum, AnyOf

\* What a finite set loses with one of its elements.
LEMMA OneLess ==
    ASSUME NEW S, IsFiniteSet(S), NEW s \in SUBSET S, s # {}
    PROVE  /\ AnyOf(s) \in s /\ AnyOf(s) \in S
           /\ s \ {AnyOf(s)} \in SUBSET S
           /\ Cardinality(s) \in Nat \ {0}
           /\ Cardinality(s \ {AnyOf(s)}) = Cardinality(s) - 1
           /\ Cardinality(s) <= Cardinality(S)
<1>1. AnyOf(s) \in s
  BY DEF AnyOf
<1>2. IsFiniteSet(s) /\ Cardinality(s) <= Cardinality(S)
  BY FS_Subset
<1>3. Cardinality(s) \in Nat /\ Cardinality(s) # 0
  BY <1>2, FS_CardinalityType, FS_EmptySet
<1>4. Cardinality(s \ {AnyOf(s)}) = Cardinality(s) - 1
  BY <1>1, <1>2, FS_RemoveElement
<1> QED
  BY <1>1, <1>2, <1>3, <1>4

\* g solves the recursion for the parts of S with at most n elements.
Level(g, f, S, n) ==
    \A s \in SUBSET S :
       Cardinality(s) <= n =>
          g[s] = IF s = {} THEN 0 ELSE f[AnyOf(s)] + g[s \ {AnyOf(s)}]

\* The recursion has a solution, built level by level.
LEMMA SumExists ==
    ASSUME NEW S, IsFiniteSet(S), NEW f, \A x \in S : f[x] \in Nat
    PROVE  \E g \in [SUBSET S -> Nat] : IsSum(g, f, S)
<1> DEFINE P(n) == \E g \in [SUBSET S -> Nat] : Level(g, f, S, n)
<1>1. P(0)
  <2> DEFINE g == [s \in SUBSET S |-> 0]
  <2>1. ASSUME NEW s \in SUBSET S, Cardinality(s) <= 0
        PROVE  s = {}
    <3>1. s # {} => Cardinality(s) \in Nat \ {0}
      BY OneLess
    <3> QED
      BY <2>1, <3>1
  <2>2. Level(g, f, S, 0)
    BY <2>1 DEF Level
  <2> QED
    BY <2>2
<1>2. ASSUME NEW n \in Nat, P(n) PROVE P(n + 1)
  <2>1. PICK g \in [SUBSET S -> Nat] : Level(g, f, S, n)
    BY <1>2
  <2> DEFINE h == [s \in SUBSET S |->
                     IF Cardinality(s) <= n \/ s = {} THEN g[s]
                     ELSE f[AnyOf(s)] + g[s \ {AnyOf(s)}]]
  <2>2. h \in [SUBSET S -> Nat]
    BY OneLess
  <2>3. ASSUME NEW s \in SUBSET S, Cardinality(s) <= n + 1
        PROVE  h[s] = IF s = {} THEN 0 ELSE f[AnyOf(s)] + h[s \ {AnyOf(s)}]
    <3>1. CASE s = {}
      <4>1. Cardinality(s) <= n
        BY <3>1, FS_EmptySet
      <4> QED
        BY <2>1, <3>1, <4>1 DEF Level
    <3>2. CASE s # {}
      <4>1. /\ s \ {AnyOf(s)} \in SUBSET S
            /\ Cardinality(s \ {AnyOf(s)}) <= n
        BY <2>3, <3>2, OneLess
      <4>2. h[s \ {AnyOf(s)}] = g[s \ {AnyOf(s)}]
        BY <4>1
      <4>3. h[s] = f[AnyOf(s)] + g[s \ {AnyOf(s)}]
        BY <2>1, <3>2 DEF Level
      <4> QED
        BY <3>2, <4>2, <4>3
    <3> QED
      BY <3>1, <3>2
  <2> HIDE DEF h
  <2>4. Level(h, f, S, n + 1)
    BY <2>3 DEF Level
  <2> QED
    BY <2>2, <2>4
<1>3. P(Cardinality(S))
  <2> DEFINE T == {n \in Nat : ~P(n)}
  <2>1. Cardinality(S) \in Nat
    BY FS_CardinalityType
  <2>2. SUFFICES ASSUME T # {} PROVE FALSE
    BY <2>1
  <2>3. PICK n \in T : \A m \in T : n <= m
    <3> HIDE DEF P
    <3> QED BY <2>2, LeastNumber
  <2>4. n # 0
    BY <1>1
  <2> HIDE DEF P
  <2>5. n - 1 \in Nat /\ P(n - 1)
    BY <2>3, <2>4
  <2>6. P((n - 1) + 1)
    BY <2>5, <1>2
  <2> QED
    BY <2>6, <2>3
<1>4. PICK g \in [SUBSET S -> Nat] : Level(g, f, S, Cardinality(S))
  BY <1>3
<1>5. \A s \in SUBSET S : Cardinality(s) <= Cardinality(S)
  BY FS_Subset
<1>6. g = [s \in SUBSET S |-> g[s]]
  OBVIOUS
<1>7. IsSum(g, f, S)
  BY <1>4, <1>5, <1>6 DEF Level, IsSum
<1> QED
  BY <1>7

\* g[s] is the sum of the naturals f[x] over x \in s, for every part s of the finite S.
Sums(g, f, S) ==
    /\ IsFiniteSet(S)
    /\ \A x \in S : f[x] \in Nat
    /\ g \in [SUBSET S -> Nat]
    /\ IsSum(g, f, S)

\* The sum takes its elements in any order.
LEMMA SumAnyOrder ==
    ASSUME NEW S, NEW f, NEW g, Sums(g, f, S)
    PROVE  \A s \in SUBSET S : \A x \in s : g[s] = f[x] + g[s \ {x}]
<1> USE DEF Sums
<1> DEFINE Swaps(s) == \A x \in s : g[s] = f[x] + g[s \ {x}]
           T == {n \in Nat : \E s \in SUBSET S : Cardinality(s) = n /\ ~Swaps(s)}
<1>1. \A s \in SUBSET S : Cardinality(s) \in Nat
  BY FS_Subset, FS_CardinalityType
<1>2. SUFFICES ASSUME T # {} PROVE FALSE
  BY <1>1
<1>3. PICK n \in T : \A m \in T : n <= m
  <2> HIDE DEF Swaps
  <2> QED BY <1>2, LeastNumber
<1>4. PICK s \in SUBSET S : Cardinality(s) = n /\ ~Swaps(s)
  BY <1>3
<1>5. PICK x \in s : g[s] # f[x] + g[s \ {x}]
  BY <1>4
<1> DEFINE y == AnyOf(s)
<1>6. y \in s /\ g[s] = f[y] + g[s \ {y}] /\ Cardinality(s \ {y}) = n - 1
  BY <1>4, <1>5, OneLess DEF IsSum
<1>7. x # y
  BY <1>5, <1>6
<1>8. Cardinality(s \ {x}) = n - 1
  BY <1>4, FS_Subset, FS_RemoveElement
<1>9. \A t \in SUBSET S : Cardinality(t) = n - 1 => Swaps(t)
  <2> HIDE DEF Swaps
  <2> QED BY <1>1, <1>3
<1>10. s \ {x} \in SUBSET S /\ s \ {y} \in SUBSET S /\ n \in Nat
  OBVIOUS
<1> HIDE DEF y
<1>11. g[s \ {y}] = f[x] + g[(s \ {y}) \ {x}]
  BY <1>6, <1>7, <1>9, <1>10
<1>12. g[s \ {x}] = f[y] + g[(s \ {x}) \ {y}]
  BY <1>6, <1>7, <1>8, <1>9, <1>10
<1>13. (s \ {y}) \ {x} = (s \ {x}) \ {y}
  OBVIOUS
<1>14. /\ f[x] \in Nat /\ f[y] \in Nat
       /\ g[(s \ {x}) \ {y}] \in Nat
  BY <1>6
<1>15. g[s] = f[y] + (f[x] + g[(s \ {x}) \ {y}])
  BY <1>6, <1>11, <1>13
<1>16. f[x] + g[s \ {x}] = f[x] + (f[y] + g[(s \ {x}) \ {y}])
  BY <1>12
<1> HIDE DEF T, Swaps
<1>17. f[y] + (f[x] + g[(s \ {x}) \ {y}]) = f[x] + (f[y] + g[(s \ {x}) \ {y}])
  BY <1>14
<1> QED
  BY <1>5, <1>15, <1>16, <1>17

\* Two sums agree where their functions do.
LEMMA SumsAgree ==
    ASSUME NEW S, NEW f, NEW g, Sums(g, f, S),
           NEW R, NEW e, NEW h, Sums(h, e, R)
    PROVE  \A s \in SUBSET S : s \subseteq R /\ (\A x \in s : f[x] = e[x]) => g[s] = h[s]
<1> DEFINE Same(s) == s \subseteq R /\ (\A x \in s : f[x] = e[x]) => g[s] = h[s]
           T == {n \in Nat : \E s \in SUBSET S : Cardinality(s) = n /\ ~Same(s)}
<1>1. \A s \in SUBSET S : Cardinality(s) \in Nat /\ IsFiniteSet(s)
  BY FS_Subset, FS_CardinalityType DEF Sums
<1>2. SUFFICES ASSUME T # {} PROVE FALSE
  BY <1>1
<1>3. PICK n \in T : \A m \in T : n <= m
  <2> HIDE DEF Same
  <2> QED BY <1>2, LeastNumber
<1>4. PICK s \in SUBSET S : Cardinality(s) = n /\ ~Same(s)
  BY <1>3
<1>5. s \subseteq R /\ (\A x \in s : f[x] = e[x]) /\ g[s] # h[s]
  BY <1>4
<1>6. s # {}
  BY <1>5 DEF Sums, IsSum
<1>7. PICK x \in s : TRUE
  BY <1>6
<1>8. g[s] = f[x] + g[s \ {x}] /\ h[s] = e[x] + h[s \ {x}]
  <2> HIDE DEF T, Same
  <2> QED BY <1>5, SumAnyOrder
<1>9. Cardinality(s \ {x}) = n - 1 /\ s \ {x} \in SUBSET S /\ n \in Nat
  BY <1>1, <1>4, FS_RemoveElement
<1>10. Same(s \ {x})
  <2> HIDE DEF Same
  <2> QED BY <1>1, <1>3, <1>9
<1> QED
  BY <1>5, <1>8, <1>10

\* The recursion has one solution.
LEMMA SumUnique ==
    ASSUME NEW S, IsFiniteSet(S), NEW f, NEW g, IsSum(g, f, S), NEW h, IsSum(h, f, S)
    PROVE  g = h
<1> DEFINE T == {n \in Nat : \E s \in SUBSET S : Cardinality(s) = n /\ g[s] # h[s]}
<1>1. \A s \in SUBSET S : Cardinality(s) \in Nat
  BY FS_Subset, FS_CardinalityType
<1>2. ASSUME T # {} PROVE FALSE
  <2>1. PICK n \in T : \A m \in T : n <= m
    BY <1>2, LeastNumber
  <2>2. PICK s \in SUBSET S : Cardinality(s) = n /\ g[s] # h[s]
    BY <2>1
  <2>3. s # {}
    BY <2>2 DEF IsSum
  <2> DEFINE t == s \ {AnyOf(s)}
  <2>4. g[s] = f[AnyOf(s)] + g[t] /\ h[s] = f[AnyOf(s)] + h[t]
    BY <2>3 DEF IsSum
  <2>5. t \in SUBSET S /\ Cardinality(t) = n - 1 /\ n - 1 \in Nat
    BY <2>2, <2>3, OneLess
  <2>6. g[t] = h[t]
    BY <2>1, <2>5
  <2> QED
    BY <2>2, <2>4, <2>6
<1>3. \A s \in SUBSET S : g[s] = h[s]
  BY <1>1, <1>2
<1>4. g = [s \in SUBSET S |-> g[s]] /\ h = [s \in SUBSET S |-> h[s]]
  BY DEF IsSum
<1> QED
  BY <1>3, <1>4

LEMMA SumIs ==
    ASSUME NEW S, IsFiniteSet(S), NEW f, \A x \in S : f[x] \in Nat
    PROVE  \E g : Sums(g, f, S) /\ SumFunctionOnSet(f, S) = g[S]
<1> DEFINE g == CHOOSE h : IsSum(h, f, S)
<1>1. PICK h \in [SUBSET S -> Nat] : IsSum(h, f, S)
  BY SumExists
<1>2. IsSum(g, f, S)
  BY <1>1
<1>3. SumFunctionOnSet(f, S) = g[S]
  BY SumDef
<1> HIDE DEF g
<1>4. g = h
  BY <1>1, <1>2, SumUnique
<1> QED
  BY <1>1, <1>3, <1>4 DEF Sums


-----------------------------------------------------------------------------
(***************************************************************************)
(* What the proofs about the components cite.                              *)
(***************************************************************************)

LEMMA SumOfNothing ==
    ASSUME NEW f
    PROVE  SumFunctionOnSet(f, {}) = 0
<1>1. PICK g : Sums(g, f, {}) /\ SumFunctionOnSet(f, {}) = g[{}]
  BY SumIs, FS_EmptySet
<1> QED
  BY <1>1 DEF Sums, IsSum

LEMMA SumOfEqual ==
    ASSUME NEW S, IsFiniteSet(S), NEW f, NEW e,
           \A x \in S : f[x] \in Nat /\ f[x] = e[x]
    PROVE  SumFunctionOnSet(f, S) = SumFunctionOnSet(e, S)
<1>1. \A x \in S : f[x] \in Nat /\ e[x] \in Nat
  OBVIOUS
<1>2. PICK g : Sums(g, f, S) /\ SumFunctionOnSet(f, S) = g[S]
  BY <1>1, SumIs
<1>3. PICK h : Sums(h, e, S) /\ SumFunctionOnSet(e, S) = h[S]
  BY <1>1, SumIs
<1>4. S \in SUBSET S /\ S \subseteq S
  OBVIOUS
<1> QED
  BY <1>2, <1>3, <1>4, SumsAgree

LEMMA SumWithOneMore ==
    ASSUME NEW S, IsFiniteSet(S), NEW x, x \notin S,
           NEW f, \A y \in S \cup {x} : f[y] \in Nat
    PROVE  /\ SumFunctionOnSet(f, S) \in Nat
           /\ SumFunctionOnSet(f, S \cup {x}) = f[x] + SumFunctionOnSet(f, S)
<1> DEFINE R == S \cup {x}
<1>1. IsFiniteSet(R)
  BY FS_AddElement
<1>2. PICK g : Sums(g, f, R) /\ SumFunctionOnSet(f, R) = g[R]
  BY <1>1, SumIs
<1>3. PICK h : Sums(h, f, S) /\ SumFunctionOnSet(f, S) = h[S]
  BY SumIs
<1>4. /\ R \in SUBSET R /\ S \in SUBSET S /\ x \in R
      /\ R \ {x} = S /\ S \subseteq R
  OBVIOUS
<1> HIDE DEF R
<1>5. g[R] = f[x] + g[R \ {x}]
  BY <1>2, <1>4, SumAnyOrder
<1>6. h[S] = g[S]
  BY <1>2, <1>3, <1>4, SumsAgree
<1>7. h[S] \in Nat
  BY <1>3, <1>4 DEF Sums
<1> QED
  BY <1>2, <1>3, <1>4, <1>5, <1>6, <1>7 DEF R
=============================================================================
