---------------------------- MODULE SumTheorems ----------------------------
(***************************************************************************)
(* What a sum over a finite set is: SumFunctionOnSet of the community      *)
(* modules, for every function and every finite set.                       *)
(*                                                                         *)
(* The sum is defined by recursion on the subsets of the set, so that each *)
(* fact about it is an induction.  It is done by way of a least            *)
(* counterexample, which LeastSubset provides: of subsets of a finite set, *)
(* some one contains no other.                                             *)
(***************************************************************************)
EXTENDS Integers, FiniteSets, Functions, FiniteSetTheorems,
        WellFoundedInduction, TLAPS

\* The element that the sum takes first.
Pick(S) == CHOOSE x \in S : TRUE

\* g gives the sums of f over the subsets of S.
Sums(f, g, S) ==
  g = [T \in SUBSET S |-> IF T = {} THEN 0 ELSE f[Pick(T)] + g[T \ {Pick(T)}]]

-----------------------------------------------------------------------------
(* The definition makes sense.                                             *)

\* Of subsets of a finite set, some one contains no other.
LEMMA LeastSubset ==
  ASSUME NEW S, IsFiniteSet(S), NEW B \in SUBSET (SUBSET S), B # {}
  PROVE  \E T \in B : \A U \in B : U \subseteq T => U = T
<1>1. IsWellFoundedOn(StrictSubsetOrdering(S), SUBSET S)
  BY FS_StrictSubsetOrderingWellFounded, FS_FiniteSubsetsOfFinite
<1>2. PICK T \in B : \A U \in B : <<U, T>> \notin StrictSubsetOrdering(S)
  BY <1>1, WFMin
<1>3. ASSUME NEW U \in B, U \subseteq T, U # T
      PROVE  FALSE
  BY <1>2, <1>3 DEF StrictSubsetOrdering
<1>4. QED
  BY <1>3

\* The element taken is in the set, and what is left is smaller.
LEMMA PickTaken ==
  ASSUME NEW T, T # {}
  PROVE  /\ Pick(T) \in T
         /\ T \ {Pick(T)} \subseteq T /\ T \ {Pick(T)} # T
<1>1. Pick(T) \in T
  BY DEF Pick
<1>2. QED
  BY <1>1

\* The sum of one step.
LEMMA SumsStep ==
  ASSUME NEW f, NEW g, NEW S, Sums(f, g, S), NEW T \in SUBSET S
  PROVE  g[T] = IF T = {} THEN 0 ELSE f[Pick(T)] + g[T \ {Pick(T)}]
<1>1. g = [U \in SUBSET S |-> IF U = {} THEN 0 ELSE f[Pick(U)] + g[U \ {Pick(U)}]]
  BY DEF Sums
<1>2. QED
  BY <1>1, Zenon

\* The sum over a set is the same whichever larger set it is computed in, and
\* depends on the function only there.
LEMMA SumsAgree ==
  ASSUME NEW S, NEW R, NEW f, NEW e, NEW g, NEW h,
         Sums(f, g, S), Sums(e, h, R),
         NEW Q, IsFiniteSet(Q), Q \subseteq S, Q \subseteq R,
         \A x \in Q : f[x] = e[x]
  PROVE  g[Q] = h[Q]
<1> DEFINE B == {T \in SUBSET Q : g[T] # h[T]}
<1>0. B \in SUBSET (SUBSET Q)
  OBVIOUS
<1>1. SUFFICES ASSUME B # {} PROVE FALSE
  OBVIOUS
<1> HIDE DEF B
<1>2. PICK T \in B : \A U \in B : U \subseteq T => U = T
  BY <1>0, <1>1, LeastSubset
<1> USE DEF B
<1>3. T \in SUBSET Q /\ T \in SUBSET S /\ T \in SUBSET R /\ g[T] # h[T]
  OBVIOUS
<1>4. T # {}
  BY <1>3, SumsStep
<1> DEFINE x == Pick(T)
           U == T \ {x}
<1>5. x \in T /\ U \subseteq T /\ U # T
  BY <1>4, PickTaken
<1>6. g[U] = h[U]
  BY <1>2, <1>3, <1>5
<1>7. f[x] = e[x]
  BY <1>3, <1>5
<1>8. g[T] = f[x] + g[U] /\ h[T] = e[x] + h[U]
  BY <1>3, <1>4, SumsStep
<1>9. QED
  BY <1>3, <1>6, <1>7, <1>8

\* A finite set has sums.  A least one that has none would get them from its
\* smaller sets.
LEMMA SumsExist ==
  ASSUME NEW S, IsFiniteSet(S), NEW f
  PROVE  \E g : Sums(f, g, S)
<1> DEFINE B == {T \in SUBSET S : ~ \E g : Sums(f, g, T)}
<1>0. B \in SUBSET (SUBSET S)
  OBVIOUS
<1>1. SUFFICES ASSUME B # {} PROVE FALSE
  OBVIOUS
<1> HIDE DEF B
<1>2. PICK T \in B : \A U \in B : U \subseteq T => U = T
  BY <1>0, <1>1, LeastSubset
<1> USE DEF B
<1>3. T \in SUBSET S /\ ~ \E g : Sums(f, g, T)
  OBVIOUS
<1> DEFINE h(U) == CHOOSE g : Sums(f, g, U)
           w(U) == U \ {Pick(U)}
           g == [U \in SUBSET T |-> IF U = {} THEN 0 ELSE f[Pick(U)] + h(w(U))[w(U)]]
<1>4. ASSUME NEW U \in SUBSET T, U # T
      PROVE  Sums(f, h(U), U) /\ IsFiniteSet(U)
  <2>1. U \in SUBSET S /\ U \notin B
    BY <1>2, <1>3, <1>4
  <2>2. \E k : Sums(f, k, U)
    BY <2>1
  <2>3. IsFiniteSet(U)
    BY <2>1, FS_Subset
  <2>4. QED
    BY <2>2, <2>3
<1>5. ASSUME NEW U \in SUBSET T, U # {}
      PROVE  g[w(U)] = h(w(U))[w(U)]
  <2> DEFINE V == w(U)
  <2>1. V \in SUBSET T /\ V # T
    BY <1>5, PickTaken
  <2>2. Sums(f, h(V), V) /\ IsFiniteSet(V)
    BY <1>4, <2>1
  <2>3. g[V] = IF V = {} THEN 0 ELSE f[Pick(V)] + h(w(V))[w(V)]
    BY <2>1
  <2>4. h(V)[V] = IF V = {} THEN 0 ELSE f[Pick(V)] + h(V)[w(V)]
    <3> HIDE DEF h, V
    <3>1. V \in SUBSET V
      OBVIOUS
    <3>2. QED
      BY ONLY <2>2, <3>1, SumsStep
  <2>5. CASE V = {}
    BY <2>3, <2>4, <2>5
  <2>6. CASE V # {}
    <3>1. w(V) \in SUBSET T /\ w(V) # T /\ w(V) \subseteq V
      BY <2>1, <2>6, PickTaken
    <3>2. Sums(f, h(w(V)), w(V)) /\ IsFiniteSet(w(V))
      BY <1>4, <3>1
    <3> HIDE DEF h, w
    <3>3. h(V)[w(V)] = h(w(V))[w(V)]
      BY <2>2, <3>1, <3>2, SumsAgree, w(V) \subseteq w(V)
    <3>4. QED
      BY <2>3, <2>4, <2>6, <3>3
  <2>7. QED
    BY <2>5, <2>6
<1>6. Sums(f, g, T)
  <2> HIDE DEF h
  <2>1. \A U \in SUBSET T : U # {} => h(w(U))[w(U)] = g[w(U)]
    BY <1>5
  <2>2. g = [U \in SUBSET T |-> IF U = {} THEN 0 ELSE f[Pick(U)] + g[w(U)]]
    BY <2>1
  <2>3. QED
    BY <2>2 DEF Sums
<1>7. QED
  BY <1>3, <1>6

\* SumFunctionOnSet is such a sum.
LEMMA SumIs ==
  ASSUME NEW f, NEW S, IsFiniteSet(S)
  PROVE  \E g : Sums(f, g, S) /\ SumFunctionOnSet(f, S) = g[S]
<1>1. SumFunctionOnSet(f, S) = (CHOOSE g : Sums(f, g, S))[S]
  BY DEF SumFunctionOnSet, FoldFunctionOnSet, MapThenFoldSet, Sums, Pick
<1>2. Sums(f, CHOOSE g : Sums(f, g, S), S)
  BY SumsExist
<1>3. QED
  BY <1>1, <1>2

-----------------------------------------------------------------------------
(* The facts a proof about sums cites.                                     *)

\* The sum over no elements.
LEMMA SumEmpty ==
  ASSUME NEW f
  PROVE  SumFunctionOnSet(f, {}) = 0
BY SumIs, SumsStep, FS_EmptySet, {} \in SUBSET {}

\* The sum depends on the function only where it is summed.
LEMMA SumCongruence ==
  ASSUME NEW S, IsFiniteSet(S), NEW f, NEW e, \A x \in S : f[x] = e[x]
  PROVE  SumFunctionOnSet(f, S) = SumFunctionOnSet(e, S)
<1>1. PICK g : Sums(f, g, S) /\ SumFunctionOnSet(f, S) = g[S]
  BY SumIs
<1>2. PICK h : Sums(e, h, S) /\ SumFunctionOnSet(e, S) = h[S]
  BY SumIs
<1>3. QED
  BY <1>1, <1>2, SumsAgree

\* The first element taken apart.
LEMMA SumPick ==
  ASSUME NEW S, IsFiniteSet(S), S # {}, NEW f
  PROVE  SumFunctionOnSet(f, S) = f[Pick(S)] + SumFunctionOnSet(f, S \ {Pick(S)})
<1> DEFINE R == S \ {Pick(S)}
<1>1. IsFiniteSet(R) /\ R \subseteq S
  BY FS_Subset
<1>2. PICK g : Sums(f, g, S) /\ SumFunctionOnSet(f, S) = g[S]
  BY SumIs
<1>3. PICK h : Sums(f, h, R) /\ SumFunctionOnSet(f, R) = h[R]
  BY <1>1, SumIs
<1>4. g[R] = h[R]
  BY <1>1, <1>2, <1>3, SumsAgree
<1>5. g[S] = f[Pick(S)] + g[R]
  BY <1>2, SumsStep, S \in SUBSET S
<1>6. QED
  BY <1>2, <1>3, <1>4, <1>5

\* A sum of integers is an integer, and of naturals a natural.
LEMMA SumType ==
  ASSUME NEW S, IsFiniteSet(S), NEW N \in {Nat, Int}, NEW f, \A x \in S : f[x] \in N
  PROVE  SumFunctionOnSet(f, S) \in N
<1> DEFINE B == {T \in SUBSET S : SumFunctionOnSet(f, T) \notin N}
<1>0. B \in SUBSET (SUBSET S)
  OBVIOUS
<1>1. SUFFICES ASSUME B # {} PROVE FALSE
  OBVIOUS
<1> HIDE DEF B
<1>2. PICK T \in B : \A U \in B : U \subseteq T => U = T
  BY <1>0, <1>1, LeastSubset
<1> USE DEF B
<1>3. T \in SUBSET S /\ SumFunctionOnSet(f, T) \notin N /\ IsFiniteSet(T)
  BY FS_Subset
<1>4. T # {}
  BY <1>3, SumEmpty
<1> DEFINE U == T \ {Pick(T)}
<1>5. U \subseteq T /\ U # T /\ Pick(T) \in T
  BY <1>4, PickTaken
<1>6. SumFunctionOnSet(f, U) \in N /\ f[Pick(T)] \in N
  BY <1>2, <1>3, <1>5
<1>7. SumFunctionOnSet(f, T) = f[Pick(T)] + SumFunctionOnSet(f, U)
  BY <1>3, <1>4, SumPick
<1>8. \A a, b \in N : a + b \in N
  OBVIOUS
<1>9. QED
  BY <1>3, <1>6, <1>7, <1>8

\* Any element may be taken apart: the order does not matter.
LEMMA SumRemove ==
  ASSUME NEW S, IsFiniteSet(S), NEW f, \A x \in S : f[x] \in Int, NEW a \in S
  PROVE  SumFunctionOnSet(f, S) = f[a] + SumFunctionOnSet(f, S \ {a})
<1> DEFINE sum(T) == SumFunctionOnSet(f, T)
           B == {T \in SUBSET S : \E x \in T : sum(T) # f[x] + sum(T \ {x})}
<1>0. B \in SUBSET (SUBSET S)
  OBVIOUS
<1>1. SUFFICES ASSUME B # {} PROVE FALSE
  OBVIOUS
<1> HIDE DEF B
<1>2. PICK T \in B : \A U \in B : U \subseteq T => U = T
  BY <1>0, <1>1, LeastSubset
<1> USE DEF B
<1>3. PICK x \in T : sum(T) # f[x] + sum(T \ {x})
  OBVIOUS
<1> DEFINE p == Pick(T)
<1>4. T \in SUBSET S /\ IsFiniteSet(T) /\ T # {}
  BY FS_Subset
<1>5. p \in T /\ sum(T) = f[p] + sum(T \ {p})
  BY <1>4, SumPick, PickTaken
<1>6. p # x
  BY <1>3, <1>5
<1>7. sum(T \ {p}) = f[x] + sum((T \ {p}) \ {x})
  BY <1>2, <1>4, <1>5, <1>6
<1>8. sum(T \ {x}) = f[p] + sum((T \ {x}) \ {p})
  BY <1>2, <1>4, <1>5, <1>6
<1>9. (T \ {p}) \ {x} = (T \ {x}) \ {p}
  OBVIOUS
<1>10. /\ f[x] \in Int /\ f[p] \in Int
       /\ sum((T \ {x}) \ {p}) \in Int
  <2>1. IsFiniteSet((T \ {x}) \ {p}) /\ (T \ {x}) \ {p} \subseteq S
    BY <1>4, FS_Subset
  <2>2. QED
    BY <1>4, <1>5, <2>1, SumType
<1> DEFINE r == sum((T \ {x}) \ {p})
           u == sum(T \ {x})
           v == sum(T \ {p})
<1>11. /\ sum(T) # f[x] + u /\ sum(T) = f[p] + v
       /\ v = f[x] + r /\ u = f[p] + r
       /\ f[x] \in Int /\ f[p] \in Int /\ r \in Int
  BY <1>3, <1>5, <1>7, <1>8, <1>9, <1>10, Zenon
<1> HIDE DEF sum, p, B, r, u, v
<1>12. QED
  BY ONLY <1>11

\* An element more adds its value.
THEOREM SumAdd ==
  ASSUME NEW S, IsFiniteSet(S), NEW a, a \notin S, NEW f,
         \A x \in S \cup {a} : f[x] \in Int
  PROVE  SumFunctionOnSet(f, S \cup {a}) = f[a] + SumFunctionOnSet(f, S)
<1>1. IsFiniteSet(S \cup {a}) /\ (S \cup {a}) \ {a} = S
  BY FS_AddElement
<1>2. QED
  BY <1>1, SumRemove, a \in S \cup {a}
=============================================================================
