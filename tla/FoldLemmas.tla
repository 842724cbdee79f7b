----------------------------- MODULE FoldLemmas -----------------------------
(***************************************************************************)
(* Induction, folds and sums, in the form the proofs of the components     *)
(* use them: over sets, not over predicates.                               *)
(*                                                                         *)
(* Strict inclusion is well-founded on the subsets of a finite set, so a   *)
(* set of such subsets has a smallest one.  All inductions are made from   *)
(* this: the smallest counterexample is no counterexample.                 *)
(***************************************************************************)
EXTENDS Integers, Sequences, FiniteSets, Functions, FiniteSetTheorems,
        WellFoundedInduction, TLAPS

\* A nonempty set of subsets of a finite set has a smallest one.
LEMMA SmallestSet ==
    ASSUME NEW S, IsFiniteSet(S), NEW B \in SUBSET (SUBSET S), B # {}
    PROVE  \E T \in B : \A U \in SUBSET T : U # T => U \notin B
<1>1. IsWellFoundedOn(StrictSubsetOrdering(S), SUBSET S)
  BY FS_StrictSubsetOrderingWellFounded, FS_FiniteSubsetsOfFinite
<1>2. PICK T \in B : \A U \in B : <<U, T>> \notin StrictSubsetOrdering(S)
  <2> DEFINE R == StrictSubsetOrdering(S)
             A == SUBSET S
  <2>1. IsWellFoundedOn(R, A) /\ B \subseteq A /\ B # {}
    BY <1>1
  <2> HIDE DEF R, A
  <2>2. \E T \in B : \A U \in B : ~ (<<U, T>> \in R)
    BY <2>1, WFMin
  <2> QED BY <2>2 DEF R
<1>3. ASSUME NEW U \in SUBSET T, U # T, U \in B PROVE FALSE
  <2>1. U \in SUBSET S /\ T \in SUBSET S
    BY <1>3
  <2>2. <<U, T>> \in StrictSubsetOrdering(S)
    BY <1>3, <2>1 DEF StrictSubsetOrdering
  <2> QED BY <1>2, <1>3, <2>2
<1> QED BY <1>3

\* A nonempty set of numbers has a least one.
LEMMA LeastNumber ==
    ASSUME NEW N \in SUBSET Nat, N # {}
    PROVE  \E m \in N : \A n \in N : m <= n
<1> PICK k \in N : TRUE
  OBVIOUS
<1> DEFINE B == {1 .. n : n \in {n \in N : n <= k}}
<1>1. IsFiniteSet(1 .. k)
  BY FS_Interval
<1>2. B \in SUBSET (SUBSET (1 .. k)) /\ B # {}
  <2>1. ASSUME NEW n \in N, n <= k PROVE 1 .. n \in SUBSET (1 .. k)
    BY <2>1
  <2>2. 1 .. k \in B
    OBVIOUS
  <2> QED BY <2>1, <2>2
<1>3. PICK T \in B : \A U \in SUBSET T : U # T => U \notin B
  <2> HIDE DEF B
  <2> QED BY <1>1, <1>2, SmallestSet
<1>4. PICK m \in N : m <= k /\ T = 1 .. m
  OBVIOUS
<1>5. ASSUME NEW n \in N, n < m PROVE FALSE
  <2>1. 1 .. n \in SUBSET (1 .. m) /\ m \in 1 .. m /\ m \notin 1 .. n
    BY <1>5
  <2>2. 1 .. n \in B
    BY <1>4, <1>5
  <2> QED BY <1>3, <1>4, <2>1, <2>2
<1> QED BY <1>5

\* Induction on numbers.
LEMMA Induction ==
    ASSUME NEW S, 0 \in S, \A n \in Nat : n \in S => n + 1 \in S
    PROVE  Nat \subseteq S
<1> SUFFICES ASSUME Nat \ S # {} PROVE FALSE
  OBVIOUS
<1>1. PICK m \in Nat \ S : \A n \in Nat \ S : m <= n
  BY LeastNumber
<1>2. m - 1 \in Nat /\ m - 1 \in S
  BY <1>1
<1> QED BY <1>1, <1>2

-----------------------------------------------------------------------------
(* Folds.                                                                  *)

\* A fold takes one element of a set after the other: pick says which, step what
\* becomes of the value.
Foldable(S, V, base, pick, step) ==
    /\ base \in V
    /\ \A T \in SUBSET S : T # {} => pick[T] \in T
    /\ \A T \in SUBSET S : \A v \in V : T # {} => step[T][v] \in V

FoldOn(g, A, base, pick, step) ==
    \A T \in A : g[T] = IF T = {} THEN base ELSE step[T][g[T \ {pick[T]}]]

\* A fold over the subsets of a finite set is a function.
LEMMA FoldExists ==
    ASSUME NEW S, IsFiniteSet(S), NEW V, NEW base, NEW pick, NEW step,
           Foldable(S, V, base, pick, step)
    PROVE  \E g \in [SUBSET S -> V] : FoldOn(g, SUBSET S, base, pick, step)
<1> USE DEF Foldable, FoldOn
<1> DEFINE Small(k) == {T \in SUBSET S : Cardinality(T) <= k}
           Folds(g, A) == FoldOn(g, A, base, pick, step)
           K == {k \in Nat : \E g \in [Small(k) -> V] : Folds(g, Small(k))}
<1>1. ASSUME NEW T \in SUBSET S
      PROVE  /\ IsFiniteSet(T) /\ Cardinality(T) \in Nat
             /\ Cardinality(T) <= Cardinality(S)
             /\ Cardinality(T) = 0 <=> T = {}
             /\ T # {} => Cardinality(T \ {pick[T]}) = Cardinality(T) - 1
  BY FS_Subset, FS_CardinalityType, FS_EmptySet, FS_RemoveElement
<1>2. 0 \in K
  <2>1. ASSUME NEW T \in Small(0) PROVE T = {}
    <3>1. T \in SUBSET S /\ Cardinality(T) <= 0
      OBVIOUS
    <3>2. Cardinality(T) \in Nat
      BY <1>1, <3>1
    <3>3. Cardinality(T) = 0
      BY <3>1, <3>2
    <3> QED BY <1>1, <3>1, <3>3
  <2> DEFINE g == [T \in Small(0) |-> base]
  <2>2. g \in [Small(0) -> V] /\ Folds(g, Small(0))
    BY <2>1
  <2> QED BY <2>2
<1>3. ASSUME NEW k \in Nat, k \in K PROVE k + 1 \in K
  <2>1. PICK g \in [Small(k) -> V] : Folds(g, Small(k))
    BY <1>3
  <2> DEFINE h == [T \in Small(k + 1) |-> IF T = {} THEN base ELSE step[T][g[T \ {pick[T]}]]]
  <2>2. ASSUME NEW T \in Small(k + 1), T # {}
        PROVE  T \ {pick[T]} \in Small(k) /\ T \ {pick[T]} \in Small(k + 1)
    <3>1. T \in SUBSET S /\ Cardinality(T) <= k + 1 /\ Cardinality(T) \in Nat
          /\ Cardinality(T \ {pick[T]}) = Cardinality(T) - 1
      BY <1>1, <2>2
    <3>2. T \ {pick[T]} \in SUBSET S
      BY <3>1
    <3> QED BY <3>1, <3>2
  <2>3. h \in [Small(k + 1) -> V]
    BY <2>2
  <2>4. ASSUME NEW T \in Small(k), T \in Small(k + 1) PROVE h[T] = g[T]
    BY <2>1, <2>4
  <2>5. Folds(h, Small(k + 1))
    BY <2>2, <2>4
  <2>6. \E f \in [Small(k + 1) -> V] : Folds(f, Small(k + 1))
    <3> HIDE DEF h, Folds, Small
    <3> QED BY <2>3, <2>5
  <2> HIDE DEF Folds, Small
  <2> QED BY <2>6
<1>4. Cardinality(S) \in K
  <2> HIDE DEF K
  <2>1. Nat \subseteq K
    BY <1>2, <1>3, Induction
  <2> QED BY <1>1, <2>1
<1>5. Small(Cardinality(S)) = SUBSET S
  BY <1>1
<1>6. PICK g \in [SUBSET S -> V] : Folds(g, SUBSET S)
  <2>1. PICK g \in [Small(Cardinality(S)) -> V] : Folds(g, Small(Cardinality(S)))
    BY <1>4
  <2> QED BY <1>5, <2>1
<1> QED BY <1>6

-----------------------------------------------------------------------------
(* Sums, the folds of the community module Functions.                      *)

Some(T) == CHOOSE x \in T : TRUE
Sums(g, f, S) ==
    g = [T \in SUBSET S |-> IF T = {} THEN 0 ELSE f[Some(T)] + g[T \ {Some(T)}]]

LEMMA SumIsFold ==
    ASSUME NEW f, NEW S
    PROVE  SumFunctionOnSet(f, S) = (CHOOSE g : Sums(g, f, S))[S]
BY Zenon DEF Sums, Some, SumFunctionOnSet, FoldFunctionOnSet, MapThenFoldSet

LEMMA SumsExist ==
    ASSUME NEW S, IsFiniteSet(S), NEW f, \A x \in S : f[x] \in Nat
    PROVE  /\ Sums(CHOOSE g : Sums(g, f, S), f, S)
           /\ SumFunctionOnSet(f, S) \in Nat
<1> DEFINE pick == [T \in SUBSET S |-> Some(T)]
           step == [T \in SUBSET S |-> [v \in Nat |-> f[Some(T)] + v]]
<1>1. ASSUME NEW T \in SUBSET S, T # {} PROVE Some(T) \in T /\ pick[T] \in T
  BY <1>1 DEF Some
<1>2. ASSUME NEW T \in SUBSET S, NEW v \in Nat, T # {} PROVE step[T][v] \in Nat
  <2>1. Some(T) \in S /\ f[Some(T)] \in Nat
    BY <1>1, <1>2
  <2>2. step[T][v] = f[Some(T)] + v
    OBVIOUS
  <2> QED BY <2>1, <2>2
<1>3. PICK g \in [SUBSET S -> Nat] : FoldOn(g, SUBSET S, 0, pick, step)
  <2>1. Foldable(S, Nat, 0, pick, step)
    BY <1>1, <1>2 DEF Foldable
  <2> HIDE DEF pick, step
  <2> QED BY <2>1, FoldExists
<1>4. Sums(g, f, S)
  <2>1. ASSUME NEW T \in SUBSET S, T # {}
        PROVE  g[T] = f[Some(T)] + g[T \ {Some(T)}]
    <3>1. T \ {Some(T)} \in SUBSET S /\ pick[T] = Some(T)
      OBVIOUS
    <3>2. g[T \ {Some(T)}] \in Nat
      BY <3>1
    <3>3. g[T] = step[T][g[T \ {Some(T)}]]
      BY <1>3, <2>1, <3>1 DEF FoldOn
    <3> QED BY <3>2, <3>3
  <2>2. ASSUME NEW T \in SUBSET S, T = {} PROVE g[T] = 0
    BY <1>3, <2>2 DEF FoldOn
  <2> HIDE DEF pick, step
  <2> QED BY <2>1, <2>2 DEF Sums
<1> DEFINE c == CHOOSE h : Sums(h, f, S)
<1>5. Sums(c, f, S)
  BY <1>4
<1>6. ASSUME NEW T \in SUBSET S PROVE c[T] \in Nat
  <2> DEFINE B == {U \in SUBSET S : c[U] \notin Nat}
  <2> SUFFICES ASSUME B # {} PROVE FALSE
    OBVIOUS
  <2>1. PICK U \in B : \A W \in SUBSET U : W # U => W \notin B
    <3>1. B \in SUBSET (SUBSET S)
      OBVIOUS
    <3> HIDE DEF B
    <3> QED BY <3>1, SmallestSet
  <2>2. U \in SUBSET S /\ c[U] \notin Nat
    OBVIOUS
  <2>3. c[U] = IF U = {} THEN 0 ELSE f[Some(U)] + c[U \ {Some(U)}]
    <3> HIDE DEF c
    <3> QED BY <1>5, <2>2 DEF Sums
  <2>4. U # {}
    BY <2>2, <2>3
  <2>5. Some(U) \in U /\ U \ {Some(U)} \in SUBSET U /\ U \ {Some(U)} # U
    BY <1>1, <2>2, <2>4
  <2>6. c[U \ {Some(U)}] \in Nat /\ f[Some(U)] \in Nat
    BY <2>1, <2>2, <2>5
  <2> HIDE DEF c
  <2> QED BY <2>2, <2>3, <2>4, <2>6
<1>7. S \in SUBSET S
  OBVIOUS
<1>8. SumFunctionOnSet(f, S) = c[S]
  BY SumIsFold
<1> QED BY <1>5, <1>6, <1>7, <1>8

\* The sum over a set is the chosen element and the sum over the others.
LEMMA SumStep ==
    ASSUME NEW S, IsFiniteSet(S), NEW f, \A x \in S : f[x] \in Nat
    PROVE  SumFunctionOnSet(f, S) =
               IF S = {} THEN 0
               ELSE f[Some(S)] + SumFunctionOnSet(f, S \ {Some(S)})
<1> DEFINE R == S \ {Some(S)}
           g == CHOOSE h : Sums(h, f, S)
           h == CHOOSE h : Sums(h, f, R)
<1>1. IsFiniteSet(R) /\ R \in SUBSET S
  BY FS_Subset
<1>2. Sums(g, f, S) /\ Sums(h, f, R)
  BY <1>1, SumsExist
<1>3. g[R] = h[R]
  <2> DEFINE B == {T \in SUBSET R : g[T] # h[T]}
  <2> SUFFICES ASSUME B # {} PROVE FALSE
    OBVIOUS
  <2>1. PICK T \in B : \A U \in SUBSET T : U # T => U \notin B
    <3>1. B \in SUBSET (SUBSET R)
      OBVIOUS
    <3> HIDE DEF B, R
    <3> QED BY <1>1, <3>1, SmallestSet
  <2>2. T \in SUBSET R /\ T \in SUBSET S /\ g[T] # h[T]
    BY <1>1
  <2>3. /\ g[T] = IF T = {} THEN 0 ELSE f[Some(T)] + g[T \ {Some(T)}]
        /\ h[T] = IF T = {} THEN 0 ELSE f[Some(T)] + h[T \ {Some(T)}]
    <3> HIDE DEF g, h, R
    <3> QED BY <1>2, <2>2 DEF Sums
  <2>4. T # {}
    BY <2>2, <2>3
  <2>5. Some(T) \in T /\ T \ {Some(T)} \in SUBSET T /\ T \ {Some(T)} # T
    BY <2>4 DEF Some
  <2>6. g[T \ {Some(T)}] = h[T \ {Some(T)}]
    BY <2>1, <2>2, <2>5
  <2> QED BY <2>2, <2>3, <2>6
<1>4. SumFunctionOnSet(f, S) = g[S] /\ SumFunctionOnSet(f, R) = h[R]
  BY SumIsFold
<1>5. g[S] = IF S = {} THEN 0 ELSE f[Some(S)] + g[R]
  <2>1. S \in SUBSET S
    OBVIOUS
  <2> HIDE DEF g
  <2> QED BY <1>2, <2>1 DEF Sums
<1> QED BY <1>3, <1>4, <1>5

\* Any element may be taken from the sum first.
LEMMA SumRemove ==
    ASSUME NEW S, IsFiniteSet(S), NEW f, \A x \in S : f[x] \in Nat, NEW e \in S
    PROVE  SumFunctionOnSet(f, S) = f[e] + SumFunctionOnSet(f, S \ {e})
<1> DEFINE B == {T \in SUBSET S : \E x \in T :
                    SumFunctionOnSet(f, T) # f[x] + SumFunctionOnSet(f, T \ {x})}
<1> SUFFICES ASSUME B # {} PROVE FALSE
  OBVIOUS
<1>1. PICK T \in B : \A U \in SUBSET T : U # T => U \notin B
  <2>1. B \in SUBSET (SUBSET S)
    OBVIOUS
  <2> HIDE DEF B
  <2> QED BY <2>1, SmallestSet
<1>2. T \in SUBSET S
  OBVIOUS
<1>3. PICK x \in T : SumFunctionOnSet(f, T) # f[x] + SumFunctionOnSet(f, T \ {x})
  OBVIOUS
<1> DEFINE y == Some(T)
<1>4. y \in T
  BY <1>3 DEF Some
<1>5. ASSUME NEW U \in SUBSET T
      PROVE  /\ IsFiniteSet(U) /\ SumFunctionOnSet(f, U) \in Nat
             /\ \A u \in U : f[u] \in Nat
  <2>1. U \in SUBSET S
    BY <1>2
  <2>2. IsFiniteSet(U) /\ \A u \in U : f[u] \in Nat
    BY <2>1, FS_Subset
  <2> QED BY <2>2, SumsExist
<1>6. SumFunctionOnSet(f, T) = f[y] + SumFunctionOnSet(f, T \ {y})
  <2>1. T \in SUBSET T
    OBVIOUS
  <2> QED BY <1>4, <1>5, <2>1, SumStep
<1>7. x # y
  BY <1>3, <1>6
<1>8. SumFunctionOnSet(f, T \ {y}) = f[x] + SumFunctionOnSet(f, (T \ {y}) \ {x})
  <2>1. T \ {y} \in SUBSET T /\ T \ {y} # T /\ x \in T \ {y} /\ T \ {y} \in SUBSET S
    BY <1>2, <1>4, <1>7
  <2> QED BY <1>1, <2>1
<1>9. SumFunctionOnSet(f, T \ {x}) = f[y] + SumFunctionOnSet(f, (T \ {x}) \ {y})
  <2>1. T \ {x} \in SUBSET T /\ T \ {x} # T /\ y \in T \ {x} /\ T \ {x} \in SUBSET S
    BY <1>2, <1>4, <1>7
  <2> QED BY <1>1, <2>1
<1>10. (T \ {x}) \ {y} = (T \ {y}) \ {x} /\ (T \ {y}) \ {x} \in SUBSET T
  OBVIOUS
<1>11. SumFunctionOnSet(f, (T \ {y}) \ {x}) \in Nat /\ f[x] \in Nat /\ f[y] \in Nat
  BY <1>2, <1>4, <1>5, <1>10
<1> HIDE DEF y
<1> QED BY <1>3, <1>6, <1>8, <1>9, <1>10, <1>11

\* Equal summands give equal sums.
LEMMA SumSame ==
    ASSUME NEW S, IsFiniteSet(S), NEW f, NEW h, \A x \in S : f[x] \in Nat /\ h[x] = f[x]
    PROVE  SumFunctionOnSet(f, S) = SumFunctionOnSet(h, S)
<1> DEFINE B == {T \in SUBSET S : SumFunctionOnSet(f, T) # SumFunctionOnSet(h, T)}
<1> SUFFICES ASSUME B # {} PROVE FALSE
  OBVIOUS
<1>1. PICK T \in B : \A U \in SUBSET T : U # T => U \notin B
  <2>1. B \in SUBSET (SUBSET S)
    OBVIOUS
  <2> HIDE DEF B
  <2> QED BY <2>1, SmallestSet
<1>2. T \in SUBSET S /\ SumFunctionOnSet(f, T) # SumFunctionOnSet(h, T)
  OBVIOUS
<1>3. IsFiniteSet(T) /\ \A x \in T : f[x] \in Nat /\ h[x] \in Nat /\ h[x] = f[x]
  BY <1>2, FS_Subset
<1> DEFINE y == Some(T)
<1>4. CASE T = {}
  BY <1>2, <1>3, <1>4, SumStep
<1>5. CASE T # {}
  <2>1. y \in T
    BY <1>5 DEF Some
  <2>2. SumFunctionOnSet(f, T \ {y}) = SumFunctionOnSet(h, T \ {y})
    <3>1. T \ {y} \in SUBSET T /\ T \ {y} # T /\ T \ {y} \in SUBSET S
      BY <1>2, <2>1
    <3> QED BY <1>1, <3>1
  <2>3. /\ SumFunctionOnSet(f, T) = f[y] + SumFunctionOnSet(f, T \ {y})
        /\ SumFunctionOnSet(h, T) = h[y] + SumFunctionOnSet(h, T \ {y})
    BY <1>3, <2>1, SumRemove
  <2> QED BY <1>2, <1>3, <2>1, <2>2, <2>3
<1> QED BY <1>4, <1>5

\* The empty sum.
LEMMA EmptySum ==
    ASSUME NEW f, DOMAIN f = {}
    PROVE  SumFunction(f) = 0
<1>1. IsFiniteSet({}) /\ \A x \in {} : f[x] \in Nat
  BY FS_EmptySet
<1>2. SumFunctionOnSet(f, {}) = 0
  BY <1>1, SumStep
<1> QED BY <1>2 DEF SumFunction

\* A summand is put in the place of another, or added.
Put(g, f, D, e, v) ==
    /\ f \in [D -> Nat] /\ v \in Nat
    /\ DOMAIN g = D \cup {e}
    /\ \A d \in D \cup {e} : g[d] = IF d = e THEN v ELSE f[d]

LEMMA SumPut ==
    ASSUME NEW D, IsFiniteSet(D), NEW f, NEW e, NEW v, NEW g, Put(g, f, D, e, v)
    PROVE  /\ SumFunction(f) \in Nat
           /\ SumFunction(g) = SumFunction(f) + v - (IF e \in D THEN f[e] ELSE 0)
<1> USE DEF Put
<1> DEFINE rest == SumFunctionOnSet(f, D \ {e})
<1>1. /\ SumFunction(f) = SumFunctionOnSet(f, D)
      /\ SumFunction(g) = SumFunctionOnSet(g, D \cup {e})
  BY DEF SumFunction
<1>2. /\ IsFiniteSet(D \cup {e}) /\ IsFiniteSet(D \ {e})
      /\ \A d \in D \cup {e} : g[d] \in Nat
      /\ \A d \in D : f[d] \in Nat
  BY FS_AddElement, FS_RemoveElement
<1>3. SumFunctionOnSet(f, D) \in Nat /\ rest \in Nat
  BY <1>2, SumsExist
<1>4. SumFunctionOnSet(g, D \cup {e}) = v + SumFunctionOnSet(g, (D \cup {e}) \ {e})
  <2>1. e \in D \cup {e} /\ g[e] = v
    OBVIOUS
  <2> QED BY <1>2, <2>1, SumRemove
<1>5. SumFunctionOnSet(g, (D \cup {e}) \ {e}) = rest
  <2>1. (D \cup {e}) \ {e} = D \ {e}
    OBVIOUS
  <2>2. \A d \in D \ {e} : f[d] \in Nat /\ g[d] = f[d]
    OBVIOUS
  <2>3. SumFunctionOnSet(f, D \ {e}) = SumFunctionOnSet(g, D \ {e})
    BY <1>2, <2>2, SumSame
  <2> QED BY <2>1, <2>3
<1>6. SumFunctionOnSet(f, D) = (IF e \in D THEN f[e] ELSE 0) + rest
  <2>1. CASE e \in D
    BY <1>2, <2>1, SumRemove
  <2>2. CASE e \notin D
    <3>1. D \ {e} = D
      BY <2>2
    <3> QED BY <1>3, <2>2, <3>1
  <2> QED BY <2>1, <2>2
<1> HIDE DEF rest
<1> QED BY <1>1, <1>2, <1>3, <1>4, <1>5, <1>6

-----------------------------------------------------------------------------
(* Loops: a value that starts at base and changes at each of n rounds.     *)

Looping(n, V, base, step) ==
    /\ base \in V
    /\ \A i \in 1 .. n : \A v \in V : step[i][v] \in V

LoopOn(g, n, base, step) ==
    /\ g[0] = base
    /\ \A i \in 1 .. n : g[i] = step[i][g[i - 1]]

LEMMA LoopExists ==
    ASSUME NEW n \in Nat, NEW V, NEW base, NEW step, Looping(n, V, base, step)
    PROVE  \E g \in [0 .. n -> V] : LoopOn(g, n, base, step)
<1> DEFINE K == {k \in Nat : k <= n => \E g \in [0 .. k -> V] : LoopOn(g, k, base, step)}
<1>1. 0 \in K
  <2> DEFINE g == [i \in 0 .. 0 |-> base]
  <2>1. g \in [0 .. 0 -> V] /\ LoopOn(g, 0, base, step)
    BY DEF Looping, LoopOn
  <2> HIDE DEF g
  <2> QED BY <2>1
<1>2. ASSUME NEW k \in Nat, k \in K PROVE k + 1 \in K
  <2> SUFFICES ASSUME k + 1 <= n
               PROVE  \E g \in [0 .. (k + 1) -> V] : LoopOn(g, k + 1, base, step)
    OBVIOUS
  <2>1. PICK g \in [0 .. k -> V] : LoopOn(g, k, base, step)
    BY <1>2
  <2> DEFINE h == [i \in 0 .. (k + 1) |-> IF i <= k THEN g[i] ELSE step[k + 1][g[k]]]
  <2>2. step[k + 1][g[k]] \in V
    BY DEF Looping
  <2>3. h \in [0 .. (k + 1) -> V]
    BY <2>2
  <2>4. LoopOn(h, k + 1, base, step)
    <3>1. h[0] = base
      BY <2>1 DEF LoopOn
    <3>2. ASSUME NEW i \in 1 .. (k + 1) PROVE h[i] = step[i][h[i - 1]]
      <4>1. i - 1 \in 0 .. k /\ h[i - 1] = g[i - 1]
        OBVIOUS
      <4>2. CASE i <= k
        BY <2>1, <4>1, <4>2 DEF LoopOn
      <4>3. CASE i = k + 1
        BY <4>1, <4>3
      <4> QED BY <4>2, <4>3
    <3> HIDE DEF h
    <3> QED BY <3>1, <3>2 DEF LoopOn
  <2> HIDE DEF h
  <2> QED BY <2>3, <2>4
<1>3. n \in K
  <2> HIDE DEF K
  <2> QED BY <1>1, <1>2, Induction
<1> QED BY <1>3

\* Two loops of the same rounds make the same of the same start.
LEMMA LoopUnique ==
    ASSUME NEW n \in Nat, NEW base, NEW step, NEW other, NEW g, NEW h,
           LoopOn(g, n, base, step), LoopOn(h, n, base, other),
           \A i \in 1 .. n : step[i] = other[i]
    PROVE  \A i \in 0 .. n : g[i] = h[i]
<1> DEFINE N == {i \in 0 .. n : g[i] # h[i]}
<1> SUFFICES ASSUME N # {} PROVE FALSE
  OBVIOUS
<1>1. PICK m \in N : \A i \in N : m <= i
  <2>1. N \in SUBSET Nat
    OBVIOUS
  <2> HIDE DEF N
  <2> QED BY <2>1, LeastNumber
<1>2. m # 0
  BY <1>1 DEF LoopOn
<1>3. m - 1 \in 0 .. n /\ m \in 1 .. n /\ g[m - 1] = h[m - 1]
  BY <1>1, <1>2
<1> QED BY <1>1, <1>3 DEF LoopOn

\* The greatest of numbers that are bounded.
LEMMA GreatestNumber ==
    ASSUME NEW k \in Nat, NEW N \in SUBSET (0 .. k), N # {}
    PROVE  \E m \in N : \A n \in N : n <= m
<1> DEFINE C == {k - n : n \in N}
<1>1. C \in SUBSET Nat /\ C # {}
  OBVIOUS
<1>2. PICK c \in C : \A d \in C : c <= d
  <2> HIDE DEF C
  <2> QED BY <1>1, LeastNumber
<1>3. PICK m \in N : c = k - m
  OBVIOUS
<1>4. ASSUME NEW n \in N PROVE n <= m
  <2>1. k - m <= k - n
    BY <1>2, <1>3
  <2> QED BY <2>1
<1> QED BY <1>4
=============================================================================
