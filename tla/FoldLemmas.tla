----------------------------- MODULE FoldLemmas -----------------------------
(***************************************************************************)
(* What folds compute: the sum of a function over a finite set, and the    *)
(* elements of a sequence that are in a set, in their order; and what is   *)
(* put into a queue and taken out of it.                                   *)
(*                                                                         *)
(* Induction is taken from the well-foundedness of the natural numbers and *)
(* of the finite sets: a set of counterexamples would have a least one.    *)
(***************************************************************************)
EXTENDS SequencesExt, FiniteSetTheorems, SequenceTheorems, TLAPS

\* Every non-empty set of natural numbers has a least element.
LEMMA LeastNumber ==
    ASSUME NEW T \in SUBSET Nat, T # {}
    PROVE  \E n \in T : \A m \in T : n <= m
<1>1. \E n \in T : \A m \in T : <<m, n>> \notin OpToRel(<, Nat)
    BY WFMin, NatLessThanWellFounded, Zenon
<1>2. \A m, n \in Nat : m < n => <<m, n>> \in OpToRel(<, Nat)
    BY DEF OpToRel
<1>3. \E n \in T : \A m \in T : ~(m < n)
    BY <1>1, <1>2, Zenon
<1> QED
    BY <1>3

\* Every non-empty set of subsets of a finite set has a member that contains no other.
LEMMA LeastSubset ==
    ASSUME NEW S, IsFiniteSet(S), NEW C \in SUBSET (SUBSET S), C # {}
    PROVE  \E T \in C : \A U \in C : U \subseteq T => U = T
<1>1. FiniteSubsetsOf(S) = SUBSET S
    BY FS_FiniteSubsetsOfFinite
<1>2. \E T \in C : \A U \in C : <<U, T>> \notin StrictSubsetOrdering(S)
    BY <1>1, WFMin, FS_StrictSubsetOrderingWellFounded, Zenon
<1>3. \A T, U \in SUBSET S : U \subseteq T /\ U # T => <<U, T>> \in StrictSubsetOrdering(S)
    BY DEF StrictSubsetOrdering
<1> QED
    BY <1>2, <1>3, Zenon

-----------------------------------------------------------------------------
(* Recursion over the subsets of a finite set.                             *)

\* g follows the equation of a fold on the subsets of T: a set takes the value of
\* the set without its first element, and a step.
Follows(g, T, base, step, first) ==
    g = [U \in SUBSET T |-> IF U = {} THEN base ELSE step[first[U]][g[U \ {first[U]}]]]

\* First elements of the subsets of S.
Picks(S) == {first \in [SUBSET S -> S \cup {{}}] : \A T \in SUBSET S : T # {} => first[T] \in T}

\* There is no choice in the values of a recursion.
LEMMA FollowsUnique ==
    ASSUME NEW S, IsFiniteSet(S), NEW base, NEW step, NEW first \in Picks(S),
           NEW T \in SUBSET S, NEW g, Follows(g, T, base, step, first),
           NEW U \in SUBSET S, NEW h, Follows(h, U, base, step, first),
           NEW W, W \subseteq T, W \subseteq U
    PROVE  g[W] = h[W]
<1> DEFINE C == {V \in SUBSET (T \cap U) : g[V] # h[V]}
<1>1. SUFFICES ASSUME C # {} PROVE FALSE
    OBVIOUS
<1>2. PICK V \in C : \A V2 \in C : V2 \subseteq V => V2 = V
    <2>1. C \in SUBSET (SUBSET S)
        OBVIOUS
    <2> HIDE DEF C
    <2> QED
        BY <1>1, <2>1, LeastSubset
<1>3. V # {}
    BY DEF Follows
<1>4. first[V] \in V
    BY <1>3 DEF Picks
<1>5. V \ {first[V]} \notin C
    BY <1>2, <1>4
<1>6. g[V \ {first[V]}] = h[V \ {first[V]}]
    BY <1>5
<1>7. g[V] = step[first[V]][g[V \ {first[V]}]]
    BY <1>3 DEF Follows
<1>8. h[V] = step[first[V]][h[V \ {first[V]}]]
    BY <1>3 DEF Follows
<1> QED
    BY <1>6, <1>7, <1>8

\* A recursion whose steps stay in a set has values, and they are in the set.
LEMMA FollowsExists ==
    ASSUME NEW S, IsFiniteSet(S), NEW V, NEW base \in V, NEW step \in [S -> [V -> V]],
           NEW first \in Picks(S)
    PROVE  \E g \in [SUBSET S -> V] : Follows(g, S, base, step, first)
<1> DEFINE Good(T) == \E g \in [SUBSET T -> V] : Follows(g, T, base, step, first)
           C == {T \in SUBSET S : ~Good(T)}
<1>1. ASSUME NEW A \in SUBSET S, NEW B \in SUBSET S, B \subseteq A,
             NEW g, Follows(g, A, base, step, first),
             NEW h, Follows(h, B, base, step, first)
      PROVE  g[B] = h[B]
    BY <1>1, FollowsUnique
<1>2. SUFFICES ASSUME C # {} PROVE FALSE
    OBVIOUS
<1>3. PICK T \in C : \A U \in C : U \subseteq T => U = T
    <2>1. C \in SUBSET (SUBSET S)
        OBVIOUS
    <2> HIDE DEF C
    <2> QED
        BY <1>2, <2>1, LeastSubset
<1> DEFINE of(U) == CHOOSE g \in [SUBSET U -> V] : Follows(g, U, base, step, first)
<1>4. ASSUME NEW U \in SUBSET T, U # T
      PROVE  of(U) \in [SUBSET U -> V] /\ Follows(of(U), U, base, step, first)
    <2>1. Good(U)
        BY <1>3, <1>4
    <2> QED
        BY <2>1
<1>5. ASSUME NEW U \in SUBSET T, U # T, NEW D \in SUBSET U, D # T
      PROVE  of(U)[D] = of(D)[D]
    <2>1. PICK g : g = of(U)
        OBVIOUS
    <2>2. PICK h : h = of(D)
        OBVIOUS
    <2>3. Follows(g, U, base, step, first)
        BY <1>4, <1>5, <2>1
    <2>4. Follows(h, D, base, step, first)
        BY <1>4, <1>5, <2>2
    <2>5. U \in SUBSET S /\ D \in SUBSET S /\ D \subseteq U
        BY <1>3
    <2>6. g[D] = h[D]
        BY <1>1, <2>3, <2>4, <2>5
    <2> QED
        BY <2>1, <2>2, <2>6, Zenon
<1> DEFINE known == [U \in SUBSET T |-> IF U = T THEN base ELSE of(U)[U]]
           value(U) == IF U = {} THEN base ELSE step[first[U]][known[U \ {first[U]}]]
           new == [U \in SUBSET T |-> value(U)]
<1> HIDE DEF of
<1>6. ASSUME NEW U \in SUBSET T, U # {}
      PROVE  /\ first[U] \in U
             /\ U \ {first[U]} \in SUBSET T
             /\ U \ {first[U]} # T
    BY <1>6 DEF Picks
<1>7. known \in [SUBSET T -> V]
    BY <1>4
<1> HIDE DEF known
<1>8. \A U \in SUBSET T : value(U) \in V
    BY <1>6, <1>7
<1>9. new \in [SUBSET T -> V]
    BY <1>8
<1>10. ASSUME NEW U \in SUBSET T, U # T
      PROVE  known[U] = value(U)
    <2>1. CASE U = {}
        BY <1>4, <2>1 DEF Follows, known
    <2>2. CASE U # {}
        <3>1. known[U] = step[first[U]][of(U)[U \ {first[U]}]]
            BY <1>4, <1>10, <2>2 DEF Follows, known
        <3> DEFINE W == U \ {first[U]}
        <3>2. W \in SUBSET T /\ W # T /\ W \in SUBSET U
            BY <1>6, <2>2
        <3>3. of(U)[W] = of(W)[W]
            BY <1>10, <1>5, <3>2
        <3>4. known[W] = of(W)[W]
            BY <3>2 DEF known
        <3> QED
            BY <2>2, <3>1, <3>3, <3>4
    <2> QED
        BY <2>1, <2>2
<1>11. Follows(new, T, base, step, first)
    <2>1. ASSUME NEW U \in SUBSET T, U # {}
          PROVE  new[U \ {first[U]}] = known[U \ {first[U]}]
        BY <1>6, <1>10, <2>1
    <2>2. \A U \in SUBSET T :
            new[U] = IF U = {} THEN base ELSE step[first[U]][new[U \ {first[U]}]]
        BY <2>1
    <2> QED
        BY <2>2 DEF Follows
<1> QED
    BY <1>9, <1>11

-----------------------------------------------------------------------------
(* Sums.                                                                   *)

AnyFirst(S) == [T \in SUBSET S |-> IF T = {} THEN {} ELSE CHOOSE x \in T : TRUE]

Adding(f, S) == [x \in S |-> [n \in Nat |-> f[x] + n]]

\* The sums over the subsets of S follow one recursion.
LEMMA SumFollows ==
    ASSUME NEW S, IsFiniteSet(S), NEW f, \A x \in S : f[x] \in Nat
    PROVE  \E g \in [SUBSET S -> Nat] :
              /\ Follows(g, S, 0, Adding(f, S), AnyFirst(S))
              /\ g[S] = SumFunctionOnSet(f, S)
<1> DEFINE first == AnyFirst(S)
           step == Adding(f, S)
           Body(g) == [T \in SUBSET S |->
                         IF T = {} THEN 0
                         ELSE f[CHOOSE x \in T : TRUE] + g[T \ {CHOOSE x \in T : TRUE}]]
           iter == CHOOSE g : g = Body(g)
<1>1. AnyFirst(S) \in Picks(S)
    BY DEF AnyFirst, Picks
<1>2. step \in [S -> [Nat -> Nat]]
    BY DEF Adding
<1>3. PICK g \in [SUBSET S -> Nat] : Follows(g, S, 0, step, AnyFirst(S))
    BY <1>1, <1>2, FollowsExists
<1>4. ASSUME NEW T \in SUBSET S, T # {}, NEW h \in [SUBSET S -> Nat]
      PROVE  step[first[T]][h[T \ {first[T]}]] =
             f[CHOOSE x \in T : TRUE] + h[T \ {CHOOSE x \in T : TRUE}]
    BY <1>1, <1>4 DEF AnyFirst, Adding, Picks
<1>5. g = Body(g)
    BY <1>3, <1>4 DEF Follows
<1>6. iter = Body(iter)
    BY <1>5
<1> HIDE DEF iter
<1> DEFINE C == {T \in SUBSET S : iter[T] # g[T]}
<1>7. C = {}
    <2>1. SUFFICES ASSUME C # {} PROVE FALSE
        OBVIOUS
    <2>2. PICK T \in C : \A U \in C : U \subseteq T => U = T
        <3>1. C \in SUBSET (SUBSET S)
            OBVIOUS
        <3> HIDE DEF C
        <3> QED
            BY <2>1, <3>1, LeastSubset
    <2>3. T # {}
        BY <1>5, <1>6
    <2> DEFINE x == CHOOSE x \in T : TRUE
    <2>4. x \in T
        BY <2>3
    <2> HIDE DEF x
    <2>5. iter[T \ {x}] = g[T \ {x}]
        BY <2>2, <2>4
    <2> QED
        BY <1>5, <1>6, <2>3, <2>5 DEF x
<1>8. SumFunctionOnSet(f, S) = iter[S]
    BY DEF SumFunctionOnSet, FoldFunctionOnSet, MapThenFoldSet, iter
<1> QED
    BY <1>3, <1>7, <1>8

LEMMA SumType ==
    ASSUME NEW S, IsFiniteSet(S), NEW f, \A x \in S : f[x] \in Nat
    PROVE  SumFunctionOnSet(f, S) \in Nat
<1>1. PICK g \in [SUBSET S -> Nat] : g[S] = SumFunctionOnSet(f, S)
    BY SumFollows
<1> QED
    BY <1>1

LEMMA SumEmpty ==
    ASSUME NEW f
    PROVE  SumFunctionOnSet(f, {}) = 0
<1>1. IsFiniteSet({})
    BY FS_EmptySet
<1>2. PICK g \in [SUBSET {} -> Nat] :
        /\ Follows(g, {}, 0, Adding(f, {}), AnyFirst({}))
        /\ g[{}] = SumFunctionOnSet(f, {})
    BY <1>1, SumFollows
<1> QED
    BY <1>2 DEF Follows

\* The equation of the definition.
LEMMA SumStep ==
    ASSUME NEW S, IsFiniteSet(S), NEW f, \A x \in S : f[x] \in Nat, S # {}
    PROVE  \E c \in S : SumFunctionOnSet(f, S) = f[c] + SumFunctionOnSet(f, S \ {c})
<1> DEFINE c == CHOOSE x \in S : TRUE
           R == S \ {c}
<1>1. c \in S
    OBVIOUS
<1> HIDE DEF c
<1>2. IsFiniteSet(R)
    BY FS_Subset
<1>3. PICK g \in [SUBSET S -> Nat] :
        /\ Follows(g, S, 0, Adding(f, S), AnyFirst(S))
        /\ g[S] = SumFunctionOnSet(f, S)
    BY SumFollows
<1>4. PICK h \in [SUBSET R -> Nat] :
        /\ Follows(h, R, 0, Adding(f, R), AnyFirst(R))
        /\ h[R] = SumFunctionOnSet(f, R)
    BY <1>2, SumFollows
<1>5. AnyFirst(S) \in Picks(S)
    BY DEF AnyFirst, Picks
<1>6. Follows(h, R, 0, Adding(f, S), AnyFirst(S))
    <2>1. ASSUME NEW U \in SUBSET R, U # {}
          PROVE  /\ AnyFirst(R)[U] = AnyFirst(S)[U]
                 /\ AnyFirst(R)[U] \in R
        BY <2>1 DEF AnyFirst
    <2>2. ASSUME NEW x \in R
          PROVE  Adding(f, R)[x] = Adding(f, S)[x]
        BY DEF Adding
    <2>3. ASSUME NEW U \in SUBSET R, U # {}
          PROVE  Adding(f, R)[AnyFirst(R)[U]][h[U \ {AnyFirst(R)[U]}]]
                 = Adding(f, S)[AnyFirst(S)[U]][h[U \ {AnyFirst(S)[U]}]]
        BY <2>1, <2>2, <2>3
    <2> QED
        BY <1>4, <2>3 DEF Follows
<1>7. g[R] = h[R]
    BY <1>3, <1>5, <1>6, FollowsUnique
<1>8. AnyFirst(S)[S] = c
    BY DEF AnyFirst, c
<1>9. g[S] = Adding(f, S)[c][g[R]]
    BY <1>3, <1>8 DEF Follows
<1> QED
    BY <1>1, <1>3, <1>4, <1>7, <1>9 DEF Adding

\* A sum is that of any of its terms and of the others.
LEMMA SumRemove ==
    ASSUME NEW S, IsFiniteSet(S), NEW f, \A x \in S : f[x] \in Nat, NEW x \in S
    PROVE  SumFunctionOnSet(f, S) = f[x] + SumFunctionOnSet(f, S \ {x})
<1> DEFINE Sum(T) == SumFunctionOnSet(f, T)
           C == {T \in SUBSET S : \E y \in T : Sum(T) # f[y] + Sum(T \ {y})}
<1>1. SUFFICES ASSUME C # {} PROVE FALSE
    OBVIOUS
<1>2. PICK T \in C : \A U \in C : U \subseteq T => U = T
    <2>1. C \in SUBSET (SUBSET S)
        OBVIOUS
    <2> HIDE DEF C
    <2> QED
        BY <1>1, <2>1, LeastSubset
<1>3. \A U \in SUBSET S : IsFiniteSet(U) /\ Sum(U) \in Nat
    BY FS_Subset, SumType
<1>4. ASSUME NEW U \in SUBSET S, U # {}
      PROVE  \E c \in U : Sum(U) = f[c] + Sum(U \ {c})
    <2>1. IsFiniteSet(U)
        BY <1>3
    <2> QED
        BY <1>4, <2>1, SumStep
<1> HIDE DEF Sum
<1>5. PICK y \in T : Sum(T) # f[y] + Sum(T \ {y})
    OBVIOUS
<1>6. PICK c \in T : Sum(T) = f[c] + Sum(T \ {c})
    BY <1>4
<1>7. c # y
    BY <1>5, <1>6
<1>8. T \ {c} \notin C /\ T \ {y} \notin C
    BY <1>2
<1>9. Sum(T \ {c}) = f[y] + Sum((T \ {c}) \ {y})
    BY <1>7, <1>8
<1>10. Sum(T \ {y}) = f[c] + Sum((T \ {y}) \ {c})
    BY <1>7, <1>8
<1>11. (T \ {c}) \ {y} = (T \ {y}) \ {c}
    OBVIOUS
<1>12. Sum(T \ {y}) = f[c] + Sum((T \ {c}) \ {y})
    BY <1>10, <1>11
<1>13. Sum((T \ {c}) \ {y}) \in Nat /\ f[c] \in Nat /\ f[y] \in Nat
    BY <1>3
<1> QED
    BY <1>5, <1>6, <1>9, <1>12, <1>13

LEMMA SumAdd ==
    ASSUME NEW S, IsFiniteSet(S), NEW f, NEW x, x \notin S,
           \A y \in S \cup {x} : f[y] \in Nat
    PROVE  SumFunctionOnSet(f, S \cup {x}) = f[x] + SumFunctionOnSet(f, S)
<1>1. IsFiniteSet(S \cup {x})
    BY FS_AddElement
<1>2. (S \cup {x}) \ {x} = S
    OBVIOUS
<1> QED
    BY <1>1, <1>2, SumRemove

\* A sum each of whose terms has one of its own above it in another is at most that one.
LEMMA SumInjection ==
    ASSUME NEW S, IsFiniteSet(S), NEW f, \A x \in S : f[x] \in Nat,
           NEW T, IsFiniteSet(T), NEW g, \A y \in T : g[y] \in Nat,
           NEW j \in [S -> T],
           \A x, y \in S : j[x] = j[y] => x = y,
           \A x \in S : f[x] <= g[j[x]]
    PROVE  SumFunctionOnSet(f, S) <= SumFunctionOnSet(g, T)
<1> DEFINE F(U) == SumFunctionOnSet(f, U)
           G(V) == SumFunctionOnSet(g, V)
           Bad(U) == \E V \in SUBSET T : (\A x \in U : j[x] \in V) /\ ~(F(U) <= G(V))
           C == {U \in SUBSET S : Bad(U)}
<1>1. SUFFICES ASSUME C # {} PROVE FALSE
    <2>1. S \in SUBSET S /\ T \in SUBSET T /\ \A x \in S : j[x] \in T
        OBVIOUS
    <2>2. ~Bad(S)
        BY <1>1
    <2>3. F(S) <= G(T)
        BY <2>1, <2>2
    <2> QED
        BY <2>3
<1>2. PICK U \in C : \A W \in C : W \subseteq U => W = U
    <2>1. C \in SUBSET (SUBSET S)
        OBVIOUS
    <2> HIDE DEF C
    <2> QED
        BY <1>1, <2>1, LeastSubset
<1>3. \A W \in SUBSET S : F(W) \in Nat
    BY FS_Subset, SumType
<1>4. \A W \in SUBSET T : G(W) \in Nat
    BY FS_Subset, SumType
<1>5. ASSUME NEW W \in SUBSET S, NEW x \in W
      PROVE  F(W) = f[x] + F(W \ {x})
    <2>1. IsFiniteSet(W)
        BY FS_Subset
    <2> QED
        BY <2>1, SumRemove
<1>6. ASSUME NEW W \in SUBSET T, NEW x \in W
      PROVE  G(W) = g[x] + G(W \ {x})
    <2>1. IsFiniteSet(W)
        BY FS_Subset
    <2> QED
        BY <2>1, SumRemove
<1>7. F({}) = 0
    BY SumEmpty
<1> HIDE DEF F, G
<1>8. PICK V \in SUBSET T : (\A x \in U : j[x] \in V) /\ ~(F(U) <= G(V))
    OBVIOUS
<1>9. PICK x \in U : TRUE
    BY <1>4, <1>7, <1>8
<1>10. F(U \ {x}) <= G(V \ {j[x]})
    <2>1. U \ {x} \notin C
        BY <1>2
    <2>2. U \ {x} \in SUBSET S /\ V \ {j[x]} \in SUBSET T
        OBVIOUS
    <2>3. \A y \in U \ {x} : j[y] \in V \ {j[x]}
        BY <1>8
    <2> QED
        BY <2>1, <2>2, <2>3
<1>11. F(U) = f[x] + F(U \ {x}) /\ G(V) = g[j[x]] + G(V \ {j[x]})
    BY <1>5, <1>6, <1>8
<1>12. F(U \ {x}) \in Nat /\ G(V \ {j[x]}) \in Nat /\ f[x] \in Nat /\ g[j[x]] \in Nat
    BY <1>3, <1>4
<1>13. f[x] <= g[j[x]]
    OBVIOUS
<1> QED
    BY <1>8, <1>10, <1>11, <1>12, <1>13

\* Only the values on the set count.
LEMMA SumSame ==
    ASSUME NEW S, IsFiniteSet(S), NEW f, NEW g,
           \A x \in S : f[x] \in Nat /\ g[x] = f[x]
    PROVE  SumFunctionOnSet(f, S) = SumFunctionOnSet(g, S)
<1> DEFINE j == [x \in S |-> x]
<1>1. j \in [S -> S] /\ \A x, y \in S : j[x] = j[y] => x = y
    OBVIOUS
<1>2. \A x \in S : f[x] <= g[j[x]] /\ g[x] <= f[j[x]] /\ f[x] \in Nat /\ g[x] \in Nat
    OBVIOUS
<1> HIDE DEF j
<1>3. SumFunctionOnSet(f, S) <= SumFunctionOnSet(g, S)
    BY <1>1, <1>2, SumInjection
<1>4. SumFunctionOnSet(g, S) <= SumFunctionOnSet(f, S)
    BY <1>1, <1>2, SumInjection
<1>5. SumFunctionOnSet(f, S) \in Nat /\ SumFunctionOnSet(g, S) \in Nat
    BY <1>2, SumType
<1> QED
    BY <1>3, <1>4, <1>5

-----------------------------------------------------------------------------
(* The elements of a sequence that are in a set.                           *)

\* They keep their order.
Kept(seq, G) == FoldLeft(LAMBDA kept, x : IF x \in G THEN Append(kept, x) ELSE kept, <<>>, seq)

Greatest(n) == [T \in SUBSET (1..n) |-> IF T = {} THEN {} ELSE Max(T)]

Keeping(seq, G, V) ==
    [i \in 1..Len(seq) |-> [v \in Seq(V) |-> IF seq[i] \in G THEN Append(v, seq[i]) ELSE v]]

LEMMA GreatestExists ==
    ASSUME NEW n \in Nat, NEW T \in SUBSET (1..n), T # {}
    PROVE  \E x \in T : \A y \in T : x >= y
<1> DEFINE D == {n - x : x \in T}
<1>1. D \in SUBSET Nat /\ D # {}
    <2>1. \A x \in T : n - x \in Nat
        OBVIOUS
    <2> QED
        BY <2>1
<1> HIDE DEF D
<1>2. PICK d \in D : \A e \in D : d <= e
    BY <1>1, LeastNumber
<1>3. PICK x \in T : d = n - x
    BY DEF D
<1>4. \A y \in T : n - x <= n - y
    BY <1>2, <1>3 DEF D
<1> QED
    BY <1>4

LEMMA GreatestPicks ==
    ASSUME NEW n \in Nat
    PROVE  Greatest(n) \in Picks(1..n)
<1>1. ASSUME NEW T \in SUBSET (1..n), T # {}
      PROVE  Max(T) \in T
    <2>1. \E x \in T : \A y \in T : x >= y
        BY <1>1, GreatestExists
    <2> QED
        BY <2>1 DEF Max
<1>2. ASSUME NEW T \in SUBSET (1..n)
      PROVE  Greatest(n)[T] = IF T = {} THEN {} ELSE Max(T)
    BY DEF Greatest
<1>3. Greatest(n) = [T \in SUBSET (1..n) |-> Greatest(n)[T]]
    BY DEF Greatest
<1>4. Greatest(n) \in [SUBSET (1..n) -> (1..n) \cup {{}}]
    <2>1. ASSUME NEW T \in SUBSET (1..n)
          PROVE  Greatest(n)[T] \in (1..n) \cup {{}}
        BY <1>1, <1>2
    <2> QED
        BY <1>3, <2>1
<1> QED
    BY <1>1, <1>2, <1>4 DEF Picks

LEMMA MaxOfPrefix ==
    ASSUME NEW n \in Nat \ {0}
    PROVE  Max(1..n) = n
<1>1. \E x \in 1..n : \A y \in 1..n : x >= y
    OBVIOUS
<1>2. Max(1..n) \in 1..n /\ \A y \in 1..n : Max(1..n) >= y
    BY <1>1 DEF Max
<1> QED
    BY <1>2

\* g[1..k] is what is kept of the first k elements of a sequence of length n.
Keeps(g, seq, n, G, V) ==
    /\ g \in [SUBSET (1..n) -> Seq(V)]
    /\ Follows(g, 1..n, <<>>, Keeping(seq, G, V), Greatest(n))
    /\ g[1..n] = Kept(seq, G)

LEMMA KeptFollows ==
    ASSUME NEW V, NEW seq \in Seq(V), NEW n, n = Len(seq), NEW G
    PROVE  \E g : Keeps(g, seq, n, G, V)
<1> DEFINE S == 1..n
           step == Keeping(seq, G, V)
           Body(g) == [T \in SUBSET S |->
                         IF T = {} THEN <<>>
                         ELSE IF seq[Max(T)] \in G THEN Append(g[T \ {Max(T)}], seq[Max(T)])
                                                   ELSE g[T \ {Max(T)}]]
           iter == CHOOSE g : g = Body(g)
<1>1. n \in Nat /\ DOMAIN seq = S /\ \A i \in S : seq[i] \in V
    BY LenProperties, ElementOfSeq
<1>2. IsFiniteSet(S)
    BY <1>1, FS_Interval
<1>3. Greatest(n) \in Picks(S)
    BY <1>1, GreatestPicks
<1>4. step \in [S -> [Seq(V) -> Seq(V)]]
    <2>1. ASSUME NEW i \in S, NEW v \in Seq(V)
          PROVE  Append(v, seq[i]) \in Seq(V)
        BY <1>1, AppendProperties
    <2> QED
        BY <2>1 DEF Keeping
<1>5. <<>> \in Seq(V)
    BY EmptySeq
<1> HIDE DEF S, step
<1>6. PICK g \in [SUBSET S -> Seq(V)] : Follows(g, S, <<>>, step, Greatest(n))
    BY <1>2, <1>3, <1>4, <1>5, FollowsExists
<1>7. ASSUME NEW T \in SUBSET S, T # {}
      PROVE  /\ Max(T) \in T
             /\ Greatest(n)[T] = Max(T)
    <2>1. Greatest(n)[T] = Max(T)
        BY <1>7 DEF Greatest, S
    <2> QED
        BY <1>3, <1>7, <2>1 DEF Picks
<1>8. ASSUME NEW T \in SUBSET S, T # {}
      PROVE  step[Greatest(n)[T]][g[T \ {Greatest(n)[T]}]] =
             IF seq[Max(T)] \in G THEN Append(g[T \ {Max(T)}], seq[Max(T)])
                                  ELSE g[T \ {Max(T)}]
    <2>1. Max(T) \in S /\ g[T \ {Max(T)}] \in Seq(V)
        BY <1>6, <1>7, <1>8
    <2> QED
        BY <1>7, <1>8, <2>1 DEF Keeping, step, S
<1>9. g = Body(g)
    BY <1>6, <1>8 DEF Follows
<1>10. iter = Body(iter)
    BY <1>9, Zenon
<1> HIDE DEF iter
<1> DEFINE C == {T \in SUBSET S : iter[T] # g[T]}
<1>11. C = {}
    <2>1. SUFFICES ASSUME C # {} PROVE FALSE
        OBVIOUS
    <2>2. PICK T \in C : \A U \in C : U \subseteq T => U = T
        <3>1. C \in SUBSET (SUBSET S)
            OBVIOUS
        <3> HIDE DEF C
        <3> QED
            BY <1>2, <2>1, <3>1, LeastSubset
    <2>3. T # {}
        BY <1>9, <1>10
    <2> DEFINE x == Max(T)
    <2>4. x \in T
        BY <1>7, <2>3
    <2>5. T \ {x} \notin C
        BY <2>2, <2>4
    <2>6. iter[T \ {x}] = g[T \ {x}]
        BY <2>5
    <2> QED
        BY <1>9, <1>10, <2>3, <2>6
<1>12. Kept(seq, G) = iter[S]
    BY <1>1 DEF Kept, FoldLeft, MapThenFoldSet, iter
<1> QED
    BY <1>6, <1>11, <1>12 DEF S, step, Keeps

LEMMA KeptType ==
    ASSUME NEW V, NEW seq \in Seq(V), NEW G
    PROVE  Kept(seq, G) \in Seq(V)
<1>1. PICK n : n = Len(seq)
    OBVIOUS
<1>2. PICK g : Keeps(g, seq, n, G, V)
    BY <1>1, KeptFollows
<1>3. n \in Nat
    BY <1>1, LenProperties
<1> QED
    BY <1>2 DEF Keeps

LEMMA KeptEmpty ==
    ASSUME NEW G
    PROVE  Kept(<<>>, G) = <<>>
<1>1. <<>> \in Seq({}) /\ Len(<<>>) = 0
    BY EmptySeq
<1>2. PICK g : Keeps(g, <<>>, 0, G, {})
    BY <1>1, KeptFollows
<1>3. 1..0 = {}
    OBVIOUS
<1> QED
    BY <1>2, <1>3 DEF Follows, Keeps

\* A last element that is in the set is kept last.
LEMMA KeptAppend ==
    ASSUME NEW V, NEW seq \in Seq(V), NEW x \in V, NEW G
    PROVE  Kept(Append(seq, x), G) = IF x \in G THEN Append(Kept(seq, G), x) ELSE Kept(seq, G)
<1> DEFINE n == Len(seq)
           more == Append(seq, x)
<1>1. /\ n \in Nat /\ more \in Seq(V) /\ Len(more) = n + 1 /\ more[n + 1] = x
      /\ \A i \in 1..n : more[i] = seq[i]
    BY AppendProperties, LenProperties
<1> HIDE DEF n, more
<1>2. PICK g : Keeps(g, more, n + 1, G, V)
    BY <1>1, KeptFollows
<1>3. PICK h : Keeps(h, seq, n, G, V)
    BY KeptFollows DEF n
<1> DEFINE S == 1..(n + 1)
           T == 1..n
<1>4. /\ n + 1 \in Nat \ {0} /\ n + 1 \in S
      /\ T \subseteq S /\ S # {} /\ S \ {n + 1} = T
    <2>1. n \in Nat
        BY <1>1
    <2>2. S # {}
        <3>1. n + 1 \in S
            BY <2>1
        <3> QED
            BY <3>1
    <2> QED
        BY <2>1, <2>2
<1>5. IsFiniteSet(S) /\ Greatest(n) \in Picks(T) /\ Greatest(n + 1) \in Picks(S)
    BY <1>1, <1>4, GreatestPicks, FS_Interval
<1> DEFINE step == Keeping(more, G, V)
<1>6. /\ g \in [SUBSET S -> Seq(V)] /\ g[S] = Kept(more, G)
      /\ Follows(g, S, <<>>, step, Greatest(n + 1))
    BY <1>2 DEF Keeps
<1>7. h[T] = Kept(seq, G) /\ Follows(h, T, <<>>, Keeping(seq, G, V), Greatest(n))
    BY <1>3 DEF Keeps
<1>8. ASSUME NEW U \in SUBSET T, U # {}
      PROVE  /\ Greatest(n)[U] = Greatest(n + 1)[U]
             /\ Greatest(n)[U] \in T
    <2>1. U \in SUBSET S
        BY <1>4
    <2>2. Greatest(n)[U] = Max(U)
        BY <1>8 DEF Greatest
    <2>3. Greatest(n + 1)[U] = Max(U)
        BY <1>8, <2>1 DEF Greatest
    <2> QED
        BY <1>5, <1>8, <2>2, <2>3 DEF Picks
<1>9. ASSUME NEW i \in T
      PROVE  Keeping(seq, G, V)[i] = step[i]
    BY <1>1, <1>4 DEF Keeping, n
<1>10. Greatest(n + 1)[S] = n + 1
    <2>1. Max(S) = n + 1
        BY <1>4, MaxOfPrefix
    <2> QED
        BY <1>4, <2>1 DEF Greatest
<1>11. ASSUME NEW v \in Seq(V)
       PROVE  step[n + 1][v] = IF x \in G THEN Append(v, x) ELSE v
    BY <1>1, <1>4 DEF Keeping
<1> HIDE DEF S, T, step
<1>12. Follows(h, T, <<>>, step, Greatest(n + 1))
    <2>1. ASSUME NEW U \in SUBSET T, U # {}
          PROVE  Keeping(seq, G, V)[Greatest(n)[U]][h[U \ {Greatest(n)[U]}]]
                 = step[Greatest(n + 1)[U]][h[U \ {Greatest(n + 1)[U]}]]
        BY <1>8, <1>9, <2>1
    <2> QED
        BY <1>7, <2>1 DEF Follows
<1>13. g[T] = h[T]
    BY <1>4, <1>5, <1>6, <1>12, FollowsUnique
<1>14. g[S] = step[n + 1][g[T]]
    BY <1>4, <1>6, <1>10 DEF Follows
<1>15. g[T] \in Seq(V)
    BY <1>4, <1>6
<1> QED
    BY <1>6, <1>7, <1>11, <1>13, <1>14, <1>15 DEF more

\* A first element that is in the set is kept first.
LEMMA KeptTail ==
    ASSUME NEW V, NEW seq \in Seq(V), seq # <<>>, NEW G
    PROVE  Kept(seq, G) = IF Head(seq) \in G THEN <<Head(seq)>> \o Kept(Tail(seq), G)
                                             ELSE Kept(Tail(seq), G)
<1> DEFINE Good(s) == Kept(s, G) = IF Head(s) \in G THEN <<Head(s)>> \o Kept(Tail(s), G)
                                                    ELSE Kept(Tail(s), G)
           L == {n \in Nat : \E s \in Seq(V) : s # <<>> /\ Len(s) = n /\ ~Good(s)}
<1>1. SUFFICES ASSUME L # {} PROVE FALSE
    <2>1. Len(seq) \in Nat
        BY LenProperties
    <2> QED
        BY <1>1, <2>1
<1>2. PICK n \in L : \A m \in L : n <= m
    <2>1. L \in SUBSET Nat
        OBVIOUS
    <2> HIDE DEF L
    <2> QED
        BY <1>1, <2>1, LeastNumber
<1>3. PICK s \in Seq(V) : s # <<>> /\ Len(s) = n /\ ~Good(s)
    OBVIOUS
<1> DEFINE front == SubSeq(s, 1, n - 1)
           x == s[n]
<1>4. n \in Nat \ {0} /\ x \in V
    BY <1>3, EmptySeq, LenProperties, ElementOfSeq
<1>5. /\ front \in Seq(V) /\ Len(front) = n - 1
      /\ \A i \in 1..(n - 1) : front[i] = s[i]
    BY <1>3, <1>4, SubSeqProperties
<1>6. s = Append(front, x)
    <2>1. /\ Append(front, x) \in Seq(V) /\ Len(Append(front, x)) = n
          /\ \A i \in 1..n : Append(front, x)[i] = s[i]
        BY <1>4, <1>5, AppendProperties
    <2> QED
        BY <1>3, <2>1, SeqEqual
<1> HIDE DEF Good, front, x
<1>7. CASE front = <<>>
    <2>1. s = <<x>>
        BY <1>6, <1>7
    <2>2. Head(s) = x /\ Tail(s) = <<>>
        BY <2>1
    <2>3. <<>> \in Seq(V) /\ Kept(<<>>, G) = <<>>
        BY KeptEmpty, EmptySeq
    <2>4. Kept(Append(<<>>, x), G) = IF x \in G THEN Append(Kept(<<>>, G), x) ELSE Kept(<<>>, G)
        BY <1>4, <2>3, KeptAppend, Zenon
    <2>5. Kept(s, G) = IF x \in G THEN <<x>> ELSE <<>>
        BY <1>6, <1>7, <2>3, <2>4
    <2>6. <<x>> \o <<>> = <<x>>
        BY <1>4
    <2> QED
        BY <1>3, <2>2, <2>3, <2>5, <2>6 DEF Good
<1>8. CASE front # <<>>
    <2>1. Good(front)
        <3>1. n - 1 \in Nat /\ n - 1 \notin L
            BY <1>2, <1>4
        <3> QED
            BY <1>5, <1>8, <3>1
    <2>2. /\ Tail(front) \in Seq(V) /\ Head(front) \in V
          /\ Head(s) = Head(front)
          /\ Tail(s) = Append(Tail(front), x)
        <3>1. /\ Tail(front) \in Seq(V) /\ Len(Tail(front)) = n - 2 /\ n - 2 \in Nat
              /\ \A i \in 1..(n - 2) : Tail(front)[i] = front[i + 1]
              /\ Head(front) = front[1] /\ Head(front) \in V
            BY <1>4, <1>5, <1>8, HeadTailProperties, LenProperties, EmptySeq
        <3>2. /\ Tail(s) \in Seq(V) /\ Len(Tail(s)) = n - 1 /\ Head(s) = s[1]
              /\ \A i \in 1..(n - 1) : Tail(s)[i] = s[i + 1]
            BY <1>3, HeadTailProperties
        <3>3. /\ Append(Tail(front), x) \in Seq(V)
              /\ Len(Append(Tail(front), x)) = n - 1
              /\ \A i \in 1..(n - 2) : Append(Tail(front), x)[i] = Tail(front)[i]
              /\ Append(Tail(front), x)[n - 1] = x
            BY <1>4, <3>1, AppendProperties
        <3>4. \A i \in 1..(n - 1) : Tail(s)[i] = Append(Tail(front), x)[i]
            BY <1>4, <1>5, <3>1, <3>2, <3>3 DEF x
        <3>5. Tail(s) = Append(Tail(front), x)
            BY <3>2, <3>3, <3>4, SeqEqual
        <3> QED
            BY <1>4, <1>5, <3>1, <3>2, <3>5
    <2>3. Kept(s, G) = IF x \in G THEN Append(Kept(front, G), x) ELSE Kept(front, G)
        BY <1>4, <1>5, <1>6, KeptAppend
    <2>4. Kept(Tail(s), G) = IF x \in G THEN Append(Kept(Tail(front), G), x)
                                        ELSE Kept(Tail(front), G)
        <3>1. PICK t : t = Tail(front)
            OBVIOUS
        <3>2. t \in Seq(V) /\ Tail(s) = Append(t, x)
            BY <2>2, <3>1
        <3>3. Kept(Append(t, x), G) = IF x \in G THEN Append(Kept(t, G), x) ELSE Kept(t, G)
            BY <1>4, <3>2, KeptAppend, Zenon
        <3> QED
            BY <3>1, <3>2, <3>3
    <2>5. Kept(Tail(front), G) \in Seq(V)
        BY <2>2, KeptType
    <2>6. ASSUME NEW t \in Seq(V), NEW y \in V
          PROVE  Append(<<y>> \o t, x) = <<y>> \o Append(t, x)
        BY <1>4
    <2> QED
        BY <1>3, <2>1, <2>2, <2>3, <2>4, <2>5, <2>6 DEF Good
<1> QED
    BY <1>7, <1>8

-----------------------------------------------------------------------------
(* Queues.                                                                 *)

\* What is left of a queue is what it was, one place further on.
LEMMA Popped ==
    ASSUME NEW S, NEW q \in Seq(S), q # <<>>
    PROVE  /\ 1 \in DOMAIN q /\ Head(q) = q[1] /\ Head(q) \in S
           /\ Tail(q) \in Seq(S)
           /\ \A k \in DOMAIN Tail(q) :
                 k \in Nat /\ k + 1 \in DOMAIN q /\ k + 1 # 1 /\ Tail(q)[k] = q[k + 1]
           /\ Len(q) = 1 => Tail(q) = <<>>
<1>1. /\ Head(q) \in S /\ Tail(q) \in Seq(S) /\ Len(Tail(q)) = Len(q) - 1
      /\ Head(q) = q[1]
      /\ \A k \in 1..Len(Tail(q)) : Tail(q)[k] = q[k + 1]
    BY HeadTailProperties
<1>2. Len(q) \in Nat \ {0} /\ DOMAIN q = 1..Len(q) /\ DOMAIN Tail(q) = 1..Len(Tail(q))
    BY <1>1, LenProperties, EmptySeq
<1>3. Len(q) = 1 => Tail(q) = <<>>
  <2>1. Tail(q) # <<>> => Len(Tail(q)) \in Nat \ {0}
      BY <1>1, EmptySeq, Zenon
  <2>2. Len(q) = 1 => Len(Tail(q)) = 0
      BY <1>1
  <2> QED
      BY <2>1, <2>2
<1> QED
    BY <1>1, <1>2, <1>3

\* A queue that has grown has one element more, at its end.
LEMMA Pushed ==
    ASSUME NEW S, NEW q \in Seq(S), NEW e \in S
    PROVE  /\ Append(q, e) \in Seq(S)
           /\ Len(q) + 1 \notin DOMAIN q /\ Len(q) + 1 \in DOMAIN Append(q, e)
           /\ Append(q, e)[Len(q) + 1] = e
           /\ \A k \in DOMAIN q : k \in DOMAIN Append(q, e) /\ Append(q, e)[k] = q[k]
           /\ \A k \in DOMAIN Append(q, e) : k \in DOMAIN q \/ k = Len(q) + 1
<1>1. /\ Append(q, e) \in Seq(S) /\ Len(Append(q, e)) = Len(q) + 1
      /\ Append(q, e)[Len(q) + 1] = e
      /\ \A k \in 1..Len(q) : Append(q, e)[k] = q[k]
    BY AppendProperties
<1>2. Len(q) \in Nat /\ DOMAIN q = 1..Len(q) /\ DOMAIN Append(q, e) = 1..(Len(q) + 1)
    BY <1>1, LenProperties
<1> QED
    BY <1>1, <1>2
=============================================================================
