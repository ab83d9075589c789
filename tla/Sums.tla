--------------------------------- MODULE Sums ---------------------------------
(***************************************************************************)
(* What every proof about a sum needs: SumFunctionOnSet(f, S) of the       *)
(* community modules is a fold, a function on the subsets of S defined by  *)
(* recursion.  A smallest counterexample stands in for induction: the      *)
(* strict subsets of a finite set are well founded, so that a nonempty set *)
(* of them has a smallest one, and no step needs a predicate as parameter. *)
(***************************************************************************)
EXTENDS FiniteSetsExt, FiniteSetTheorems, TLAPS

(* A nonempty set of subsets of a finite set has a minimal one.            *)
LEMMA SmallestSubset ==
  ASSUME NEW S, IsFiniteSet(S), NEW T, T \subseteq SUBSET S, T # {}
  PROVE  \E s \in T : \A u \in T : u \subseteq s => u = s
<1>1. IsWellFoundedOn(StrictSubsetOrdering(S), FiniteSubsetsOf(S))
  BY FS_StrictSubsetOrderingWellFounded
<1>2. T \subseteq FiniteSubsetsOf(S)
  BY FS_FiniteSubsetsOfFinite
<1>3. PICK s \in T : \A u \in T : ~(<<u, s>> \in StrictSubsetOrdering(S))
  BY <1>1, <1>2, WFMin, Zenon
<1>4. ASSUME NEW u \in T, u \subseteq s, u # s
      PROVE  FALSE
  BY <1>3, <1>4 DEF StrictSubsetOrdering
<1> QED
  BY <1>4

(* The element that the fold takes next.                                   *)
Picked(s) == CHOOSE x \in s : TRUE

LEMMA PickedIn ==
  ASSUME NEW s, s # {}
  PROVE  Picked(s) \in s
BY DEF Picked

(* g is the function that the definition of the fold describes.            *)
Iterates(g, f, S) ==
  g = [s \in SUBSET S |-> IF s = {} THEN 0
                          ELSE f[Picked(s)] + g[s \ {Picked(s)}]]

LEMMA SumIsIter ==
  ASSUME NEW f, NEW S, \E g : Iterates(g, f, S)
  PROVE  \E g : Iterates(g, f, S) /\ SumFunctionOnSet(f, S) = g[S]
<1> DEFINE it == CHOOSE g : g = [s \in SUBSET S |-> IF s = {} THEN 0
                          ELSE f[CHOOSE x \in s : TRUE] + g[s \ {CHOOSE x \in s : TRUE}]]
<1>1. SumFunctionOnSet(f, S) = it[S]
  BY DEF SumFunctionOnSet, FoldFunctionOnSet, MapThenFoldSet
<1>2. it = CHOOSE g : Iterates(g, f, S)
  BY Zenon DEF Iterates, Picked
<1> HIDE DEF it
<1>3. Iterates(it, f, S)
  BY <1>2
<1> QED
  BY <1>1, <1>3

LEMMA IterStep ==
  ASSUME NEW f, NEW S, NEW g, Iterates(g, f, S), NEW s \in SUBSET S
  PROVE  g[s] = IF s = {} THEN 0 ELSE f[Picked(s)] + g[s \ {Picked(s)}]
BY DEF Iterates

LEMMA IterEmpty ==
  ASSUME NEW f, NEW S, NEW g, Iterates(g, f, S)
  PROVE  g[{}] = 0
BY DEF Iterates

(* Two such functions agree where both are defined.                        *)
LEMMA IterUnique ==
  ASSUME NEW f, NEW S, IsFiniteSet(S), NEW g, Iterates(g, f, S),
         NEW U, S \subseteq U, NEW h, Iterates(h, f, U)
  PROVE  \A s \in SUBSET S : g[s] = h[s]
<1> DEFINE T == {s \in SUBSET S : g[s] # h[s]}
<1> SUFFICES ASSUME T # {} PROVE FALSE
  OBVIOUS
<1>0. T \subseteq SUBSET S
  OBVIOUS
<1>1. PICK s \in T : \A u \in T : u \subseteq s => u = s
  <2> HIDE DEF T
  <2> QED
    BY <1>0, SmallestSubset
<1>2. s \in SUBSET S /\ s \in SUBSET U
  BY <1>1
<1>3. CASE s = {}
  BY <1>1, <1>3, IterEmpty
<1>4. CASE s # {}
  <2>1. s \ {Picked(s)} \notin T
    BY <1>1, <1>4, PickedIn
  <2>2. g[s \ {Picked(s)}] = h[s \ {Picked(s)}]
    BY <1>2, <2>1
  <2>3. g[s] = f[Picked(s)] + g[s \ {Picked(s)}]
    BY <1>2, <1>4, IterStep
  <2>4. h[s] = f[Picked(s)] + h[s \ {Picked(s)}]
    BY <1>2, <1>4, IterStep
  <2> QED
    BY <1>1, <2>2, <2>3, <2>4
<1> QED
  BY <1>3, <1>4

(* There is one, hence the fold is what its equation says.                 *)
LEMMA IterExists ==
  ASSUME NEW f, NEW S, IsFiniteSet(S)
  PROVE  \E g : Iterates(g, f, S)
<1> DEFINE T == {s \in SUBSET S : ~\E g : Iterates(g, f, s)}
<1> SUFFICES ASSUME T # {} PROVE FALSE
  BY Zenon
<1>0. T \subseteq SUBSET S
  OBVIOUS
<1>1. PICK s \in T : \A u \in T : u \subseteq s => u = s
  <2> HIDE DEF T
  <2> QED
    BY <1>0, SmallestSubset
<1> DEFINE G(u) == CHOOSE g : Iterates(g, f, u)
<1>2. ASSUME NEW u \in SUBSET s, u # s
      PROVE  Iterates(G(u), f, u) /\ IsFiniteSet(u)
  <2>1. u \in SUBSET S /\ u \notin T
    BY <1>1, <1>2
  <2>2. \E g : Iterates(g, f, u)
    BY <2>1
  <2>3. IsFiniteSet(u)
    BY <2>1, FS_Subset
  <2> QED
    BY <2>2, <2>3
<1> HIDE DEF G
<1>3. ASSUME NEW u \in SUBSET s, u # s, u # {}
      PROVE  G(u)[u] = f[Picked(u)] + G(u \ {Picked(u)})[u \ {Picked(u)}]
  <2>1. Picked(u) \in u
    BY <1>3, PickedIn
  <2> DEFINE v == u \ {Picked(u)}
  <2>2. v \in SUBSET s /\ v # s /\ v \subseteq u
    BY <1>3, <2>1
  <2>3. Iterates(G(u), f, u) /\ Iterates(G(v), f, v) /\ IsFiniteSet(v)
    BY <1>2, <1>3, <2>2
  <2>4. v \in SUBSET v
    OBVIOUS
  <2> HIDE DEF v
  <2>5. G(v)[v] = G(u)[v]
    BY <2>2, <2>3, <2>4, IterUnique
  <2>6. u \in SUBSET u
    OBVIOUS
  <2>7. G(u)[u] = f[Picked(u)] + G(u)[v]
    BY <1>3, <2>3, <2>6, IterStep DEF v
  <2> QED
    BY <2>5, <2>7 DEF v
<1> DEFINE h == [u \in SUBSET s |-> IF u = {} THEN 0
                   ELSE f[Picked(u)] + G(u \ {Picked(u)})[u \ {Picked(u)}]]
<1>4. ASSUME NEW u \in SUBSET s, u # {}
      PROVE  h[u \ {Picked(u)}] = G(u \ {Picked(u)})[u \ {Picked(u)}]
  <2>1. Picked(u) \in u
    BY <1>4, PickedIn
  <2> DEFINE v == u \ {Picked(u)}
  <2>2. v \in SUBSET s /\ v # s /\ v \in SUBSET v
    BY <1>4, <2>1
  <2>3. CASE v = {}
    <3>1. Iterates(G(v), f, v)
      BY <1>2, <2>2
    <3>2. G(v)[v] = 0
      BY <2>3, <3>1, IterEmpty
    <3> QED
      BY <2>2, <2>3, <3>2
  <2>4. CASE v # {}
    BY <1>3, <2>2, <2>4
  <2> QED
    BY <2>3, <2>4
<1>5. h = [u \in SUBSET s |-> IF u = {} THEN 0 ELSE f[Picked(u)] + h[u \ {Picked(u)}]]
  BY <1>4
<1>6. Iterates(h, f, s)
  <2> HIDE DEF h
  <2> QED BY <1>5 DEF Iterates
<1> QED
  BY <1>1, <1>6

(* The equation of the fold.                                               *)
LEMMA SumOfPicked ==
  ASSUME NEW f, NEW S, IsFiniteSet(S)
  PROVE  SumFunctionOnSet(f, S) =
           IF S = {} THEN 0
           ELSE f[Picked(S)] + SumFunctionOnSet(f, S \ {Picked(S)})
<1>1. PICK g : Iterates(g, f, S) /\ SumFunctionOnSet(f, S) = g[S]
  BY IterExists, SumIsIter
<1>2. S \in SUBSET S
  OBVIOUS
<1>3. CASE S = {}
  BY <1>1, <1>3, IterEmpty
<1>4. CASE S # {}
  <2> DEFINE V == S \ {Picked(S)}
  <2>1. IsFiniteSet(V)
    BY FS_RemoveElement
  <2> HIDE DEF V
  <2>2. PICK h : Iterates(h, f, V) /\ SumFunctionOnSet(f, V) = h[V]
    BY <2>1, IterExists, SumIsIter
  <2>3. h[V] = g[V]
    <3>1. V \in SUBSET V /\ V \subseteq S
      BY DEF V
    <3> QED
      BY <1>1, <2>1, <2>2, <3>1, IterUnique
  <2> QED
    BY <1>1, <1>2, <1>4, <2>2, <2>3, IterStep DEF V
<1> QED
  BY <1>3, <1>4

LEMMA SumEmpty == \A f : SumFunctionOnSet(f, {}) = 0
BY SumOfPicked, FS_EmptySet

LEMMA SumType ==
  ASSUME NEW f, NEW S, IsFiniteSet(S), \A x \in S : f[x] \in Int
  PROVE  SumFunctionOnSet(f, S) \in Int
<1> DEFINE T == {s \in SUBSET S : SumFunctionOnSet(f, s) \notin Int}
<1> SUFFICES ASSUME T # {} PROVE FALSE
  OBVIOUS
<1>0. T \subseteq SUBSET S
  OBVIOUS
<1>1. PICK s \in T : \A u \in T : u \subseteq s => u = s
  <2> HIDE DEF T
  <2> QED
    BY <1>0, SmallestSubset
<1>2. s # {}
  <2>1. SumFunctionOnSet(f, {}) \in Int
    BY SumEmpty
  <2> QED
    BY <1>1, <2>1
<1>3. Picked(s) \in s /\ IsFiniteSet(s)
  BY <1>1, <1>2, PickedIn, FS_Subset
<1>4. s \ {Picked(s)} \notin T
  BY <1>1, <1>3
<1>5. SumFunctionOnSet(f, s \ {Picked(s)}) \in Int /\ f[Picked(s)] \in Int
  BY <1>3, <1>4
<1> QED
  BY <1>1, <1>2, <1>3, <1>5, SumOfPicked

(* Any element can be taken first.                                         *)
LEMMA SumRemove ==
  ASSUME NEW f, NEW S, IsFiniteSet(S), \A x \in S : f[x] \in Int, NEW a \in S
  PROVE  SumFunctionOnSet(f, S) = f[a] + SumFunctionOnSet(f, S \ {a})
<1> DEFINE T == {s \in SUBSET S : \E x \in s :
                   SumFunctionOnSet(f, s) # f[x] + SumFunctionOnSet(f, s \ {x})}
<1> SUFFICES ASSUME T # {} PROVE FALSE
  OBVIOUS
<1>0. T \subseteq SUBSET S
  OBVIOUS
<1>1. PICK s \in T : \A u \in T : u \subseteq s => u = s
  <2> HIDE DEF T
  <2> QED
    BY <1>0, SmallestSubset
<1>2. PICK x \in s : SumFunctionOnSet(f, s) # f[x] + SumFunctionOnSet(f, s \ {x})
  BY <1>1
<1> DEFINE y == Picked(s)
<1>3. y \in s /\ s \in SUBSET S /\ IsFiniteSet(s)
  BY <1>1, <1>2, PickedIn, FS_Subset
<1>4. SumFunctionOnSet(f, s) = f[y] + SumFunctionOnSet(f, s \ {y})
  BY <1>2, <1>3, SumOfPicked
<1>5. x # y
  BY <1>2, <1>4
<1> HIDE DEF y
<1>6. s \ {y} \notin T /\ s \ {x} \notin T
  BY <1>1, <1>2, <1>3
<1>7. SumFunctionOnSet(f, s \ {y}) = f[x] + SumFunctionOnSet(f, (s \ {y}) \ {x})
  BY <1>2, <1>3, <1>5, <1>6
<1>8. SumFunctionOnSet(f, s \ {x}) = f[y] + SumFunctionOnSet(f, (s \ {x}) \ {y})
  BY <1>2, <1>3, <1>5, <1>6
<1>9. (s \ {x}) \ {y} = (s \ {y}) \ {x} /\ (s \ {x}) \ {y} \in SUBSET S
  BY <1>3
<1>10. SumFunctionOnSet(f, (s \ {x}) \ {y}) \in Int
  BY <1>9, FS_Subset, SumType
<1>11. f[x] \in Int /\ f[y] \in Int
  BY <1>2, <1>3
<1>12. \A i, j, k \in Int : i + (j + k) = j + (i + k)
  OBVIOUS
<1>13. SumFunctionOnSet(f, s) = f[x] + SumFunctionOnSet(f, s \ {x})
  <2> DEFINE rest == SumFunctionOnSet(f, (s \ {x}) \ {y})
  <2>1. SumFunctionOnSet(f, s) = f[y] + (f[x] + rest)
    BY <1>4, <1>7, <1>9 DEF y
  <2>2. SumFunctionOnSet(f, s \ {x}) = f[y] + rest
    BY <1>8
  <2>3. f[y] + (f[x] + rest) = f[x] + (f[y] + rest)
    BY <1>10, <1>11, <1>12
  <2> QED
    BY <2>1, <2>2, <2>3
<1> QED
  BY <1>2, <1>13

LEMMA SumAdd ==
  ASSUME NEW f, NEW S, IsFiniteSet(S), \A x \in S : f[x] \in Int,
         NEW a, a \notin S, f[a] \in Int
  PROVE  SumFunctionOnSet(f, S \cup {a}) = SumFunctionOnSet(f, S) + f[a]
<1>1. IsFiniteSet(S \cup {a})
  BY FS_AddElement
<1>2. (S \cup {a}) \ {a} = S
  OBVIOUS
<1>3. SumFunctionOnSet(f, S) \in Int
  BY SumType
<1>4. SumFunctionOnSet(f, S \cup {a}) = f[a] + SumFunctionOnSet(f, S)
  <2> DEFINE U == S \cup {a}
  <2>1. IsFiniteSet(U) /\ a \in U /\ U \ {a} = S /\ \A x \in U : f[x] \in Int
    BY <1>1, <1>2
  <2> HIDE DEF U
  <2>2. SumFunctionOnSet(f, U) = f[a] + SumFunctionOnSet(f, U \ {a})
    BY <2>1, SumRemove
  <2> QED
    BY <2>1, <2>2 DEF U
<1> QED
  BY <1>3, <1>4

(* A sum depends on the values alone and grows with each of them.          *)
LEMMA SumMonotonic ==
  ASSUME NEW f, NEW g, NEW S, IsFiniteSet(S),
         \A x \in S : f[x] \in Int /\ g[x] \in Int /\ f[x] <= g[x]
  PROVE  SumFunctionOnSet(f, S) <= SumFunctionOnSet(g, S)
<1> DEFINE T == {s \in SUBSET S : ~(SumFunctionOnSet(f, s) <= SumFunctionOnSet(g, s))}
<1> SUFFICES ASSUME T # {} PROVE FALSE
  OBVIOUS
<1>0. T \subseteq SUBSET S
  OBVIOUS
<1>1. PICK s \in T : \A u \in T : u \subseteq s => u = s
  <2> HIDE DEF T
  <2> QED
    BY <1>0, SmallestSubset
<1>2. s # {}
  <2>1. SumFunctionOnSet(f, {}) <= SumFunctionOnSet(g, {})
    BY SumEmpty
  <2> QED
    BY <1>1, <2>1
<1> DEFINE y == Picked(s)
           r == s \ {y}
<1>3. y \in s /\ IsFiniteSet(s) /\ s \in SUBSET S
  BY <1>1, <1>2, PickedIn, FS_Subset
<1>4. r \notin T /\ r \in SUBSET S /\ IsFiniteSet(r)
  BY <1>1, <1>3, FS_Subset
<1>5. SumFunctionOnSet(f, r) <= SumFunctionOnSet(g, r)
  BY <1>4
<1>6. SumFunctionOnSet(f, r) \in Int /\ SumFunctionOnSet(g, r) \in Int
  <2> HIDE DEF r
  <2> QED
    BY <1>4, SumType
<1>7. f[y] \in Int /\ g[y] \in Int /\ f[y] <= g[y]
  BY <1>3
<1>8. /\ SumFunctionOnSet(f, s) = f[y] + SumFunctionOnSet(f, r)
      /\ SumFunctionOnSet(g, s) = g[y] + SumFunctionOnSet(g, r)
  BY <1>2, <1>3, SumOfPicked
<1>9. SumFunctionOnSet(f, s) <= SumFunctionOnSet(g, s)
  <2> HIDE DEF y, r
  <2> QED
    BY <1>5, <1>6, <1>7, <1>8
<1> QED
  BY <1>1, <1>9

LEMMA SumSame ==
  ASSUME NEW f, NEW g, NEW S, IsFiniteSet(S),
         \A x \in S : f[x] \in Int /\ g[x] = f[x]
  PROVE  SumFunctionOnSet(g, S) = SumFunctionOnSet(f, S)
<1>1. SumFunctionOnSet(f, S) <= SumFunctionOnSet(g, S)
  BY SumMonotonic
<1>2. SumFunctionOnSet(g, S) <= SumFunctionOnSet(f, S)
  BY SumMonotonic
<1>3. SumFunctionOnSet(f, S) \in Int /\ SumFunctionOnSet(g, S) \in Int
  BY SumType
<1> QED
  BY <1>1, <1>2, <1>3

LEMMA SumNotNegative ==
  ASSUME NEW f, NEW S, IsFiniteSet(S), \A x \in S : f[x] \in Int /\ f[x] >= 0
  PROVE  SumFunctionOnSet(f, S) \in Nat
<1> DEFINE T == {s \in SUBSET S : SumFunctionOnSet(f, s) \notin Nat}
<1> SUFFICES ASSUME T # {} PROVE FALSE
  OBVIOUS
<1>0. T \subseteq SUBSET S
  OBVIOUS
<1>1. PICK s \in T : \A u \in T : u \subseteq s => u = s
  <2> HIDE DEF T
  <2> QED
    BY <1>0, SmallestSubset
<1>2. s # {}
  <2>1. SumFunctionOnSet(f, {}) \in Nat
    BY SumEmpty
  <2> QED
    BY <1>1, <2>1
<1>3. Picked(s) \in s /\ IsFiniteSet(s)
  BY <1>1, <1>2, PickedIn, FS_Subset
<1>4. s \ {Picked(s)} \notin T
  BY <1>1, <1>3
<1>5. SumFunctionOnSet(f, s \ {Picked(s)}) \in Nat /\ f[Picked(s)] \in Nat
  BY <1>3, <1>4
<1> QED
  BY <1>1, <1>2, <1>3, <1>5, SumOfPicked

(* One value of many changes.                                              *)
LEMMA SumChange ==
  ASSUME NEW f, NEW g, NEW S, IsFiniteSet(S), NEW a \in S,
         \A x \in S : f[x] \in Int /\ g[x] \in Int,
         \A x \in S \ {a} : g[x] = f[x]
  PROVE  SumFunctionOnSet(g, S) = SumFunctionOnSet(f, S) + (g[a] - f[a])
<1> DEFINE R == S \ {a}
<1>1. IsFiniteSet(R) /\ \A x \in R : f[x] \in Int /\ g[x] = f[x]
  BY FS_RemoveElement
<1>2. /\ SumFunctionOnSet(f, S) = f[a] + SumFunctionOnSet(f, R)
      /\ SumFunctionOnSet(g, S) = g[a] + SumFunctionOnSet(g, R)
  BY SumRemove
<1> HIDE DEF R
<1>3. SumFunctionOnSet(g, R) = SumFunctionOnSet(f, R)
  BY <1>1, SumSame
<1>4. SumFunctionOnSet(f, R) \in Int
  BY <1>1, SumType
<1>5. f[a] \in Int /\ g[a] \in Int
  OBVIOUS
<1> QED
  BY <1>2, <1>3, <1>4, <1>5

LEMMA SumOfZeros ==
  ASSUME NEW f, NEW S, IsFiniteSet(S), \A x \in S : f[x] = 0
  PROVE  SumFunctionOnSet(f, S) = 0
<1> DEFINE T == {s \in SUBSET S : SumFunctionOnSet(f, s) # 0}
<1> SUFFICES ASSUME T # {} PROVE FALSE
  OBVIOUS
<1>0. T \subseteq SUBSET S
  OBVIOUS
<1>1. PICK s \in T : \A u \in T : u \subseteq s => u = s
  <2> HIDE DEF T
  <2> QED
    BY <1>0, SmallestSubset
<1>2. s # {}
  BY <1>1, SumEmpty
<1>3. Picked(s) \in s /\ IsFiniteSet(s)
  BY <1>1, <1>2, PickedIn, FS_Subset
<1>4. s \ {Picked(s)} \notin T
  BY <1>1, <1>3
<1>5. SumFunctionOnSet(f, s \ {Picked(s)}) = 0 /\ f[Picked(s)] = 0
  BY <1>3, <1>4
<1>6. SumFunctionOnSet(f, s) = 0
  BY <1>2, <1>3, <1>5, SumOfPicked
<1> QED
  BY <1>1, <1>6

(* The sum over two sets that have nothing in common.                      *)
LEMMA SumOfUnion ==
  ASSUME NEW f, NEW S, IsFiniteSet(S), NEW R, IsFiniteSet(R), S \cap R = {},
         \A x \in S \cup R : f[x] \in Int
  PROVE  SumFunctionOnSet(f, S \cup R) = SumFunctionOnSet(f, S) + SumFunctionOnSet(f, R)
<1> DEFINE T == {s \in SUBSET S : SumFunctionOnSet(f, s \cup R)
                                    # SumFunctionOnSet(f, s) + SumFunctionOnSet(f, R)}
<1> SUFFICES ASSUME T # {} PROVE FALSE
  OBVIOUS
<1>0. T \subseteq SUBSET S
  OBVIOUS
<1>1. PICK s \in T : \A u \in T : u \subseteq s => u = s
  <2> HIDE DEF T
  <2> QED
    BY <1>0, SmallestSubset
<1>r. SumFunctionOnSet(f, R) \in Int
  BY SumType
<1>2. s # {}
  <2>1. SumFunctionOnSet(f, {}) = 0 /\ {} \cup R = R
    BY SumEmpty
  <2>2. SumFunctionOnSet(f, {} \cup R) = SumFunctionOnSet(f, {}) + SumFunctionOnSet(f, R)
    BY <2>1, <1>r
  <2> QED
    BY <1>1, <2>2
<1>3. PICK y : y \in s
  BY <1>2
<1> DEFINE v == s \ {y}
<1>4. v \in SUBSET S /\ v \notin T /\ s \subseteq S /\ y \in S
  BY <1>1, <1>3
<1>5. SumFunctionOnSet(f, v \cup R) = SumFunctionOnSet(f, v) + SumFunctionOnSet(f, R)
  BY <1>4
<1>6. IsFiniteSet(s) /\ IsFiniteSet(v) /\ IsFiniteSet(s \cup R)
  BY <1>4, FS_Subset, FS_Union
<1>7. SumFunctionOnSet(f, s) = f[y] + SumFunctionOnSet(f, v)
  BY <1>3, <1>4, <1>6, SumRemove
<1>8. SumFunctionOnSet(f, s \cup R) = f[y] + SumFunctionOnSet(f, v \cup R)
  <2> DEFINE w == s \cup R
  <2>1. IsFiniteSet(w) /\ y \in w /\ w \ {y} = v \cup R /\ \A x \in w : f[x] \in Int
    BY <1>3, <1>4, <1>6
  <2> HIDE DEF w
  <2>2. SumFunctionOnSet(f, w) = f[y] + SumFunctionOnSet(f, w \ {y})
    BY <2>1, SumRemove
  <2> QED
    BY <2>1, <2>2 DEF w
<1>9. SumFunctionOnSet(f, v) \in Int /\ f[y] \in Int
  <2>1. \A x \in v : f[x] \in Int
    BY <1>4
  <2> QED
    BY <1>4, <1>6, <2>1, SumType
<1>10. SumFunctionOnSet(f, s \cup R) = SumFunctionOnSet(f, s) + SumFunctionOnSet(f, R)
  BY <1>5, <1>7, <1>8, <1>9, <1>r
<1> QED
  BY <1>1, <1>10

(* Part of a sum of what is not negative is at most the whole.             *)
LEMMA SumOfPart ==
  ASSUME NEW f, NEW S, IsFiniteSet(S), \A x \in S : f[x] \in Nat, NEW R, R \subseteq S
  PROVE  /\ SumFunctionOnSet(f, R) \in Nat
         /\ SumFunctionOnSet(f, S) \in Nat
         /\ SumFunctionOnSet(f, R) <= SumFunctionOnSet(f, S)
<1> DEFINE Q == S \ R
<1>1. IsFiniteSet(R) /\ IsFiniteSet(Q) /\ R \cap Q = {} /\ R \cup Q = S
  BY FS_Subset
<1>2. \A x \in R \cup Q : f[x] \in Int /\ f[x] >= 0
  BY <1>1
<1> HIDE DEF Q
<1>3. SumFunctionOnSet(f, R) \in Nat /\ SumFunctionOnSet(f, Q) \in Nat
  BY <1>1, <1>2, SumNotNegative
<1>4. SumFunctionOnSet(f, R \cup Q) = SumFunctionOnSet(f, R) + SumFunctionOnSet(f, Q)
  BY <1>1, <1>2, SumOfUnion
<1>5. SumFunctionOnSet(f, S) = SumFunctionOnSet(f, R) + SumFunctionOnSet(f, Q)
  BY <1>1, <1>4
<1> QED
  BY <1>3, <1>5

(* What a function takes a finite set to is finite.                        *)
LEMMA ImageFinite ==
  ASSUME NEW S, IsFiniteSet(S), NEW f
  PROVE  IsFiniteSet({f[x] : x \in S})
<1> DEFINE T == {f[x] : x \in S}
<1> DEFINE h == [x \in S |-> f[x]]
<1>1. h \in Surjection(S, T)
  BY DEF Surjection
<1> QED
  BY <1>1, FS_Surjection

(* A sum over what a function takes a set to, one to one, is a sum over    *)
(* the set.                                                                *)
LEMMA SumOfImage ==
  ASSUME NEW S, IsFiniteSet(S), NEW c, NEW f,
         \A x, y \in S : c[x] = c[y] => x = y, \A x \in S : f[c[x]] \in Int
  PROVE  SumFunctionOnSet(f, {c[x] : x \in S}) = SumFunctionOnSet([x \in S |-> f[c[x]]], S)
<1> DEFINE w == [x \in S |-> f[c[x]]]
<1> DEFINE Image(s) == {c[x] : x \in s}
<1> DEFINE T == {s \in SUBSET S : SumFunctionOnSet(f, Image(s)) # SumFunctionOnSet(w, s)}
<1>0. T \subseteq SUBSET S
  OBVIOUS
<1>1. SUFFICES ASSUME T # {} PROVE FALSE
  <2>1. S \notin T
    BY <1>1
  <2> QED
    BY <2>1
<1>2. PICK s \in T : \A u \in T : u \subseteq s => u = s
  <2> HIDE DEF T
  <2> QED
    BY <1>0, <1>1, SmallestSubset
<1>3. s \subseteq S /\ IsFiniteSet(s)
  BY <1>0, FS_Subset
<1>4. PICK a : a \in s
  <2>1. s = {} => Image(s) = {}
    OBVIOUS
  <2>2. s # {}
    <3> HIDE DEF Image
    <3> QED
      BY <1>2, <2>1, SumEmpty
  <2> QED
    BY <2>2
<1> DEFINE r == s \ {a}
<1>5. SumFunctionOnSet(f, Image(r)) = SumFunctionOnSet(w, r)
  <2>1. r \subseteq s /\ r # s /\ r \in SUBSET S
    BY <1>3, <1>4
  <2>2. r \notin T
    <3> HIDE DEF r, T
    <3> QED
      BY <1>2, <2>1
  <2> QED
    BY <2>1, <2>2
<1>6. SumFunctionOnSet(w, s) = w[a] + SumFunctionOnSet(w, r)
  <2>1. \A x \in s : w[x] \in Int
    BY <1>3
  <2> HIDE DEF w
  <2> QED
    BY <1>3, <1>4, <2>1, SumRemove
<1>7. SumFunctionOnSet(f, Image(s)) = f[c[a]] + SumFunctionOnSet(f, Image(r))
  <2>1. IsFiniteSet(Image(s)) /\ c[a] \in Image(s)
    BY <1>3, <1>4, ImageFinite
  <2>2. \A y \in Image(s) : f[y] \in Int
    BY <1>3
  <2>3. Image(s) \ {c[a]} = Image(r)
    <3>1. \A x \in s : c[x] = c[a] => x = a
      BY <1>3, <1>4
    <3> QED
      BY <1>4, <3>1
  <2> HIDE DEF Image, r
  <2>4. SumFunctionOnSet(f, Image(s)) = f[c[a]] + SumFunctionOnSet(f, Image(s) \ {c[a]})
    BY <2>1, <2>2, SumRemove
  <2> QED
    BY <2>3, <2>4
<1>8. w[a] = f[c[a]]
  BY <1>3, <1>4
<1>9. SumFunctionOnSet(f, Image(s)) # SumFunctionOnSet(w, s)
  BY <1>2
<1> QED
  <2> HIDE DEF w, Image, r
  <2> QED
    BY <1>5, <1>6, <1>7, <1>8, <1>9
================================================================================
