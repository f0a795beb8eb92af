----------------------------- MODULE FoldTheorems -----------------------------
(***************************************************************************)
(* Induction over numbers and finite sets, with the property given as a set,  *)
(* and what it says of folds: MapThenFoldSet takes an element at a time out   *)
(* of a set, chosen by the set alone; FoldLeft takes the last position of a    *)
(* sequence, and a sum is a fold.                                            *)
(***************************************************************************)
EXTENDS FiniteSetsExt, FiniteSetTheorems, TLAPS

\* A set of numbers has a least one.
LEMMA Earliest ==
    ASSUME NEW D, D \subseteq Nat, D # {}
    PROVE  \E d \in D : \A e \in D : d <= e
  <1>1. \E d \in D : \A e \in D : ~(<<e, d>> \in OpToRel(<, Nat))
    BY WFMin, NatLessThanWellFounded, Zenon
  <1>2. OpToRel(<, Nat) = {m \in Nat \X Nat : m[1] < m[2]}
    BY Zenon DEF OpToRel
  <1>3. \A d, e \in D : e < d => <<e, d>> \in {m \in Nat \X Nat : m[1] < m[2]}
    OBVIOUS
  <1>4. \E d \in D : \A e \in D : ~(e < d)
    BY <1>1, <1>2, <1>3, Zenon
  <1>. QED
    BY <1>4

\* What holds of 0, and of n + 1 whenever of n, holds of every number.
LEMMA NumberByNumber ==
    ASSUME NEW X, 0 \in X, \A n \in Nat : n \in X => n + 1 \in X
    PROVE  Nat \subseteq X
  <1>. DEFINE D == Nat \ X
  <1>. SUFFICES ASSUME D # {} PROVE FALSE
    OBVIOUS
  <1>1. D \subseteq Nat
    OBVIOUS
  <1>2. PICK d \in D : \A e \in D : d <= e
    BY <1>1, Earliest
  <1>3. d \in Nat /\ d - 1 \in Nat /\ d - 1 \notin D
    BY <1>2
  <1>. QED
    BY <1>3

\* p takes an element out of each set.
Picks(p, M) == \A s \in SUBSET M : s # {} => p[s] \in s

\* f goes down by p, and does step with the element and the rest.
IsFold(f, M, p, base, step) ==
    \A s \in SUBSET M : f[s] = IF s = {} THEN base ELSE step[<<s, f[s \ {p[s]}]>>]

\* Whatever p takes out of a set, the subsets of M are reached from the empty one.
LEMMA ElementByElement ==
    ASSUME NEW M, IsFiniteSet(M), NEW p, Picks(p, M),
           NEW X, {} \in X, \A s \in SUBSET M : s # {} /\ s \ {p[s]} \in X => s \in X
    PROVE  SUBSET M \subseteq X
  <1>. DEFINE Y == {n \in Nat : \A s \in SUBSET M : Cardinality(s) <= n => s \in X}
  <1>1. \A s \in SUBSET M : IsFiniteSet(s) /\ Cardinality(s) \in Nat
    BY FS_Subset, FS_CardinalityType
  <1>2. 0 \in Y
    BY <1>1, FS_EmptySet
  <1>3. ASSUME NEW n \in Nat, n \in Y
        PROVE  n + 1 \in Y
    <2>1. ASSUME NEW s \in SUBSET M, s # {}, Cardinality(s) <= n + 1
          PROVE  s \in X
      <3>1. Cardinality(s \ {p[s]}) = Cardinality(s) - 1
        BY <1>1, <2>1, FS_RemoveElement DEF Picks
      <3>. QED
        BY <1>1, <1>3, <2>1, <3>1
    <2>2. \A s \in SUBSET M : Cardinality(s) <= n + 1 => s \in X
      BY <2>1
    <2>. QED
      BY <2>2
  <1>4. Nat \subseteq Y
    BY <1>2, <1>3, NumberByNumber
  <1>. QED
    BY <1>1, <1>4

\* A function that goes down by p exists, whatever it does with the element.
LEMMA FoldExists ==
    ASSUME NEW M, IsFiniteSet(M), NEW p, Picks(p, M),
           NEW V, NEW base \in V, NEW step \in [(SUBSET M) \X V -> V]
    PROVE  \E f \in [SUBSET M -> V] : IsFold(f, M, p, base, step)
  <1>. DEFINE D(n) == {s \in SUBSET M : Cardinality(s) <= n}
              Fits(f, n) == \A s \in D(n) : f[s] = IF s = {} THEN base
                                                   ELSE step[<<s, f[s \ {p[s]}]>>]
              Y == {n \in Nat : \E f \in [SUBSET M -> V] : Fits(f, n)}
  <1>1. \A s \in SUBSET M : IsFiniteSet(s) /\ Cardinality(s) \in Nat
    BY FS_Subset, FS_CardinalityType
  <1>2. 0 \in Y
    <2>. DEFINE f == [s \in SUBSET M |-> base]
    <2>1. \A s \in D(0) : s = {}
      BY <1>1, FS_EmptySet
    <2>2. f \in [SUBSET M -> V] /\ Fits(f, 0)
      BY <2>1
    <2>. HIDE DEF Fits, f
    <2>. QED
      BY <2>2
  <1>3. ASSUME NEW n \in Nat, n \in Y
        PROVE  n + 1 \in Y
    <2>1. PICK f \in [SUBSET M -> V] : Fits(f, n)
      BY <1>3
    <2>. DEFINE g == [s \in SUBSET M |-> IF s = {} THEN base ELSE step[<<s, f[s \ {p[s]}]>>]]
    <2>2. g \in [SUBSET M -> V]
      OBVIOUS
    <2>3. ASSUME NEW s \in D(n + 1), s # {}
          PROVE  g[s \ {p[s]}] = f[s \ {p[s]}]
      <3>1. Cardinality(s \ {p[s]}) = Cardinality(s) - 1
        BY <1>1, <2>3, FS_RemoveElement DEF Picks
      <3>2. s \ {p[s]} \in D(n)
        BY <1>1, <3>1
      <3>. QED
        BY <2>1, <3>2
    <2>4. Fits(g, n + 1)
      BY <2>3
    <2>. HIDE DEF Fits, g
    <2>. QED
      BY <2>2, <2>4
  <1>4. Nat \subseteq Y
    <2>. HIDE DEF Y
    <2>. QED
      BY <1>2, <1>3, NumberByNumber
  <1>5. PICK f \in [SUBSET M -> V] : Fits(f, Cardinality(M))
    BY <1>1, <1>4
  <1>6. D(Cardinality(M)) = SUBSET M
    BY <1>1, FS_Subset
  <1>. QED
    BY <1>5, <1>6 DEF IsFold

-----------------------------------------------------------------------------
(* Sequences *)

LEMMA LastIsIn ==
    ASSUME NEW n \in Nat, NEW s \in SUBSET (1 .. n), s # {}
    PROVE  Max(s) \in s
  <1>. DEFINE D == {b \in Nat : \A y \in s : y <= b}
  <1>1. n \in D /\ \A y \in s : y \in Nat /\ y > 0
    OBVIOUS
  <1>2. PICK d \in D : \A e \in D : d <= e
    BY <1>1, Earliest
  <1>3. CASE d \in s
    BY <1>1, <1>3 DEF Max
  <1>4. CASE d \notin s
    <2>1. \A y \in s : y <= d - 1
      BY <1>1, <1>4
    <2>2. PICK y \in s : TRUE
      OBVIOUS
    <2>3. d - 1 \in Nat
      BY <1>1, <2>1, <2>2
    <2>. QED
      BY <1>2, <2>1, <2>3
  <1>. QED
    BY <1>3, <1>4

\* FoldLeft takes the positions out of 1 .. n from the last to the first.
LEMMA LastOfInitial ==
    ASSUME NEW k \in Nat
    PROVE  Max(1 .. (k + 1)) = k + 1 /\ (1 .. (k + 1)) \ {k + 1} = 1 .. k /\ 1 .. (k + 1) # {}
  <1>1. k + 1 \in 1 .. (k + 1)
    OBVIOUS
  <1>2. Max(1 .. (k + 1)) \in 1 .. (k + 1) /\ \A y \in 1 .. (k + 1) : Max(1 .. (k + 1)) >= y
    BY <1>1 DEF Max
  <1>3. Max(1 .. (k + 1)) = k + 1
    BY <1>1, <1>2
  <1>4. \A i : i \in (1 .. (k + 1)) \ {k + 1} <=> i \in 1 .. k
    OBVIOUS
  <1>. QED
    BY <1>1, <1>3, <1>4

\* f folds from base, step by step, over the positions 1 .. n.
IsLeftFold(f, n, base, step) ==
    /\ f[{}] = base
    /\ \A s \in SUBSET (1 .. n) : s # {} => f[s] = step[<<Max(s), f[s \ {Max(s)}]>>]

LEMMA LeftFoldExists ==
    ASSUME NEW n \in Nat, NEW V, NEW base \in V, NEW step \in [(1 .. n) \X V -> V]
    PROVE  \E f \in [SUBSET (1 .. n) -> V] : IsLeftFold(f, n, base, step)
  <1>. DEFINE M == 1 .. n
              p == [s \in SUBSET M |-> Max(s)]
              by == [a \in (SUBSET M) \X V |-> IF a[1] = {} THEN base ELSE step[<<Max(a[1]), a[2]>>]]
  <1>1. \A s \in SUBSET M : s # {} => Max(s) \in s
    BY LastIsIn
  <1>2. IsFiniteSet(M)
    BY FS_Interval
  <1>3. Picks(p, M)
    BY <1>1 DEF Picks
  <1>4. by \in [(SUBSET M) \X V -> V]
    <2>1. ASSUME NEW a \in (SUBSET M) \X V, a[1] # {}
          PROVE  step[<<Max(a[1]), a[2]>>] \in V
      <3>1. a[1] \in SUBSET M /\ a[2] \in V
        OBVIOUS
      <3>2. Max(a[1]) \in M
        BY <1>1, <2>1, <3>1
      <3>. QED
        BY <3>1, <3>2
    <2>. QED
      BY <2>1
  <1>5. PICK f \in [SUBSET M -> V] : IsFold(f, M, p, base, by)
    <2>. HIDE DEF by, p, M
    <2>. QED
      BY <1>2, <1>3, <1>4, FoldExists
  <1>6. ASSUME NEW s \in SUBSET M, s # {}
        PROVE  f[s] = step[<<Max(s), f[s \ {Max(s)}]>>]
    <2>1. p[s] = Max(s) /\ f[s \ {Max(s)}] \in V
      OBVIOUS
    <2>2. f[s] = by[<<s, f[s \ {p[s]}]>>]
      BY <1>5, <1>6 DEF IsFold
    <2>3. by[<<s, f[s \ {Max(s)}]>>] = step[<<Max(s), f[s \ {Max(s)}]>>]
      BY <1>6, <2>1
    <2>. QED
      BY <2>1, <2>2, <2>3
  <1>7. f[{}] = base
    BY <1>5 DEF IsFold
  <1>. QED
    BY <1>6, <1>7 DEF IsLeftFold

\* What f does where the rest is in V: it stays there.
FoldsWithin(f, n, V, base, step) ==
    /\ f[{}] = base
    /\ \A s \in SUBSET (1 .. n) :
          s # {} /\ f[s \ {Max(s)}] \in V => f[s] = step[<<Max(s), f[s \ {Max(s)}]>>]

LEMMA LeftFoldTyped ==
    ASSUME NEW n \in Nat, NEW V, NEW base \in V, NEW step \in [(1 .. n) \X V -> V],
           NEW f, FoldsWithin(f, n, V, base, step)
    PROVE  f[1 .. n] \in V
  <1>. DEFINE X == {k \in Nat : k <= n => f[1 .. k] \in V}
  <1>1. 0 \in X
    <2>1. 1 .. 0 = {}
      OBVIOUS
    <2>. QED
      BY <2>1 DEF FoldsWithin
  <1>2. ASSUME NEW k \in Nat, k \in X
        PROVE  k + 1 \in X
    <2>1. CASE k + 1 <= n
      <3>1. PICK s : s = 1 .. (k + 1)
        OBVIOUS
      <3>2. s \in SUBSET (1 .. n) /\ k + 1 \in 1 .. n
        BY <2>1, <3>1
      <3>3. Max(s) = k + 1 /\ s \ {k + 1} = 1 .. k /\ s # {}
        BY <3>1, LastOfInitial
      <3>4. f[1 .. k] \in V
        BY <1>2, <2>1
      <3>5. f[s] = step[<<k + 1, f[1 .. k]>>]
        BY <3>2, <3>3, <3>4 DEF FoldsWithin
      <3>6. f[s] \in V
        BY <3>2, <3>4, <3>5
      <3>. QED
        BY <3>1, <3>6
    <2>. QED
      BY <2>1
  <1>3. Nat \subseteq X
    <2>. HIDE DEF X
    <2>. QED
      BY <1>1, <1>2, NumberByNumber
  <1>. QED
    BY <1>3

-----------------------------------------------------------------------------
(* Sums *)

Weights(w, n) == \A i \in 1 .. n : w[i] \in Nat

Agree(w, v, n) == \A i \in 1 .. n : w[i] = v[i]

\* f sums the weights w of the positions 1 .. n.
IsSum(f, w, n) ==
    /\ f[{}] = 0
    /\ \A s \in SUBSET (1 .. n) : s # {} => f[s] = f[s \ {Max(s)}] + w[Max(s)]

LEMMA SumExists ==
    ASSUME NEW n \in Nat, NEW w, Weights(w, n)
    PROVE  \E f \in [SUBSET (1 .. n) -> Nat] : IsSum(f, w, n)
  <1>. DEFINE step == [a \in (1 .. n) \X Nat |-> a[2] + w[a[1]]]
  <1>1. step \in [(1 .. n) \X Nat -> Nat]
    BY DEF Weights
  <1>2. PICK f \in [SUBSET (1 .. n) -> Nat] : IsLeftFold(f, n, 0, step)
    <2>. HIDE DEF step
    <2>. QED
      BY <1>1, LeftFoldExists
  <1>3. ASSUME NEW s \in SUBSET (1 .. n), s # {}
        PROVE  f[s] = f[s \ {Max(s)}] + w[Max(s)]
    <2>1. Max(s) \in 1 .. n /\ f[s \ {Max(s)}] \in Nat
      BY <1>3, LastIsIn
    <2>2. f[s] = step[<<Max(s), f[s \ {Max(s)}]>>]
      BY <1>2, <1>3 DEF IsLeftFold
    <2>. QED
      BY <2>1, <2>2
  <1>. QED
    BY <1>2, <1>3 DEF IsLeftFold, IsSum

\* Sums up to a position are numbers.
LEMMA SumsAreNat ==
    ASSUME NEW n \in Nat, NEW w, Weights(w, n), NEW f, IsSum(f, w, n)
    PROVE  \A k \in 0 .. n : f[1 .. k] \in Nat /\ (k > 0 => f[1 .. k] = f[1 .. (k - 1)] + w[k])
  <1>. DEFINE X == {k \in Nat : k <= n => f[1 .. k] \in Nat}
  <1>1. ASSUME NEW k \in Nat, k + 1 <= n
        PROVE  f[1 .. (k + 1)] = f[1 .. k] + w[k + 1]
    <2>1. 1 .. (k + 1) \in SUBSET (1 .. n)
      BY <1>1
    <2>. PICK s : s = 1 .. (k + 1)
      OBVIOUS
    <2>2. Max(s) = k + 1 /\ s \ {k + 1} = 1 .. k /\ s # {}
      BY LastOfInitial
    <2>3. f[s] = f[s \ {Max(s)}] + w[Max(s)]
      BY <2>1, <2>2 DEF IsSum
    <2>. QED
      BY <2>2, <2>3
  <1>2. 0 \in X
    <2>1. 1 .. 0 = {}
      OBVIOUS
    <2>. QED
      BY <2>1 DEF IsSum
  <1>3. ASSUME NEW k \in Nat, k \in X
        PROVE  k + 1 \in X
    <2>1. CASE k + 1 <= n
      <3>1. w[k + 1] \in Nat /\ f[1 .. k] \in Nat
        BY <1>3, <2>1 DEF Weights
      <3>. QED
        BY <1>1, <2>1, <3>1
    <2>. QED
      BY <2>1
  <1>4. Nat \subseteq X
    <2>. HIDE DEF X
    <2>. QED
      BY <1>2, <1>3, NumberByNumber
  <1>5. ASSUME NEW k \in 1 .. n
        PROVE  f[1 .. k] = f[1 .. (k - 1)] + w[k]
    <2>1. k - 1 \in Nat /\ (k - 1) + 1 = k /\ (k - 1) + 1 <= n
      OBVIOUS
    <2>2. f[1 .. ((k - 1) + 1)] = f[1 .. (k - 1)] + w[(k - 1) + 1]
      BY <1>1, <2>1
    <2>. QED
      BY <2>1, <2>2
  <1>. QED
    BY <1>4, <1>5

\* Sums of the same weights are the same, also when one goes on.
LEMMA SameSums ==
    ASSUME NEW n \in Nat, NEW m \in Nat, n <= m,
           NEW w, NEW v, Weights(v, m), Agree(w, v, n),
           NEW f, IsSum(f, w, n), NEW g, IsSum(g, v, m)
    PROVE  f[1 .. n] = g[1 .. n]
  <1>. DEFINE X == {k \in Nat : k <= n => g[1 .. k] = f[1 .. k]}
  <1>1. \A k \in 0 .. n : f[1 .. k] \in Nat /\ (k > 0 => f[1 .. k] = f[1 .. (k - 1)] + w[k])
    <2>1. Weights(w, n)
      BY DEF Weights, Agree
    <2>. QED
      BY <2>1, SumsAreNat
  <1>2. \A k \in 0 .. m : g[1 .. k] \in Nat /\ (k > 0 => g[1 .. k] = g[1 .. (k - 1)] + v[k])
    BY SumsAreNat
  <1>3. 0 \in X
    <2>1. 1 .. 0 = {}
      OBVIOUS
    <2>. QED
      BY <2>1 DEF IsSum
  <1>4. ASSUME NEW k \in Nat, k \in X
        PROVE  k + 1 \in X
    <2>1. CASE k + 1 <= n
      <3>1. k + 1 \in 1 .. n /\ k + 1 \in 0 .. n /\ k + 1 \in 0 .. m /\ k + 1 > 0 /\ (k + 1) - 1 = k
        BY <2>1
      <3>2. f[1 .. (k + 1)] = f[1 .. k] + w[k + 1] /\ g[1 .. (k + 1)] = g[1 .. k] + v[k + 1]
        BY <1>1, <1>2, <3>1
      <3>. QED
        BY <1>4, <2>1, <3>1, <3>2 DEF Agree
    <2>. QED
      BY <2>1
  <1>5. Nat \subseteq X
    <2>. HIDE DEF X
    <2>. QED
      BY <1>3, <1>4, NumberByNumber
  <1>. QED
    BY <1>5

\* What is put at the end of a sequence is added to its sum.
LEMMA SumOfLonger ==
    ASSUME NEW n \in Nat, NEW m, m = n + 1,
           NEW w, NEW v, Weights(v, m), Agree(w, v, n),
           NEW f, IsSum(f, w, n), NEW g, IsSum(g, v, m)
    PROVE  g[1 .. m] = f[1 .. n] + v[m]
  <1>1. m \in Nat /\ n <= m
    OBVIOUS
  <1>2. f[1 .. n] = g[1 .. n]
    BY <1>1, SameSums
  <1>3. \A k \in 0 .. m : g[1 .. k] \in Nat /\ (k > 0 => g[1 .. k] = g[1 .. (k - 1)] + v[k])
    BY <1>1, SumsAreNat
  <1>4. m \in 0 .. m /\ m > 0 /\ m - 1 = n
    OBVIOUS
  <1>5. g[1 .. m] = g[1 .. (m - 1)] + v[m]
    BY <1>3, <1>4
  <1>. QED
    BY <1>2, <1>4, <1>5

-----------------------------------------------------------------------------
(* Sums over a set, whatever order its elements are taken in. *)

\* What the community modules' folds over a set take out of it.
Picked(s) == CHOOSE x \in s : TRUE

\* The sum of w over S, and one step of it.
SumOf(w, S) == MapThenSumSet(LAMBDA e : w[e], S)
AddOne(sums, w, s) == IF s = {} THEN 0 ELSE w[Picked(s)] + sums[s \ {Picked(s)}]
SumsOf(f, w, S) == \A s \in SUBSET S : f[s] = AddOne(f, w, s)
Naturals(w, S) == \A e \in S : w[e] \in Nat
AnyTaken(f, w, S) == \A s \in SUBSET S : \A y \in s : f[s] = f[s \ {y}] + w[y]

LEMMA SumOfIsFold ==
    ASSUME NEW w, NEW S
    PROVE  SumOf(w, S) = (CHOOSE sums : sums = [s \in SUBSET S |-> AddOne(sums, w, s)])[S]
  BY DEF SumOf, MapThenSumSet, MapThenFoldSet, Picked, AddOne

LEMMA PicksAre ==
    ASSUME NEW S
    PROVE  \E p : Picks(p, S) /\ \A s \in SUBSET S : p[s] = Picked(s)
  <1>. DEFINE p == [s \in SUBSET S |-> Picked(s)]
  <1>1. \A s \in SUBSET S : p[s] = Picked(s) /\ (s # {} => p[s] \in s)
    BY DEF Picked
  <1>. HIDE DEF p
  <1>. QED
    BY <1>1 DEF Picks

\* A sum over a finite set is what adding its elements one by one gives.
LEMMA SumOfExists ==
    ASSUME NEW S, IsFiniteSet(S), NEW w, Naturals(w, S)
    PROVE  \E f \in [SUBSET S -> Nat] : SumsOf(f, w, S) /\ SumOf(w, S) = f[S]
  <1>1. PICK p : Picks(p, S) /\ \A s \in SUBSET S : p[s] = Picked(s)
    BY PicksAre
  <1>. DEFINE step == [q \in (SUBSET S) \X Nat |-> IF q[1] = {} THEN 0 ELSE w[p[q[1]]] + q[2]]
              F == CHOOSE sums : sums = [s \in SUBSET S |-> AddOne(sums, w, s)]
  <1>2. step \in [(SUBSET S) \X Nat -> Nat]
    <2>1. ASSUME NEW q \in (SUBSET S) \X Nat
          PROVE  (IF q[1] = {} THEN 0 ELSE w[p[q[1]]] + q[2]) \in Nat
      <3>1. q[1] \in SUBSET S /\ q[2] \in Nat
        OBVIOUS
      <3>2. q[1] # {} => w[p[q[1]]] \in Nat
        BY <1>1, <3>1 DEF Picks, Naturals
      <3>. QED
        BY <3>1, <3>2
    <2>. QED
      BY <2>1
  <1>3. PICK f \in [SUBSET S -> Nat] : IsFold(f, S, p, 0, step)
    <2>. HIDE DEF step
    <2>. QED
      BY <1>1, <1>2, FoldExists
  <1>4. \A s \in SUBSET S : f[s] = AddOne(f, w, s)
    <2>1. ASSUME NEW s \in SUBSET S, s # {}
          PROVE  f[s] = w[Picked(s)] + f[s \ {Picked(s)}]
      <3>1. f[s \ {p[s]}] \in Nat
        OBVIOUS
      <3>2. step[<<s, f[s \ {p[s]}]>>] = w[p[s]] + f[s \ {p[s]}]
        BY <2>1, <3>1
      <3>. QED
        BY <1>1, <1>3, <2>1, <3>2 DEF IsFold
    <2>. QED
      BY <1>3, <2>1 DEF AddOne, IsFold
  <1>5. f = [s \in SUBSET S |-> AddOne(f, w, s)]
    BY <1>4
  <1>6. F = [s \in SUBSET S |-> AddOne(F, w, s)]
    BY <1>5
  <1>7. SumOf(w, S) = F[S]
    BY SumOfIsFold
  <1>. HIDE DEF F
  <1>8. F \in [SUBSET S -> Nat]
    <2>. DEFINE X == {s \in SUBSET S : F[s] \in Nat}
    <2>1. {} \in X
      BY <1>6 DEF AddOne
    <2>2. ASSUME NEW s \in SUBSET S, s # {}, s \ {p[s]} \in X
          PROVE  s \in X
      <3>1. F[s] = w[p[s]] + F[s \ {p[s]}] /\ w[p[s]] \in Nat
        BY <1>1, <1>6, <2>2 DEF AddOne, Picks, Naturals
      <3>. QED
        BY <2>2, <3>1
    <2>. HIDE DEF X
    <2>3. SUBSET S \subseteq X
      BY <1>1, <2>1, <2>2, ElementByElement
    <2>. QED
      BY <1>6, <2>3 DEF X
  <1>. QED
    BY <1>6, <1>7, <1>8 DEF SumsOf

\* Whichever element of a set is taken out, what it adds is what is missing then.
LEMMA AnyElement ==
    ASSUME NEW S, IsFiniteSet(S), NEW w, Naturals(w, S),
           NEW f \in [SUBSET S -> Nat], SumsOf(f, w, S)
    PROVE  AnyTaken(f, w, S)
  <1>. DEFINE Y == {n \in Nat : \A s \in SUBSET S : Cardinality(s) <= n =>
                                   \A y \in s : f[s] = f[s \ {y}] + w[y]}
  <1>1. \A s \in SUBSET S : IsFiniteSet(s) /\ Cardinality(s) \in Nat
    BY FS_Subset, FS_CardinalityType
  <1>2. 0 \in Y
    BY <1>1, FS_EmptySet
  <1>3. ASSUME NEW n \in Nat, n \in Y
        PROVE  n + 1 \in Y
    <2>1. ASSUME NEW s \in SUBSET S, Cardinality(s) <= n + 1, NEW y \in s
          PROVE  f[s] = f[s \ {y}] + w[y]
      <3>1. PICK x : x = Picked(s)
        OBVIOUS
      <3>2. x \in s
        BY <2>1, <3>1 DEF Picked
      <3>3. f[s] = w[x] + f[s \ {x}]
        BY <2>1, <3>1 DEF SumsOf, AddOne
      <3>4. w[x] \in Nat /\ w[y] \in Nat /\ f[s \ {x}] \in Nat /\ f[s \ {y}] \in Nat
            /\ f[(s \ {x}) \ {y}] \in Nat
        BY <3>2 DEF Naturals
      <3>5. CASE x = y
        BY <3>3, <3>4, <3>5
      <3>6. CASE x # y
        <4>1. Cardinality(s \ {x}) = Cardinality(s) - 1 /\ Cardinality(s \ {y}) = Cardinality(s) - 1
          BY <1>1, <3>2, FS_RemoveElement
        <4>2. Cardinality(s \ {x}) <= n /\ Cardinality(s \ {y}) <= n
          BY <1>1, <2>1, <4>1
        <4>3. f[s \ {x}] = f[(s \ {x}) \ {y}] + w[y]
          BY <1>3, <3>6, <4>2
        <4>4. f[s \ {y}] = f[(s \ {y}) \ {x}] + w[x]
          BY <1>3, <3>2, <3>6, <4>2
        <4>5. (s \ {y}) \ {x} = (s \ {x}) \ {y}
          OBVIOUS
        <4>6. PICK a, b, c : a = f[s \ {x}] /\ b = f[s \ {y}] /\ c = f[(s \ {x}) \ {y}]
          OBVIOUS
        <4>7. f[s] = w[x] + a /\ a = c + w[y] /\ b = c + w[x]
          BY <3>3, <4>3, <4>4, <4>5, <4>6
        <4>8. f[s] = b + w[y]
          BY ONLY <3>4, <4>6, <4>7
        <4>. QED
          BY <4>6, <4>8
      <3>. QED
        BY <3>5, <3>6
    <2>. QED
      BY <2>1
  <1>4. Nat \subseteq Y
    <2>. HIDE DEF Y
    <2>. QED
      BY <1>2, <1>3, NumberByNumber
  <1>5. ASSUME NEW s \in SUBSET S
        PROVE  \A y \in s : f[s] = f[s \ {y}] + w[y]
    <2>1. Cardinality(s) \in Y
      BY <1>1, <1>4
    <2>. QED
      BY <1>1, <2>1
  <1>. QED
    BY <1>5 DEF AnyTaken

\* One element more adds what it weighs.
LEMMA SumOfOneMore ==
    ASSUME NEW S, IsFiniteSet(S), NEW x, x \notin S, NEW w, Naturals(w, S \cup {x})
    PROVE  SumOf(w, S \cup {x}) = SumOf(w, S) + w[x] /\ SumOf(w, S) \in Nat
  <1>1. PICK M : M = S \cup {x}
    OBVIOUS
  <1>2. IsFiniteSet(M) /\ Naturals(w, M) /\ Naturals(w, S)
    BY <1>1, FS_AddElement DEF Naturals
  <1>3. PICK f \in [SUBSET M -> Nat] : SumsOf(f, w, M) /\ SumOf(w, M) = f[M]
    BY <1>2, SumOfExists
  <1>4. PICK g \in [SUBSET S -> Nat] : SumsOf(g, w, S) /\ SumOf(w, S) = g[S]
    BY <1>2, SumOfExists
  <1>5. f[M] = f[M \ {x}] + w[x]
    <2>1. AnyTaken(f, w, M)
      BY <1>2, <1>3, AnyElement
    <2>2. M \in SUBSET M /\ x \in M
      BY <1>1
    <2>. QED
      BY <2>1, <2>2 DEF AnyTaken
  <1>6. M \ {x} = S
    BY <1>1
  <1>7. PICK p : Picks(p, S) /\ \A s \in SUBSET S : p[s] = Picked(s)
    BY PicksAre
  <1>. DEFINE X == {s \in SUBSET S : f[s] = g[s]}
  <1>8. {} \in X
    BY <1>3, <1>4 DEF SumsOf, AddOne
  <1>9. ASSUME NEW s \in SUBSET S, s # {}, s \ {p[s]} \in X
        PROVE  s \in X
    <2>1. f[s] = w[p[s]] + f[s \ {p[s]}] /\ g[s] = w[p[s]] + g[s \ {p[s]}]
      BY <1>1, <1>3, <1>4, <1>7, <1>9 DEF SumsOf, AddOne
    <2>. QED
      BY <1>9, <2>1
  <1>. HIDE DEF X
  <1>10. SUBSET S \subseteq X
    <2>1. Picks(p, S)
      BY <1>7
    <2>2. \A s \in SUBSET S : s # {} /\ s \ {p[s]} \in X => s \in X
      BY <1>9
    <2>. QED
      BY <1>8, <2>1, <2>2, ElementByElement
  <1>11. f[S] = g[S]
    BY <1>10 DEF X
  <1>12. g[S] \in Nat
    OBVIOUS
  <1>13. SumOf(w, M) = SumOf(w, S) + w[x]
    BY <1>3, <1>4, <1>5, <1>6, <1>11
  <1>. QED
    BY <1>1, <1>4, <1>12, <1>13

LEMMA SumOfNone ==
    ASSUME NEW w
    PROVE  SumOf(w, {}) = 0
  <1>1. IsFiniteSet({}) /\ Naturals(w, {})
    BY FS_EmptySet DEF Naturals
  <1>2. PICK f \in [SUBSET {} -> Nat] : SumsOf(f, w, {}) /\ SumOf(w, {}) = f[{}]
    BY <1>1, SumOfExists
  <1>. QED
    BY <1>2 DEF SumsOf, AddOne

===============================================================================
