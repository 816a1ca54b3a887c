-------------------------- MODULE StableVaultProofs --------------------------
(***************************************************************************)
(* Proofs about the rewards pool, and about the stable vault composed with *)
(* it, for any finite sets of wallets and mints, amounts, splits, index    *)
(* scale, rent and width of a u64.  The pool owes no more than it was      *)
(* funded for and pays nobody for the time before its stake; a share of    *)
(* the vault is never diluted; nobody's way out is ever blocked.           *)
(***************************************************************************)
EXTENDS StableVault, FiniteSetTheorems, WellFoundedInduction, TLAPS

-----------------------------------------------------------------------------

(* Sums over finite sets.  The library's induction theorems take a         *)
(* predicate; a smallest counterexample does the same work.                *)

\* The element that a fold over s takes first, and what the fold makes of s.
Pick(s) == CHOOSE x \in s : TRUE
FoldStep(f, g, s) == IF s = {} THEN 0 ELSE f[Pick(s)] + g[s \ {Pick(s)}]
\* g is the recursive function that a sum over subsets of S is taken from.
Folds(g, f, S) == g = [s \in SUBSET S |-> FoldStep(f, g, s)]
FoldOf(f, S) == CHOOSE g : Folds(g, f, S)

\* The library's sum of a function is that fold, on the whole domain.
LEMMA SumIsFold ==
  ASSUME NEW f
  PROVE SumFunction(f) = FoldOf(f, DOMAIN f)[DOMAIN f]
BY DEF SumFunction, SumFunctionOnSet, FoldFunctionOnSet, MapThenFoldSet, FoldOf, Folds, FoldStep, Pick

\* A set of naturals that is not empty has a least element.
LEMMA LeastNatural ==
  ASSUME NEW T, T \subseteq Nat, T # {}
  PROVE \E n \in T : \A m \in T : n <= m
<1> DEFINE R == OpToRel(<, Nat)
<1>1. IsWellFoundedOn(R, Nat)
  BY NatLessThanWellFounded
<1>2. \A n, m \in Nat : n < m => <<n, m>> \in R
  BY DEF OpToRel
<1> HIDE DEF R
<1>3. PICK n \in T : \A m \in T : <<m, n>> \notin R
  BY <1>1, WFMin
<1>4. ASSUME NEW m \in T PROVE n <= m
  <2>1. m \in Nat /\ n \in Nat /\ <<m, n>> \notin R
    BY <1>3
  <2>2. ~(m < n)
    BY <1>2, <2>1
  <2>3. QED BY <2>1, <2>2
<1>5. QED BY <1>4

\* Among some subsets of a finite set, one contains no other: what is false of a
\* finite set is false of one whose proper subsets all satisfy it.
LEMMA SmallestSubset ==
  ASSUME NEW S, IsFiniteSet(S), NEW F, F \subseteq SUBSET S, F # {}
  PROVE  \E x \in F : \A y \in F : y \subseteq x => y = x
<1> DEFINE R == StrictSubsetOrdering(S)
<1>1. IsWellFoundedOn(R, SUBSET S)
  BY FS_StrictSubsetOrderingWellFounded, FS_FiniteSubsetsOfFinite
<1>2. \A x, y \in SUBSET S : y \subseteq x /\ y # x => <<y, x>> \in R
  BY DEF StrictSubsetOrdering
<1> HIDE DEF R
<1>3. \E x \in F : \A y \in F : <<y, x>> \notin R
  BY <1>1, WFMin
<1>4. QED BY <1>2, <1>3

\* What is picked from a set belongs to it.
LEMMA Picked ==
  ASSUME NEW s, s # {}
  PROVE  Pick(s) \in s
BY DEF Pick

\* The recursive function exists: it is defined up to every cardinality.
LEMMA FoldExists ==
  ASSUME NEW S, IsFiniteSet(S), NEW f \in [S -> Int]
  PROVE  \E g : Folds(g, f, S)
<1> DEFINE Upto(d) == {g \in [SUBSET S -> Int] :
                         \A s \in SUBSET S : Cardinality(s) <= d => g[s] = FoldStep(f, g, s)}
           bad == {d \in Nat : Upto(d) = {}}
<1>1. \A s \in SUBSET S : /\ Cardinality(s) \in Nat /\ Cardinality(s) <= Cardinality(S)
                          /\ Cardinality(s) = 0 <=> s = {}
                          /\ \A c \in s : Cardinality(s \ {c}) = Cardinality(s) - 1
  BY FS_Subset, FS_CardinalityType, FS_EmptySet, FS_RemoveElement
<1>2. Cardinality(S) \in Nat
  BY FS_CardinalityType
<1>3. \A g \in [SUBSET S -> Int], s \in SUBSET S : FoldStep(f, g, s) \in Int
  BY Picked DEF FoldStep
<1>4. Upto(0) # {}
  <2> DEFINE g == [s \in SUBSET S |-> 0]
  <2>1. g \in [SUBSET S -> Int] /\ \A s \in SUBSET S : g[s] = 0
    OBVIOUS
  <2>2. \A s \in SUBSET S : Cardinality(s) <= 0 => FoldStep(f, g, s) = 0
    BY <1>1 DEF FoldStep
  <2> HIDE DEF g
  <2>3. g \in Upto(0)
    BY <2>1, <2>2
  <2>4. QED BY <2>3
<1>5. ASSUME NEW d \in Nat, NEW g \in Upto(d)
      PROVE  Upto(d + 1) # {}
  <2> DEFINE h == [s \in SUBSET S |-> IF Cardinality(s) = d + 1 THEN FoldStep(f, g, s) ELSE g[s]]
  <2>0. g \in [SUBSET S -> Int]
    BY <1>5
  <2>1. h \in [SUBSET S -> Int]
    BY <1>3, <2>0
  <2>2. ASSUME NEW s \in SUBSET S, Cardinality(s) <= d + 1
        PROVE  h[s] = FoldStep(f, h, s)
    <3>1. h[s] = FoldStep(f, g, s)
      BY <1>1, <1>5, <2>2
    <3>2. CASE s = {}
      BY <3>1, <3>2 DEF FoldStep
    <3>3. CASE s # {}
      <4> DEFINE c == Pick(s)
      <4>1. c \in s
        BY <3>3, Picked
      <4> HIDE DEF c
      <4>2. Cardinality(s \ {c}) # d + 1 /\ s \ {c} \in SUBSET S
        BY <1>1, <2>2, <4>1
      <4>3. h[s \ {c}] = g[s \ {c}]
        BY <4>2
      <4> USE DEF c
      <4> HIDE DEF h
      <4>4. QED BY <3>1, <3>3, <4>3 DEF FoldStep
    <3>4. QED BY <3>2, <3>3
  <2> HIDE DEF h
  <2>3. h \in Upto(d + 1)
    BY <2>1, <2>2
  <2>4. QED BY <2>3
<1>6. bad = {}
  <2> SUFFICES ASSUME bad # {} PROVE FALSE
    OBVIOUS
  <2>1. bad \subseteq Nat
    OBVIOUS
  <2> HIDE DEF bad
  <2>2. PICK d \in bad : \A e \in bad : d <= e
    BY <2>1, LeastNatural
  <2>3. d \in Nat /\ Upto(d) = {}
    BY DEF bad
  <2>4. d # 0
    BY <1>4, <2>3
  <2>5. d - 1 \in Nat /\ (d - 1) + 1 = d
    BY <2>3, <2>4
  <2>6. d - 1 \notin bad
    BY <2>2, <2>5
  <2>7. Upto(d - 1) # {}
    BY <2>5, <2>6 DEF bad
  <2> HIDE DEF Upto
  <2>8. Upto((d - 1) + 1) # {}
    BY <1>5, <2>5, <2>7
  <2>9. QED BY <2>3, <2>5, <2>8
<1>7. PICK g : g \in Upto(Cardinality(S))
  BY <1>2, <1>6
<1>8. g \in [SUBSET S -> Int] /\ \A s \in SUBSET S : g[s] = FoldStep(f, g, s)
  BY <1>1, <1>7
<1>9. g = [s \in SUBSET S |-> FoldStep(f, g, s)]
  BY <1>8
<1>10. QED BY <1>9 DEF Folds

\* The fold satisfies its own recursive equation.
LEMMA FoldUnfolds ==
  ASSUME NEW S, IsFiniteSet(S), NEW f \in [S -> Int], NEW s \in SUBSET S
  PROVE  FoldOf(f, S)[s] = FoldStep(f, FoldOf(f, S), s)
<1>1. Folds(FoldOf(f, S), f, S)
  BY FoldExists DEF FoldOf
<1>2. QED BY <1>1 DEF Folds

\* A fold of integers is an integer.
LEMMA FoldIsInt ==
  ASSUME NEW S, IsFiniteSet(S), NEW f \in [S -> Int]
  PROVE  \A s \in SUBSET S : FoldOf(f, S)[s] \in Int
<1> DEFINE g == FoldOf(f, S)
           bad == {s \in SUBSET S : g[s] \notin Int}
<1> SUFFICES ASSUME bad # {} PROVE FALSE
  OBVIOUS
<1>1. PICK s \in bad : \A t \in bad : t \subseteq s => t = s
  <2>1. bad \subseteq SUBSET S
    OBVIOUS
  <2> HIDE DEF bad
  <2>2. QED BY <2>1, SmallestSubset
<1>2. g[s] = FoldStep(f, g, s)
  BY FoldUnfolds
<1> HIDE DEF g
<1>3. CASE s = {}
  BY <1>2, <1>3 DEF FoldStep
<1>4. CASE s # {}
  <2>1. Pick(s) \in s /\ s \ {Pick(s)} \notin bad
    BY <1>1, <1>4, Picked
  <2>2. f[Pick(s)] \in Int /\ g[s \ {Pick(s)}] \in Int
    BY <2>1
  <2>3. QED BY <1>2, <1>4, <2>2 DEF FoldStep
<1>5. QED BY <1>3, <1>4

\* Two functions that differ at x only have folds that differ by that much, on the
\* subsets that x belongs to.
LEMMA FoldUpdate ==
  ASSUME NEW S, IsFiniteSet(S), NEW f \in [S -> Int], NEW h \in [S -> Int], NEW x \in S,
         \A y \in S : y # x => h[y] = f[y]
  PROVE  \A s \in SUBSET S :
            FoldOf(h, S)[s] = FoldOf(f, S)[s] + (IF x \in s THEN h[x] - f[x] ELSE 0)
<1> DEFINE F == FoldOf(f, S)
           H == FoldOf(h, S)
           bad == {s \in SUBSET S : H[s] # F[s] + (IF x \in s THEN h[x] - f[x] ELSE 0)}
<1> SUFFICES ASSUME bad # {} PROVE FALSE
  OBVIOUS
<1>1. PICK s \in bad : \A t \in bad : t \subseteq s => t = s
  <2>1. bad \subseteq SUBSET S
    OBVIOUS
  <2> HIDE DEF bad
  <2>2. QED BY <2>1, SmallestSubset
<1>2. F[s] = FoldStep(f, F, s) /\ H[s] = FoldStep(h, H, s)
  BY FoldUnfolds
<1>3. \A t \in SUBSET S : F[t] \in Int /\ H[t] \in Int
  BY FoldIsInt
<1> HIDE DEF F, H
<1>4. CASE s = {}
  BY <1>2, <1>4 DEF FoldStep
<1>5. CASE s # {}
  <2> DEFINE c == Pick(s)
             r == s \ {c}
  <2>1. c \in s /\ r \notin bad /\ c \in S /\ r \in SUBSET S
    BY <1>1, <1>5, Picked
  <2>2. F[s] = f[c] + F[r] /\ H[s] = h[c] + H[r]
    BY <1>2, <1>5 DEF FoldStep
  <2>3. H[r] = F[r] + (IF x \in r THEN h[x] - f[x] ELSE 0)
    BY <2>1
  <2>4. F[r] \in Int /\ H[r] \in Int /\ f[c] \in Int /\ h[c] \in Int /\ f[x] \in Int /\ h[x] \in Int
    BY <1>3, <2>1
  <2>5. H[s] # F[s] + (IF x \in s THEN h[x] - f[x] ELSE 0)
    OBVIOUS
  <2>6. x \in s <=> x \in r \/ x = c
    BY <2>1
  <2>7. c # x => h[c] = f[c]
    BY <2>1
  <2>8. x = c => x \notin r
    OBVIOUS
  <2> HIDE DEF c, r
  <2>9. QED BY <2>2, <2>3, <2>4, <2>5, <2>6, <2>7, <2>8
<1>6. QED BY <1>4, <1>5

\* A fold of naturals is a natural.
LEMMA FoldIsNat ==
  ASSUME NEW S, IsFiniteSet(S), NEW f \in [S -> Nat]
  PROVE  \A s \in SUBSET S : FoldOf(f, S)[s] \in Nat
<1> DEFINE g == FoldOf(f, S)
           bad == {s \in SUBSET S : g[s] \notin Nat}
<1> SUFFICES ASSUME bad # {} PROVE FALSE
  OBVIOUS
<1>1. PICK s \in bad : \A t \in bad : t \subseteq s => t = s
  <2>1. bad \subseteq SUBSET S
    OBVIOUS
  <2> HIDE DEF bad
  <2>2. QED BY <2>1, SmallestSubset
<1>2. g[s] = FoldStep(f, g, s)
  BY FoldUnfolds
<1> HIDE DEF g
<1>3. CASE s = {}
  BY <1>2, <1>3 DEF FoldStep
<1>4. CASE s # {}
  <2>1. Pick(s) \in s /\ s \ {Pick(s)} \notin bad
    BY <1>1, <1>4, Picked
  <2>2. f[Pick(s)] \in Nat /\ g[s \ {Pick(s)}] \in Nat
    BY <2>1
  <2>3. QED BY <1>2, <1>4, <2>2 DEF FoldStep
<1>5. QED BY <1>3, <1>4

\* Two functions that differ at x only have sums that differ by that much.
LEMMA SumChange ==
  ASSUME NEW S, IsFiniteSet(S), NEW f \in [S -> Int], NEW h \in [S -> Int], NEW x \in S,
         \A y \in S : y # x => h[y] = f[y]
  PROVE  /\ SumFunction(h) = SumFunction(f) - f[x] + h[x]
         /\ SumFunction(f) \in Int
<1>1. DOMAIN f = S /\ DOMAIN h = S
  OBVIOUS
<1>2. FoldOf(h, S)[S] = FoldOf(f, S)[S] + (h[x] - f[x])
  BY FoldUpdate
<1>3. SumFunction(h) = FoldOf(h, S)[S] /\ SumFunction(f) = FoldOf(f, S)[S]
  BY <1>1, SumIsFold
<1>4. FoldOf(f, S)[S] \in Int /\ f[x] \in Int /\ h[x] \in Int
  BY FoldIsInt
<1>5. QED BY <1>2, <1>3, <1>4

\* Changing one entry of a function changes its sum by the difference.
LEMMA SumUpdate ==
  ASSUME NEW S, IsFiniteSet(S), NEW f \in [S -> Int], NEW x \in S, NEW v \in Int
  PROVE  /\ SumFunction([f EXCEPT ![x] = v]) = SumFunction(f) - f[x] + v
         /\ SumFunction(f) \in Int
<1> DEFINE h == [f EXCEPT ![x] = v]
<1>1. h \in [S -> Int] /\ h[x] = v /\ \A y \in S : y # x => h[y] = f[y]
  OBVIOUS
<1> HIDE DEF h
<1>2. SumFunction(h) = SumFunction(f) - f[x] + h[x] /\ SumFunction(f) \in Int
  BY <1>1, SumChange
<1>3. QED BY <1>1, <1>2 DEF h

\* A sum of naturals is a natural, and no entry exceeds it.
LEMMA SumOfNaturals ==
  ASSUME NEW S, IsFiniteSet(S), NEW f \in [S -> Nat]
  PROVE  /\ SumFunction(f) \in Nat
         /\ \A x \in S : f[x] <= SumFunction(f)
<1>1. SumFunction(f) \in Nat
  <2>1. DOMAIN f = S
    OBVIOUS
  <2>2. QED BY <2>1, SumIsFold, FoldIsNat
<1>2. ASSUME NEW x \in S PROVE f[x] <= SumFunction(f)
  <2> DEFINE h == [f EXCEPT ![x] = 0]
  <2>1. /\ h \in [S -> Nat] /\ DOMAIN h = S /\ h[x] = 0
        /\ \A y \in S : y # x => h[y] = f[y]
        /\ f[x] \in Nat
    OBVIOUS
  <2> HIDE DEF h
  <2>2. h \in [S -> Int] /\ f \in [S -> Int]
    BY <2>1
  <2>3. SumFunction(h) = SumFunction(f) - f[x] + h[x]
    BY <2>1, <2>2, SumChange
  <2>4. SumFunction(h) \in Nat
    BY <2>1, SumIsFold, FoldIsNat
  <2>5. QED BY <1>1, <2>1, <2>3, <2>4
<1>3. QED BY <1>1, <1>2

\* h is k times f, less g.
IsDifference(h, f, k, g, S) == \A x \in S : h[x] = f[x] * k - g[x]

\* Sums are linear: the sum of multiples less another sum is the sum of the differences.
LEMMA SumOfDifferences ==
  ASSUME NEW S, IsFiniteSet(S), NEW f \in [S -> Int], NEW g \in [S -> Int], NEW k \in Int,
         NEW h \in [S -> Int], IsDifference(h, f, k, g, S)
  PROVE  /\ SumFunction(h) = SumFunction(f) * k - SumFunction(g)
         /\ SumFunction(f) \in Int /\ SumFunction(g) \in Int
<1> DEFINE F == FoldOf(f, S)
           G == FoldOf(g, S)
           H == FoldOf(h, S)
           bad == {s \in SUBSET S : H[s] # F[s] * k - G[s]}
<1>1. \A s \in SUBSET S : F[s] \in Int /\ G[s] \in Int /\ H[s] \in Int
  BY FoldIsInt
<1>2. bad = {}
  <2> SUFFICES ASSUME bad # {} PROVE FALSE
    OBVIOUS
  <2>1. PICK s \in bad : \A t \in bad : t \subseteq s => t = s
    <3>1. bad \subseteq SUBSET S
      OBVIOUS
    <3> HIDE DEF bad
    <3>2. QED BY <3>1, SmallestSubset
  <2>2. F[s] = FoldStep(f, F, s) /\ G[s] = FoldStep(g, G, s) /\ H[s] = FoldStep(h, H, s)
    BY FoldUnfolds
  <2> HIDE DEF F, G, H
  <2>3. CASE s = {}
    <3>1. F[s] = 0 /\ G[s] = 0 /\ H[s] = 0
      BY <2>2, <2>3 DEF FoldStep
    <3>2. QED BY <3>1
  <2>4. CASE s # {}
    <3> DEFINE c == Pick(s)
               r == s \ {c}
    <3>1. c \in s /\ r \notin bad /\ c \in S /\ r \in SUBSET S
      BY <2>1, <2>4, Picked
    <3>2. F[s] = f[c] + F[r] /\ G[s] = g[c] + G[r] /\ H[s] = h[c] + H[r]
      BY <2>2, <2>4 DEF FoldStep
    <3>3. H[r] = F[r] * k - G[r]
      BY <3>1
    <3>4. H[s] # F[s] * k - G[s]
      OBVIOUS
    <3>5. /\ F[r] \in Int /\ G[r] \in Int /\ f[c] \in Int /\ g[c] \in Int
          /\ h[c] = f[c] * k - g[c]
      BY <1>1, <3>1 DEF IsDifference
    <3> HIDE DEF c, r
    <3>6. (f[c] + F[r]) * k = f[c] * k + F[r] * k /\ f[c] * k \in Int /\ F[r] * k \in Int
      BY <3>5
    <3>7. QED BY <3>2, <3>3, <3>4, <3>5, <3>6
  <2>5. QED BY <2>3, <2>4
<1>3. H[S] = F[S] * k - G[S]
  BY <1>2
<1>4. DOMAIN f = S /\ DOMAIN g = S /\ DOMAIN h = S
  OBVIOUS
<1>5. SumFunction(f) = F[S] /\ SumFunction(g) = G[S] /\ SumFunction(h) = H[S]
  BY <1>4, SumIsFold
<1> HIDE DEF F, G, H
<1>6. QED BY <1>1, <1>3, <1>5

\* Zeros add up to zero.
LEMMA SumOfZeros ==
  ASSUME NEW S, IsFiniteSet(S)
  PROVE  SumFunction([x \in S |-> 0]) = 0
<1> DEFINE f == [x \in S |-> 0]
           g == FoldOf(f, S)
           bad == {s \in SUBSET S : g[s] # 0}
<1>1. f \in [S -> Int] /\ DOMAIN f = S /\ \A x \in S : f[x] = 0
  OBVIOUS
<1> HIDE DEF f
<1>2. bad = {}
  <2> SUFFICES ASSUME bad # {} PROVE FALSE
    OBVIOUS
  <2>1. PICK s \in bad : \A t \in bad : t \subseteq s => t = s
    <3>1. bad \subseteq SUBSET S
      OBVIOUS
    <3> HIDE DEF bad
    <3>2. QED BY <3>1, SmallestSubset
  <2>2. g[s] = FoldStep(f, g, s)
    BY <1>1, FoldUnfolds
  <2> HIDE DEF g
  <2>3. CASE s = {}
    BY <2>2, <2>3 DEF FoldStep
  <2>4. CASE s # {}
    <3>1. Pick(s) \in s /\ s \ {Pick(s)} \notin bad
      BY <2>1, <2>4, Picked
    <3>2. f[Pick(s)] = 0 /\ g[s \ {Pick(s)}] = 0
      BY <1>1, <3>1
    <3>3. QED BY <2>2, <2>4, <3>2 DEF FoldStep
  <2>5. QED BY <2>3, <2>4
<1>3. g[S] = 0
  BY <1>2
<1>4. QED BY <1>1, <1>3, SumIsFold DEF f
-----------------------------------------------------------------------------
(* The invariant.                                                          *)

\* The debt of a position is its stake at the index it was settled at.
DebtIsSettled ==
    \A u \in Users : reward_debt[u] = staked_amount[u] * settled_index[u]

\* No position was settled at an index the pool has not reached.
SettledBehind == \A u \in Users : settled_index[u] <= sol_per_share

\* The pool's books with what ties each debt to the index.
PoolInv == RewardsInv /\ DebtIsSettled /\ SettledBehind

\* What division by a positive number bounds.
LEMMA Quotient ==
    ASSUME NEW a \in Nat, NEW n \in Nat \ {0}
    PROVE  a \div n \in Nat /\ n * (a \div n) <= a
OBVIOUS

\* Products of naturals are naturals and grow with their factors.
LEMMA Product ==
    ASSUME NEW a \in Nat, NEW b \in Nat, NEW c \in Nat, b <= c
    PROVE  a * b \in Nat /\ a * c \in Nat /\ a * b <= a * c
<1>1. c - b \in Nat /\ a * (c - b) \in Nat
  OBVIOUS
<1>2. a * (c - b) = a * c - a * b
  OBVIOUS
<1>3. QED BY <1>1, <1>2

\* The two sums of the books are integers, the stakes' one a bound of each stake.
LEMMA SumsTyped ==
    ASSUME RewardsAssumption, RewardsTypeOK
    PROVE  /\ SumFunction(reward_debt) \in Nat
           /\ SumFunction(staked_amount) \in Nat
           /\ \A u \in Users : staked_amount[u] <= SumFunction(staked_amount)
BY SumOfNaturals DEF RewardsAssumption, RewardsTypeOK

\* Distributing what is pending raises the index by no more than it pays for.
LEMMA Distribute ==
    ASSUME RewardsAssumption, RewardsTypeOK
    PROVE  /\ DistributedIndex \in Nat
           /\ DistributedIndex >= sol_per_share
           /\ DistributedPending \in 0..U64Max
           /\ INDEX_SCALE * DistributedPending + total_staked * DistributedIndex
                <= INDEX_SCALE * pending_rewards + total_staked * sol_per_share
<1> DEFINE n == pending_rewards * INDEX_SCALE
           q == n \div total_staked
<1>1. /\ total_staked \in Nat /\ pending_rewards \in 0..U64Max /\ U64Max \in Nat
      /\ sol_per_share \in Nat /\ INDEX_SCALE \in Nat
  BY DEF RewardsAssumption, RewardsTypeOK
<1>2. n \in Nat /\ INDEX_SCALE * pending_rewards = n
  BY <1>1
<1>3. CASE total_staked > 0
  <2>1. q \in Nat /\ total_staked * q <= n
    BY <1>1, <1>2, <1>3, Quotient
  <2>2. DistributedIndex = sol_per_share + q /\ DistributedPending = 0
    BY <1>3 DEF DistributedIndex, DistributedPending, IndexIncrement
  <2> HIDE DEF n, q
  <2>3. total_staked * (sol_per_share + q) = total_staked * sol_per_share + total_staked * q
    BY <1>1, <2>1
  <2>4. INDEX_SCALE * 0 = 0
    BY <1>1
  <2>5. /\ total_staked * sol_per_share \in Int /\ total_staked * q \in Int
    BY <1>1, <2>1
  <2>6. QED BY <1>1, <1>2, <2>1, <2>2, <2>3, <2>4, <2>5
<1>4. CASE ~(total_staked > 0)
  <2>1. DistributedIndex = sol_per_share /\ DistributedPending = pending_rewards
    BY <1>4 DEF DistributedIndex, DistributedPending
  <2>2. total_staked * sol_per_share \in Int
    BY <1>1
  <2>3. QED BY <1>1, <1>2, <2>1, <2>2
<1>5. QED BY <1>3, <1>4

\* A settlement pays at most what the stake accrued since its last settlement.
LEMMA Paid ==
    ASSUME RewardsAssumption, PoolInv, NEW u \in Users
    PROVE  /\ PendingAmount(u) \in Nat
           /\ INDEX_SCALE * PendingAmount(u)
                <= staked_amount[u] * DistributedIndex - reward_debt[u]
           /\ reward_debt[u] = staked_amount[u] * settled_index[u]
<1> DEFINE s == staked_amount[u]
           D == DistributedIndex
           d == reward_debt[u]
           a == s * D
           q == a \div INDEX_SCALE
<1>1. s \in Nat /\ d \in Nat /\ settled_index[u] \in Nat /\ INDEX_SCALE \in Nat \ {0}
      /\ sol_per_share \in Nat
  BY DEF PoolInv, RewardsInv, RewardsTypeOK, RewardsAssumption
<1>2. D \in Nat /\ D >= sol_per_share
  BY Distribute DEF PoolInv, RewardsInv
<1>3. d = s * settled_index[u] /\ settled_index[u] <= sol_per_share
  BY DEF PoolInv, DebtIsSettled, SettledBehind
<1>4. PendingAmount(u) = IF q <= d THEN 0 ELSE q - d
  BY DEF PendingAmount
<1> HIDE DEF s, D, d
<1>5. settled_index[u] <= D
  BY <1>1, <1>2, <1>3
<1>6. a \in Nat /\ d <= a
  BY <1>1, <1>2, <1>3, <1>5, Product
<1>7. q \in Nat /\ INDEX_SCALE * q <= a
  BY <1>1, <1>6, Quotient
<1> HIDE DEF a, q
<1>8. CASE q <= d
  BY <1>1, <1>3, <1>4, <1>6, <1>8 DEF a, s, D, d
<1>9. CASE ~(q <= d)
  <2>1. PendingAmount(u) = q - d /\ q - d \in Nat
    BY <1>1, <1>4, <1>7, <1>9
  <2>2. INDEX_SCALE * (q - d) = INDEX_SCALE * q - INDEX_SCALE * d
    BY <1>1, <1>7
  <2>3. INDEX_SCALE * d >= d /\ INDEX_SCALE * d \in Int /\ INDEX_SCALE * q \in Int
    BY <1>1, <1>7
  <2>4. INDEX_SCALE * (q - d) <= a - d
    BY <1>1, <1>6, <1>7, <2>2, <2>3
  <2>5. QED BY <1>3, <2>1, <2>4 DEF a, s, D, d
<1>10. QED BY <1>8, <1>9

\* A late or an enlarged stake earns nothing for what was distributed before.
LEMMA NothingRetroactive ==
    ASSUME RewardsAssumption, PoolInv
    PROVE  NoRetroactiveRewards
<1> SUFFICES ASSUME NEW u \in Users
             PROVE  INDEX_SCALE * PendingAmount(u)
                      <= staked_amount[u] * (DistributedIndex - settled_index[u])
  BY DEF NoRetroactiveRewards
<1> DEFINE p == INDEX_SCALE * PendingAmount(u)
           D == DistributedIndex
<1>1. p <= staked_amount[u] * D - staked_amount[u] * settled_index[u]
  BY Paid
<1>2. staked_amount[u] \in Nat /\ settled_index[u] \in Nat
  BY DEF PoolInv, RewardsInv, RewardsTypeOK
<1>3. D \in Nat
  BY Distribute DEF PoolInv, RewardsInv
<1> HIDE DEF p, D
<1>4. staked_amount[u] * (D - settled_index[u])
        = staked_amount[u] * D - staked_amount[u] * settled_index[u]
  BY <1>2, <1>3
<1>5. QED BY <1>1, <1>4 DEF p, D

-----------------------------------------------------------------------------
(* Settling and setting a stake, the core of three handlers.               *)

\* What a settlement followed by a new stake leaves, whatever the new stake is.
LEMMA Restaked ==
    ASSUME RewardsAssumption, PoolInv, NEW u \in Users, NEW x \in Nat,
           Settle(u), SetStake(u, x),
           total_staked' = total_staked + x - staked_amount[u],
           total_staked' \in 0..U64Max
    PROVE  /\ sol_per_share' \in Nat /\ pending_rewards' \in 0..U64Max
           /\ last_treasury_balance' \in Nat /\ sol_treasury' \in Nat
           /\ staked_amount' \in [Users -> Nat] /\ reward_debt' \in [Users -> Nat]
           /\ settled_index' \in [Users -> Nat] /\ unclaimed' \in Int
           /\ Solvency'
           /\ TreasuryNeverRegresses'
           /\ DebtIsSettled'
           /\ SettledBehind'
           /\ SumFunction(staked_amount') = SumFunction(staked_amount) + x - staked_amount[u]
<1> DEFINE s == staked_amount[u]
           D == DistributedIndex
           P == DistributedPending
           d == reward_debt[u]
           paid == PendingAmount(u)
           v == x * D
           sum == SumFunction(reward_debt)
<1>1. /\ s \in Nat /\ d \in Nat /\ INDEX_SCALE \in Nat \ {0} /\ sol_treasury \in Nat
      /\ unclaimed \in Int /\ total_staked \in Nat /\ pending_rewards \in Nat
      /\ sol_per_share \in Nat /\ Rent \in Nat /\ U64Max \in Nat
  BY DEF PoolInv, RewardsInv, RewardsTypeOK, RewardsAssumption
<1>2. /\ D \in Nat /\ D >= sol_per_share /\ P \in 0..U64Max
      /\ INDEX_SCALE * P + total_staked * D
           <= INDEX_SCALE * pending_rewards + total_staked * sol_per_share
  BY Distribute DEF PoolInv, RewardsInv
<1>3. paid \in Nat /\ INDEX_SCALE * paid <= s * D - d
  BY Paid
<1>4. /\ SolTransferable(sol_treasury, paid)
      /\ sol_per_share' = D /\ pending_rewards' = P
      /\ sol_treasury' = sol_treasury - paid
      /\ last_treasury_balance' = sol_treasury'
      /\ unclaimed' = unclaimed - paid
      /\ settled_index' = [settled_index EXCEPT ![u] = D]
  BY DEF Settle
<1>5. /\ staked_amount' = [staked_amount EXCEPT ![u] = x]
      /\ reward_debt' = [reward_debt EXCEPT ![u] = v]
  BY DEF SetStake
<1>6. /\ IsFiniteSet(Users)
      /\ staked_amount \in [Users -> Nat] /\ reward_debt \in [Users -> Nat]
      /\ settled_index \in [Users -> Nat]
  BY DEF PoolInv, RewardsInv, RewardsTypeOK, RewardsAssumption
<1>7. v \in Nat
  BY <1>2
<1>8. /\ INDEX_SCALE * unclaimed >=
           INDEX_SCALE * pending_rewards + total_staked * sol_per_share - sum
      /\ sol_treasury >= Rent + unclaimed
  BY DEF PoolInv, RewardsInv, Solvency
<1>9. sum \in Nat
  BY SumsTyped DEF PoolInv, RewardsInv
<1> HIDE DEF s, D, P, d, paid, v, sum
<1>10. SumFunction(reward_debt') = sum - d + v
  <2>1. reward_debt \in [Users -> Int] /\ v \in Int
    BY <1>6, <1>7
  <2>2. SumFunction([reward_debt EXCEPT ![u] = v]) = SumFunction(reward_debt) - reward_debt[u] + v
    BY <1>6, <2>1, SumUpdate
  <2>3. QED BY <1>5, <2>2 DEF d, sum
<1>11. SumFunction(staked_amount') = SumFunction(staked_amount) + x - staked_amount[u]
  <2>1. staked_amount \in [Users -> Int] /\ x \in Int
    BY <1>6
  <2>2. /\ SumFunction([staked_amount EXCEPT ![u] = x])
             = SumFunction(staked_amount) - staked_amount[u] + x
        /\ SumFunction(staked_amount) \in Int
    BY <1>6, <2>1, SumUpdate
  <2>3. QED BY <1>1, <1>5, <2>2 DEF s
<1>12. sol_treasury' \in Nat
  <2>1. paid > 0 => sol_treasury = paid \/ sol_treasury >= paid + Rent
    BY <1>4 DEF SolTransferable
  <2>2. QED BY <1>1, <1>3, <1>4, <2>1
<1>13. /\ staked_amount' \in [Users -> Nat] /\ reward_debt' \in [Users -> Nat]
       /\ settled_index' \in [Users -> Nat]
  BY <1>2, <1>4, <1>5, <1>6, <1>7
<1>14. Solvency'
  <2> DEFINE W == INDEX_SCALE * pending_rewards
             X == total_staked * sol_per_share
             Y == total_staked * D
             Z == INDEX_SCALE * P
             C == INDEX_SCALE * unclaimed
             G == INDEX_SCALE * paid
             a == s * D
  <2>1. (total_staked + x - s) * D = Y + v - a
    BY <1>1, <1>2 DEF v
  <2>2. INDEX_SCALE * (unclaimed - paid) = C - G
    BY <1>1, <1>3
  <2>3. /\ W \in Int /\ X \in Int /\ Y \in Int /\ Z \in Int /\ C \in Int /\ G \in Int
        /\ a \in Int
    BY <1>1, <1>2, <1>3
  <2>4. Z + Y <= W + X /\ G <= a - d /\ C >= W + X - sum
    BY <1>2, <1>3, <1>8
  <2>5. /\ pending_rewards' = P /\ sol_per_share' = D /\ unclaimed' = unclaimed - paid
        /\ total_staked' = total_staked + x - s
    BY <1>4 DEF s
  <2> DEFINE c2 == INDEX_SCALE * unclaimed'
             z2 == INDEX_SCALE * pending_rewards'
             y2 == total_staked' * sol_per_share'
             sum2 == SumFunction(reward_debt')
  <2>6. c2 = C - G /\ z2 = Z /\ y2 = Y + v - a /\ sum2 = sum - d + v
    BY <1>10, <2>1, <2>2, <2>5
  <2> HIDE DEF W, X, Y, Z, C, G, a, c2, z2, y2, sum2
  <2>7. C - G >= Z + (Y + v - a) - (sum - d + v)
    BY <1>1, <1>7, <1>9, <2>3, <2>4
  <2>8. c2 >= z2 + y2 - sum2
    BY <2>6, <2>7
  <2>9. sol_treasury' >= Rent + unclaimed'
    BY <1>1, <1>3, <1>4, <1>8
  <2>10. QED BY <2>8, <2>9 DEF Solvency, c2, z2, y2, sum2
<1>15. TreasuryNeverRegresses'
  BY <1>4, <1>12 DEF TreasuryNeverRegresses
<1>16. DebtIsSettled'
  <2>1. \A w \in Users : reward_debt[w] = staked_amount[w] * settled_index[w]
    BY DEF PoolInv, DebtIsSettled
  <2> SUFFICES ASSUME NEW w \in Users
               PROVE  reward_debt'[w] = staked_amount'[w] * settled_index'[w]
    BY DEF DebtIsSettled
  <2>2. CASE w = u
    BY <1>4, <1>5, <1>6, <2>2 DEF v
  <2>3. CASE w # u
    BY <1>4, <1>5, <1>6, <2>1, <2>3
  <2>4. QED BY <2>2, <2>3
<1>17. SettledBehind'
  <2>1. \A w \in Users : settled_index[w] <= sol_per_share
    BY DEF PoolInv, SettledBehind
  <2> SUFFICES ASSUME NEW w \in Users
               PROVE  settled_index'[w] <= sol_per_share'
    BY DEF SettledBehind
  <2>2. settled_index[w] \in Nat /\ settled_index[w] <= sol_per_share
    BY <1>6, <2>1
  <2>3. settled_index'[w] = IF w = u THEN D ELSE settled_index[w]
    BY <1>4, <1>6
  <2>4. QED BY <1>1, <1>2, <1>4, <2>2, <2>3
<1>18. QED BY <1>2, <1>3, <1>1, <1>4, <1>11, <1>12, <1>13, <1>14, <1>15, <1>16, <1>17
-----------------------------------------------------------------------------
(* One lemma per operation.                                                *)

\* The pool's other constants, as the handlers meet them.
LEMMA AmountsTyped ==
    ASSUME RewardsAssumption
    PROVE  /\ U64Max \in Nat /\ \A a \in Amounts : a \in Nat /\ a > 0
           /\ \A a \in Lamports : a \in Nat /\ a <= U64Max
           /\ \A id \in OpIds : id \in Nat
           /\ IsFiniteSet(Users)
BY DEF RewardsAssumption

\* A staker's balance of a token, changed: still naturals.
LEMMA BalanceTyped ==
    ASSUME NEW f \in [Users -> Nat], NEW u \in Users, NEW v \in Nat
    PROVE  [f EXCEPT ![u] = v] \in [Users -> Nat]
OBVIOUS

\* stake_attnusd.
LEMMA StakeKeeps ==
    ASSUME RewardsAssumption, PoolInv, NEW u \in Users, NEW a \in Amounts,
           StakeAttnUsd(u, a)
    PROVE  PoolInv'
<1> DEFINE x == staked_amount[u] + a
           r == s_attn[u] + a
           w == attn[u] - a
<1>1. /\ staked_amount[u] \in Nat /\ s_attn[u] \in Nat /\ attn[u] \in Nat
      /\ total_staked \in 0..U64Max /\ attn_vault \in Nat
      /\ s_attn \in [Users -> Nat] /\ attn \in [Users -> Nat]
  BY DEF PoolInv, RewardsInv, RewardsTypeOK
<1>2. a \in Nat /\ a > 0 /\ U64Max \in Nat /\ IsFiniteSet(Users)
  BY AmountsTyped
<1>3. /\ attn[u] >= a /\ total_staked + a <= U64Max
      /\ Settle(u) /\ SetStake(u, x)
      /\ positions' = positions \cup {u}
      /\ attn' = [attn EXCEPT ![u] = w] /\ attn_vault' = attn_vault + a
      /\ s_attn' = [s_attn EXCEPT ![u] = r]
      /\ total_staked' = total_staked + a
      /\ UNCHANGED <<configVars, last_fund_id>>
  BY DEF StakeAttnUsd
<1>4. /\ x \in Nat /\ r \in Nat /\ w \in Nat
      /\ total_staked' = total_staked + x - staked_amount[u]
      /\ total_staked' \in 0..U64Max
      /\ x - staked_amount[u] = a /\ r - s_attn[u] = a
  BY <1>1, <1>2, <1>3
<1>5. /\ sol_per_share' \in Nat /\ pending_rewards' \in 0..U64Max
      /\ last_treasury_balance' \in Nat /\ sol_treasury' \in Nat
      /\ staked_amount' \in [Users -> Nat] /\ reward_debt' \in [Users -> Nat]
      /\ settled_index' \in [Users -> Nat] /\ unclaimed' \in Int
      /\ Solvency' /\ TreasuryNeverRegresses' /\ DebtIsSettled' /\ SettledBehind'
      /\ SumFunction(staked_amount') = SumFunction(staked_amount) + x - staked_amount[u]
  <2> HIDE DEF x
  <2>1. QED BY <1>3, <1>4, Restaked
<1>6. SumFunction(s_attn') = SumFunction(s_attn) - s_attn[u] + r /\ SumFunction(s_attn) \in Int
  <2>1. s_attn \in [Users -> Int] /\ r \in Int
    BY <1>1, <1>4
  <2> HIDE DEF r
  <2>2. /\ SumFunction([s_attn EXCEPT ![u] = r]) = SumFunction(s_attn) - s_attn[u] + r
        /\ SumFunction(s_attn) \in Int
    BY <1>2, <2>1, SumUpdate
  <2>3. QED BY <1>3, <2>2
<1>7. /\ attn' \in [Users -> Nat] /\ s_attn' \in [Users -> Nat]
      /\ attn_vault' \in Nat /\ positions' \subseteq Users
  <2> HIDE DEF r, w
  <2>1. positions \subseteq Users
    BY DEF PoolInv, RewardsInv, RewardsTypeOK
  <2>2. QED BY <1>1, <1>2, <1>3, <1>4, <2>1, BalanceTyped
<1>8. RewardsTypeOK'
  BY <1>3, <1>4, <1>5, <1>7 DEF PoolInv, RewardsInv, RewardsTypeOK, configVars
<1>9. StakeBacking'
  <2>1. /\ attn_vault >= total_staked /\ SumFunction(staked_amount) = total_staked
        /\ SumFunction(s_attn) <= total_staked
    BY DEF PoolInv, RewardsInv, StakeBacking
  <2> HIDE DEF r, x
  <2>2. QED BY <1>1, <1>2, <1>3, <1>4, <1>5, <1>6, <2>1 DEF StakeBacking
<1>10. QED BY <1>5, <1>8, <1>9 DEF PoolInv, RewardsInv

\* unstake_attnusd.
LEMMA UnstakeKeeps ==
    ASSUME RewardsAssumption, PoolInv, NEW u \in Users, NEW a \in Amounts,
           UnstakeAttnUsd(u, a)
    PROVE  PoolInv'
<1> DEFINE x == staked_amount[u] - a
           r == s_attn[u] - a
           w == attn[u] + a
<1>1. /\ staked_amount[u] \in Nat /\ s_attn[u] \in Nat /\ attn[u] \in Nat
      /\ total_staked \in 0..U64Max /\ attn_vault \in Nat
      /\ s_attn \in [Users -> Nat] /\ attn \in [Users -> Nat]
  BY DEF PoolInv, RewardsInv, RewardsTypeOK
<1>2. a \in Nat /\ a > 0 /\ U64Max \in Nat /\ IsFiniteSet(Users)
  BY AmountsTyped
<1>3. /\ staked_amount[u] >= a /\ s_attn[u] >= a /\ attn_vault >= a
      /\ Settle(u) /\ SetStake(u, x)
      /\ attn' = [attn EXCEPT ![u] = w] /\ attn_vault' = attn_vault - a
      /\ s_attn' = [s_attn EXCEPT ![u] = r]
      /\ total_staked' = total_staked - a
      /\ UNCHANGED <<configVars, last_fund_id, positions>>
  BY DEF UnstakeAttnUsd, UnstakeAccepted, HasStaked
<1>4. /\ attn_vault >= total_staked /\ SumFunction(staked_amount) = total_staked
      /\ SumFunction(s_attn) <= total_staked /\ staked_amount[u] <= total_staked
  <2>1. /\ attn_vault >= total_staked /\ SumFunction(staked_amount) = total_staked
        /\ SumFunction(s_attn) <= total_staked
    BY DEF PoolInv, RewardsInv, StakeBacking
  <2>2. staked_amount \in [Users -> Nat]
    BY DEF PoolInv, RewardsInv, RewardsTypeOK
  <2>3. staked_amount[u] <= SumFunction(staked_amount)
    BY <1>2, <2>2, SumOfNaturals
  <2>4. QED BY <2>1, <2>3
<1>5. /\ x \in Nat /\ r \in Nat /\ w \in Nat
      /\ total_staked' = total_staked + x - staked_amount[u]
      /\ total_staked' \in 0..U64Max
      /\ x - staked_amount[u] = -a /\ r - s_attn[u] = -a
  BY <1>1, <1>2, <1>3, <1>4
<1>6. /\ sol_per_share' \in Nat /\ pending_rewards' \in 0..U64Max
      /\ last_treasury_balance' \in Nat /\ sol_treasury' \in Nat
      /\ staked_amount' \in [Users -> Nat] /\ reward_debt' \in [Users -> Nat]
      /\ settled_index' \in [Users -> Nat] /\ unclaimed' \in Int
      /\ Solvency' /\ TreasuryNeverRegresses' /\ DebtIsSettled' /\ SettledBehind'
      /\ SumFunction(staked_amount') = SumFunction(staked_amount) + x - staked_amount[u]
  <2> HIDE DEF x
  <2>1. QED BY <1>3, <1>5, Restaked
<1>7. SumFunction(s_attn') = SumFunction(s_attn) - s_attn[u] + r /\ SumFunction(s_attn) \in Int
  <2>1. s_attn \in [Users -> Int] /\ r \in Int
    BY <1>1, <1>5
  <2> HIDE DEF r
  <2>2. /\ SumFunction([s_attn EXCEPT ![u] = r]) = SumFunction(s_attn) - s_attn[u] + r
        /\ SumFunction(s_attn) \in Int
    BY <1>2, <2>1, SumUpdate
  <2>3. QED BY <1>3, <2>2
<1>8. /\ attn' \in [Users -> Nat] /\ s_attn' \in [Users -> Nat] /\ attn_vault' \in Nat
  <2> HIDE DEF r, w
  <2>1. QED BY <1>1, <1>2, <1>3, <1>5, BalanceTyped
<1>9. RewardsTypeOK'
  BY <1>3, <1>5, <1>6, <1>8 DEF PoolInv, RewardsInv, RewardsTypeOK, configVars
<1>10. StakeBacking'
  <2> HIDE DEF r, x
  <2>1. QED BY <1>1, <1>2, <1>3, <1>4, <1>5, <1>6, <1>7 DEF StakeBacking
<1>11. QED BY <1>6, <1>9, <1>10 DEF PoolInv, RewardsInv

\* claim_rewards: the stake is set to what it is.
LEMMA ClaimKeeps ==
    ASSUME RewardsAssumption, PoolInv, NEW u \in Users, ClaimRewards(u)
    PROVE  PoolInv'
<1> DEFINE x == staked_amount[u]
<1>1. /\ x \in Nat /\ total_staked \in 0..U64Max /\ U64Max \in Nat
  BY AmountsTyped DEF PoolInv, RewardsInv, RewardsTypeOK
<1>2. /\ Settle(u) /\ SetStake(u, x) /\ total_staked' = total_staked
      /\ UNCHANGED <<configVars, last_fund_id, positions, tokenVars>>
  BY DEF ClaimRewards
<1>3. total_staked' = total_staked + x - staked_amount[u] /\ total_staked' \in 0..U64Max
  BY <1>1, <1>2
<1>4. /\ sol_per_share' \in Nat /\ pending_rewards' \in 0..U64Max
      /\ last_treasury_balance' \in Nat /\ sol_treasury' \in Nat
      /\ staked_amount' \in [Users -> Nat] /\ reward_debt' \in [Users -> Nat]
      /\ settled_index' \in [Users -> Nat] /\ unclaimed' \in Int
      /\ Solvency' /\ TreasuryNeverRegresses' /\ DebtIsSettled' /\ SettledBehind'
      /\ SumFunction(staked_amount') = SumFunction(staked_amount) + x - staked_amount[u]
  <2> DEFINE y == x
  <2>1. /\ y \in Nat /\ SetStake(u, y) /\ total_staked' = total_staked + y - staked_amount[u]
    BY <1>1, <1>2, <1>3
  <2>2. x = y
    OBVIOUS
  <2> HIDE DEF x, y
  <2>3. QED BY <1>2, <1>3, <2>1, <2>2, Restaked
<1>5. RewardsTypeOK'
  BY <1>2, <1>3, <1>4 DEF PoolInv, RewardsInv, RewardsTypeOK, configVars, tokenVars
<1>6. StakeBacking'
  <2>1. /\ attn_vault >= total_staked /\ SumFunction(staked_amount) = total_staked
        /\ SumFunction(s_attn) <= total_staked
    BY DEF PoolInv, RewardsInv, StakeBacking
  <2>2. SumFunction(staked_amount') = total_staked
    BY <1>1, <1>4, <2>1
  <2>3. QED BY <1>2, <2>1, <2>2 DEF StakeBacking, tokenVars
<1>7. QED BY <1>4, <1>5, <1>6 DEF PoolInv, RewardsInv

\* fund_rewards with a new operation id, whoever names the amount.
LEMMA FundKeeps ==
    ASSUME RewardsAssumption, PoolInv, NEW a \in Nat, NEW id \in OpIds, FundNew(a, id)
    PROVE  PoolInv'
<1> DEFINE n == (pending_rewards + a) * INDEX_SCALE
           q == n \div total_staked
           W == INDEX_SCALE * pending_rewards
           A == INDEX_SCALE * a
           X == total_staked * sol_per_share
           C == INDEX_SCALE * unclaimed
           sum == SumFunction(reward_debt)
<1>1. /\ total_staked \in Nat /\ pending_rewards \in Nat /\ sol_per_share \in Nat
      /\ INDEX_SCALE \in Nat /\ unclaimed \in Int /\ sol_treasury \in Nat
      /\ U64Max \in Nat /\ Rent \in Nat
  BY DEF PoolInv, RewardsInv, RewardsTypeOK, RewardsAssumption
<1>2. /\ pending_rewards + a <= U64Max
      /\ sol_treasury' = sol_treasury + a
      /\ last_treasury_balance' = sol_treasury'
      /\ unclaimed' = unclaimed + a
      /\ last_fund_id' = id
      /\ UNCHANGED <<configVars, total_staked, stakeVars, tokenVars>>
      /\ total_staked > 0 => sol_per_share' = sol_per_share + q /\ pending_rewards' = 0
      /\ ~(total_staked > 0) => /\ pending_rewards' = pending_rewards + a
                                /\ sol_per_share' = sol_per_share
  BY DEF FundNew, IndexIncrement
<1>3. /\ n \in Nat /\ n = W + A /\ W \in Int /\ A \in Int /\ X \in Int /\ C \in Int
      /\ INDEX_SCALE * (unclaimed + a) = C + A
  BY <1>1
<1>4. /\ C >= W + X - sum /\ sol_treasury >= Rent + unclaimed
  BY DEF PoolInv, RewardsInv, Solvency
<1>5. sum \in Nat
  BY SumsTyped DEF PoolInv, RewardsInv
<1>6. total_staked > 0 => q \in Nat /\ total_staked * q <= n
  <2> HIDE DEF n
  <2>1. QED BY <1>1, <1>3, Quotient
<1>7. /\ sol_per_share' \in Nat /\ sol_per_share' >= sol_per_share
      /\ pending_rewards' \in 0..U64Max
  <2> HIDE DEF q
  <2>1. QED BY <1>1, <1>2, <1>6
<1>8. /\ sol_treasury' \in Nat /\ last_treasury_balance' \in Nat /\ unclaimed' \in Int
      /\ last_treasury_balance' <= sol_treasury'
      /\ sol_treasury' >= Rent + unclaimed'
  BY <1>1, <1>2, <1>4
<1>9. RewardsTypeOK'
  BY <1>2, <1>7, <1>8 DEF PoolInv, RewardsInv, RewardsTypeOK, configVars, stakeVars, tokenVars
<1>10. Solvency'
  <2> DEFINE c2 == INDEX_SCALE * unclaimed'
             z2 == INDEX_SCALE * pending_rewards'
             y2 == total_staked' * sol_per_share'
  <2>1. c2 = C + A /\ total_staked' = total_staked /\ reward_debt' = reward_debt
    BY <1>2, <1>3 DEF stakeVars
  <2>2. z2 + y2 <= W + A + X /\ z2 \in Int /\ y2 \in Int
    <3>1. CASE total_staked > 0
      <4>1. sol_per_share' = sol_per_share + q /\ pending_rewards' = 0
        BY <1>2, <3>1
      <4>2. q \in Nat /\ total_staked * q <= n
        BY <1>6, <3>1
      <4> HIDE DEF q, n
      <4>3. total_staked * (sol_per_share + q) = X + total_staked * q
        BY <1>1, <4>2
      <4>4. z2 = 0
        BY <1>1, <4>1
      <4>5. y2 = X + total_staked * q /\ total_staked * q \in Int
        BY <1>1, <2>1, <4>1, <4>2, <4>3
      <4> HIDE DEF z2, y2, X, W, A
      <4>6. QED BY <1>3, <4>2, <4>4, <4>5
    <3>2. CASE ~(total_staked > 0)
      <4>1. pending_rewards' = pending_rewards + a /\ sol_per_share' = sol_per_share
        BY <1>2, <3>2
      <4>2. z2 = W + A /\ y2 = X
        BY <1>1, <2>1, <4>1
      <4> HIDE DEF z2, y2, X, W, A
      <4>3. QED BY <1>3, <4>2
    <3>3. QED BY <3>1, <3>2
  <2> HIDE DEF c2, z2, y2, W, A, X, C, sum
  <2>3. c2 >= z2 + y2 - sum
    BY <1>3, <1>4, <1>5, <2>1, <2>2
  <2>4. QED BY <1>8, <2>1, <2>3 DEF Solvency, c2, z2, y2, sum
<1>11. StakeBacking' /\ DebtIsSettled'
  BY <1>2 DEF PoolInv, RewardsInv, StakeBacking, DebtIsSettled, stakeVars, tokenVars
<1>12. SettledBehind'
  <2>1. \A u \in Users : settled_index[u] \in Nat /\ settled_index[u] <= sol_per_share
    BY DEF PoolInv, RewardsInv, RewardsTypeOK, SettledBehind
  <2>2. settled_index' = settled_index
    BY <1>2 DEF stakeVars
  <2>3. \A u \in Users : settled_index[u] <= sol_per_share'
    BY <1>1, <1>7, <2>1
  <2>4. QED BY <2>2, <2>3 DEF SettledBehind
<1>13. QED BY <1>8, <1>9, <1>10, <1>11, <1>12 DEF PoolInv, RewardsInv, TreasuryNeverRegresses

\* The administrator's steps touch none of the books.
LEMMA AdministrationKeeps ==
    ASSUME PoolInv, PoolAdminStep
    PROVE  PoolInv'
<1>1. /\ UNCHANGED <<indexVars, stakeVars, treasuryVars, tokenVars, last_fund_id>>
      /\ pool_admin' \in Keys /\ allowed_funder' \in Keys /\ reward_bps' \in RewardBps
      /\ is_paused' \in BOOLEAN
  BY DEF PoolAdminStep, UpdateAllowedFunder, UpdatePoolAdmin, UpdateRewardBps, SetPoolPause,
         PoolInv, RewardsInv, RewardsTypeOK
<1>2. RewardsTypeOK'
  BY <1>1 DEF PoolInv, RewardsInv, RewardsTypeOK, indexVars, stakeVars, treasuryVars, tokenVars
<1>3. Solvency' /\ StakeBacking' /\ TreasuryNeverRegresses' /\ DebtIsSettled' /\ SettledBehind'
  BY <1>1 DEF PoolInv, RewardsInv, Solvency, StakeBacking, TreasuryNeverRegresses,
              DebtIsSettled, SettledBehind, indexVars, stakeVars, treasuryVars, tokenVars
<1>4. QED BY <1>1, <1>2, <1>3 DEF PoolInv, RewardsInv

\* A stranger's lamports only add to the treasury.
LEMMA SendKeeps ==
    ASSUME RewardsAssumption, PoolInv, NEW a \in Lamports, SendToTreasury(a)
    PROVE  PoolInv'
<1>1. a \in Nat
  BY AmountsTyped
<1>2. /\ sol_treasury' = sol_treasury + a
      /\ UNCHANGED <<configVars, indexVars, stakeVars, last_treasury_balance, unclaimed,
                     tokenVars, last_fund_id>>
  BY DEF SendToTreasury
<1>3. /\ sol_treasury \in Nat /\ unclaimed \in Int /\ Rent \in Nat
      /\ last_treasury_balance \in Nat
  BY DEF PoolInv, RewardsInv, RewardsTypeOK, RewardsAssumption
<1>4. RewardsTypeOK'
  BY <1>1, <1>2, <1>3 DEF PoolInv, RewardsInv, RewardsTypeOK, configVars, indexVars, stakeVars,
                          tokenVars
<1>5. Solvency'
  <2>1. sol_treasury >= Rent + unclaimed
    BY DEF PoolInv, RewardsInv, Solvency
  <2>2. sol_treasury' >= Rent + unclaimed'
    BY <1>1, <1>2, <1>3, <2>1
  <2>3. QED BY <1>2, <2>2 DEF PoolInv, RewardsInv, Solvency, indexVars, stakeVars
<1>6. TreasuryNeverRegresses'
  BY <1>1, <1>2, <1>3 DEF PoolInv, RewardsInv, TreasuryNeverRegresses
<1>7. StakeBacking' /\ DebtIsSettled' /\ SettledBehind'
  BY <1>2 DEF PoolInv, RewardsInv, StakeBacking, DebtIsSettled, SettledBehind, indexVars,
              stakeVars, tokenVars
<1>8. QED BY <1>4, <1>5, <1>6, <1>7 DEF PoolInv, RewardsInv

\* A receipt changes hands; the total of the receipts stays.
LEMMA TransferKeeps ==
    ASSUME RewardsAssumption, PoolInv, NEW u \in Users, NEW v \in Users, NEW a \in Amounts,
           TransferReceipt(u, v, a)
    PROVE  PoolInv'
<1>1. a \in Nat /\ IsFiniteSet(Users)
  BY AmountsTyped
<1>2. /\ u # v /\ s_attn[u] >= a
      /\ s_attn' = [s_attn EXCEPT ![u] = @ - a, ![v] = @ + a]
      /\ UNCHANGED <<configVars, indexVars, stakeVars, treasuryVars, attn_vault, attn,
                     last_fund_id>>
  BY DEF TransferReceipt
<1>3. s_attn \in [Users -> Nat]
  BY DEF PoolInv, RewardsInv, RewardsTypeOK
<1>4. s_attn' \in [Users -> Nat] /\ SumFunction(s_attn') = SumFunction(s_attn)
  <2> DEFINE x == s_attn[u] - a
             y == s_attn[v] + a
             mid == [s_attn EXCEPT ![u] = x]
  <2>1. /\ x \in Nat /\ y \in Nat /\ x \in Int /\ y \in Int
        /\ s_attn[u] \in Nat /\ s_attn[v] \in Nat /\ s_attn \in [Users -> Int]
    BY <1>1, <1>2, <1>3
  <2>2. s_attn' = [mid EXCEPT ![v] = y] /\ mid[v] = s_attn[v]
    BY <1>1, <1>2, <1>3
  <2>3. x - s_attn[u] = -a /\ y - s_attn[v] = a
    BY <1>1, <1>2, <1>3, <2>1
  <2>4. /\ mid \in [Users -> Nat] /\ mid \in [Users -> Int]
        /\ SumFunction(mid) = SumFunction(s_attn) - s_attn[u] + x /\ SumFunction(s_attn) \in Int
    <3> HIDE DEF x
    <3>1. mid \in [Users -> Nat] /\ mid \in [Users -> Int]
      BY <1>1, <1>2, <1>3, <2>1
    <3>2. SumFunction(mid) = SumFunction(s_attn) - s_attn[u] + x /\ SumFunction(s_attn) \in Int
      BY <1>1, <1>2, <1>3, <2>1, SumUpdate
    <3>3. QED BY <3>1, <3>2
  <2> HIDE DEF x, y, mid
  <2>5. SumFunction([mid EXCEPT ![v] = y]) = SumFunction(mid) - mid[v] + y
    <3>1. mid \in [Users -> Int] /\ y \in Int
      BY <2>1, <2>4
    <3>2. QED BY <1>1, <3>1, SumUpdate
  <2>6. [mid EXCEPT ![v] = y] \in [Users -> Nat]
    BY <2>1, <2>4, BalanceTyped
  <2>7. QED BY <2>1, <2>2, <2>3, <2>4, <2>5, <2>6
<1>5. RewardsTypeOK'
  BY <1>2, <1>4 DEF PoolInv, RewardsInv, RewardsTypeOK, configVars, indexVars, stakeVars,
                    treasuryVars
<1>6. StakeBacking'
  BY <1>2, <1>4 DEF PoolInv, RewardsInv, StakeBacking, indexVars, stakeVars
<1>7. Solvency' /\ TreasuryNeverRegresses' /\ DebtIsSettled' /\ SettledBehind'
  BY <1>2 DEF PoolInv, RewardsInv, Solvency, TreasuryNeverRegresses, DebtIsSettled,
              SettledBehind, indexVars, stakeVars, treasuryVars
<1>8. QED BY <1>5, <1>6, <1>7 DEF PoolInv, RewardsInv

\* A burnt receipt leaves fewer of them than there is stake.
LEMMA BurnReceiptKeeps ==
    ASSUME RewardsAssumption, PoolInv, NEW u \in Users, NEW a \in Amounts, BurnReceipt(u, a)
    PROVE  PoolInv'
<1> DEFINE x == s_attn[u] - a
<1>1. a \in Nat /\ IsFiniteSet(Users)
  BY AmountsTyped
<1>2. /\ s_attn[u] >= a /\ s_attn' = [s_attn EXCEPT ![u] = x]
      /\ UNCHANGED <<configVars, indexVars, stakeVars, treasuryVars, attn_vault, attn,
                     last_fund_id>>
  BY DEF BurnReceipt
<1>3. /\ s_attn \in [Users -> Nat] /\ s_attn \in [Users -> Int]
      /\ s_attn[u] \in Nat /\ total_staked \in Nat
  BY DEF PoolInv, RewardsInv, RewardsTypeOK
<1>4. x \in Nat /\ x \in Int /\ x <= s_attn[u]
  BY <1>1, <1>2, <1>3
<1>5. /\ s_attn' \in [Users -> Nat]
      /\ SumFunction(s_attn') = SumFunction(s_attn) - s_attn[u] + x
      /\ SumFunction(s_attn) \in Int
  <2> HIDE DEF x
  <2>1. [s_attn EXCEPT ![u] = x] \in [Users -> Nat]
    BY <1>3, <1>4, BalanceTyped
  <2>2. /\ SumFunction([s_attn EXCEPT ![u] = x]) = SumFunction(s_attn) - s_attn[u] + x
        /\ SumFunction(s_attn) \in Int
    BY <1>1, <1>3, <1>4, SumUpdate
  <2>3. QED BY <1>2, <2>1, <2>2
<1>6. RewardsTypeOK'
  BY <1>2, <1>5 DEF PoolInv, RewardsInv, RewardsTypeOK, configVars, indexVars, stakeVars,
                    treasuryVars
<1>7. StakeBacking'
  <2>1. SumFunction(s_attn) <= total_staked
    BY DEF PoolInv, RewardsInv, StakeBacking
  <2> HIDE DEF x
  <2>2. SumFunction(s_attn') <= total_staked
    BY <1>3, <1>4, <1>5, <2>1
  <2>3. QED BY <1>2, <2>2 DEF PoolInv, RewardsInv, StakeBacking, indexVars, stakeVars
<1>8. Solvency' /\ TreasuryNeverRegresses' /\ DebtIsSettled' /\ SettledBehind'
  BY <1>2 DEF PoolInv, RewardsInv, Solvency, TreasuryNeverRegresses, DebtIsSettled,
              SettledBehind, indexVars, stakeVars, treasuryVars
<1>9. QED BY <1>6, <1>7, <1>8 DEF PoolInv, RewardsInv

\* attnUSD passed between wallets, or sent to the custody, touches no book of the pool.
LEMMA AttnKeeps ==
    ASSUME RewardsAssumption, PoolInv, NEW u \in Users, NEW v \in Users, NEW a \in Amounts,
           TransferAttn(u, v, a) \/ SendToAttnVault(u, a)
    PROVE  PoolInv'
<1>1. a \in Nat /\ IsFiniteSet(Users)
  BY AmountsTyped
<1>2. attn \in [Users -> Nat] /\ attn_vault \in Nat
  BY DEF PoolInv, RewardsInv, RewardsTypeOK
<1>3. /\ attn' \in [Users -> Nat] /\ attn_vault' \in Nat /\ attn_vault' >= attn_vault
      /\ UNCHANGED <<configVars, indexVars, stakeVars, treasuryVars, s_attn, last_fund_id>>
  <2>1. CASE TransferAttn(u, v, a)
    <3>1. /\ u # v /\ attn[u] >= a /\ attn' = [attn EXCEPT ![u] = @ - a, ![v] = @ + a]
          /\ UNCHANGED <<configVars, indexVars, stakeVars, treasuryVars, attn_vault, s_attn,
                         last_fund_id>>
      BY <2>1 DEF TransferAttn
    <3>2. attn[v] + a \in Nat /\ attn[u] - a \in Nat
      BY <1>1, <1>2, <3>1
    <3>3. attn' \in [Users -> Nat]
      BY <1>2, <3>1, <3>2
    <3>4. QED BY <1>2, <3>1, <3>3
  <2>2. CASE SendToAttnVault(u, a)
    <3>1. /\ attn[u] >= a /\ attn' = [attn EXCEPT ![u] = attn[u] - a]
          /\ attn_vault' = attn_vault + a
          /\ UNCHANGED <<configVars, indexVars, stakeVars, treasuryVars, s_attn, last_fund_id>>
      BY <2>2 DEF SendToAttnVault
    <3>2. attn[u] - a \in Nat
      BY <1>1, <1>2, <3>1
    <3>3. QED BY <1>1, <1>2, <3>1, <3>2, BalanceTyped
  <2>3. QED BY <2>1, <2>2
<1>4. RewardsTypeOK'
  BY <1>3 DEF PoolInv, RewardsInv, RewardsTypeOK, configVars, indexVars, stakeVars,
              treasuryVars
<1>5. StakeBacking'
  <2>1. attn_vault >= total_staked /\ total_staked \in Nat
    BY DEF PoolInv, RewardsInv, RewardsTypeOK, StakeBacking
  <2>2. attn_vault' >= total_staked
    BY <1>2, <1>3, <2>1
  <2>3. QED BY <1>3, <2>2 DEF PoolInv, RewardsInv, StakeBacking, indexVars, stakeVars
<1>6. Solvency' /\ TreasuryNeverRegresses' /\ DebtIsSettled' /\ SettledBehind'
  BY <1>3 DEF PoolInv, RewardsInv, Solvency, TreasuryNeverRegresses, DebtIsSettled,
              SettledBehind, indexVars, stakeVars, treasuryVars
<1>7. QED BY <1>4, <1>5, <1>6 DEF PoolInv, RewardsInv

-----------------------------------------------------------------------------
(* The theorems.                                                           *)

\* A new pool satisfies the invariant.
LEMMA PoolInitially ==
    ASSUME RewardsAssumption, RewardsInit
    PROVE  PoolInv
<1>1. IsFiniteSet(Users) /\ INDEX_SCALE \in Nat /\ Rent \in Nat /\ U64Max \in Nat
      /\ InitialAttn \in Nat /\ Lamports \subseteq Nat
  BY AmountsTyped DEF RewardsAssumption
<1>2. SumFunction([u \in Users |-> 0]) = 0
  BY <1>1, SumOfZeros
<1>3. /\ staked_amount = [u \in Users |-> 0] /\ reward_debt = [u \in Users |-> 0]
      /\ s_attn = [u \in Users |-> 0] /\ settled_index = [u \in Users |-> 0]
      /\ attn = [u \in Users |-> InitialAttn]
      /\ total_staked = 0 /\ sol_per_share = 0 /\ pending_rewards = 0 /\ last_fund_id = 0
      /\ positions = {} /\ attn_vault = 0 /\ unclaimed = 0
      /\ last_treasury_balance = sol_treasury
      /\ sol_treasury = Rent \/ \E a \in Lamports : sol_treasury = Rent + a
      /\ pool_admin \in Keys /\ allowed_funder \in Keys /\ reward_bps \in RewardBps
      /\ is_paused \in BOOLEAN
  BY DEF RewardsInit
<1>4. sol_treasury \in Nat /\ sol_treasury >= Rent
  BY <1>1, <1>3
<1>5. RewardsTypeOK
  BY <1>1, <1>3, <1>4 DEF RewardsTypeOK
<1>6. Solvency
  <2>1. INDEX_SCALE * unclaimed = 0 /\ INDEX_SCALE * pending_rewards = 0
        /\ total_staked * sol_per_share = 0
    BY <1>1, <1>3
  <2>2. SumFunction(reward_debt) = 0
    BY <1>2, <1>3
  <2>3. QED BY <1>1, <1>3, <1>4, <2>1, <2>2 DEF Solvency
<1>7. StakeBacking
  BY <1>2, <1>3 DEF StakeBacking
<1>8. TreasuryNeverRegresses
  BY <1>3, <1>4 DEF TreasuryNeverRegresses
<1>9. \A u \in Users : staked_amount[u] = 0 /\ reward_debt[u] = 0 /\ settled_index[u] = 0
  BY <1>3
<1>10. DebtIsSettled /\ SettledBehind
  BY <1>3, <1>9 DEF DebtIsSettled, SettledBehind
<1>11. QED BY <1>5, <1>6, <1>7, <1>8, <1>10 DEF PoolInv, RewardsInv

\* A step that changes nothing keeps the invariant.
LEMMA PoolStutter ==
    ASSUME PoolInv, UNCHANGED rewardsVars
    PROVE  PoolInv'
<1>1. RewardsTypeOK'
  BY DEF PoolInv, RewardsInv, RewardsTypeOK, rewardsVars, configVars, indexVars, stakeVars,
         treasuryVars, tokenVars
<1>2. Solvency' /\ StakeBacking' /\ TreasuryNeverRegresses' /\ DebtIsSettled' /\ SettledBehind'
  BY DEF PoolInv, RewardsInv, Solvency, StakeBacking, TreasuryNeverRegresses, DebtIsSettled,
         SettledBehind, rewardsVars, indexVars, stakeVars, treasuryVars, tokenVars
<1>3. QED BY <1>1, <1>2 DEF PoolInv, RewardsInv

\* Every step of the pool keeps the invariant.
LEMMA PoolStep ==
    ASSUME RewardsAssumption, PoolInv, RewardsNext
    PROVE  PoolInv'
<1>1. CASE StakerStep
  BY <1>1, StakeKeeps, UnstakeKeeps, ClaimKeeps DEF StakerStep
<1>2. CASE \E a \in Lamports, id \in OpIds : FundRewards(a, id)
  <2>1. PICK a \in Lamports, id \in OpIds : FundDuplicate(id) \/ FundNew(a, id)
    BY <1>2 DEF FundRewards
  <2>2. CASE FundDuplicate(id)
    <3>1. UNCHANGED rewardsVars
      BY <2>2 DEF FundDuplicate
    <3>2. QED BY <3>1, PoolStutter
  <2>3. CASE FundNew(a, id)
    <3>1. a \in Nat
      BY AmountsTyped
    <3>2. QED BY <2>3, <3>1, FundKeeps
  <2>4. QED BY <2>1, <2>2, <2>3
<1>3. CASE PoolAdminStep
  BY <1>3, AdministrationKeeps
<1>4. CASE OutsideStep
  BY <1>4, SendKeeps, TransferKeeps, BurnReceiptKeeps, AttnKeeps DEF OutsideStep
<1>5. QED BY <1>1, <1>2, <1>3, <1>4 DEF RewardsNext

\* Whatever sequence of stakes, claims and fundings, and whatever is sent, transferred or
\* burnt outside the program: what the pool owes is funded and in its treasury, the
\* positions add up to the recorded stake, the custody covers it, no more receipts are out
\* than it, and the treasury record never locks the funder out.
THEOREM ThePoolIsSolvent == RewardsSpec => []RewardsInv
<1>1. RewardsInit => PoolInv
  BY RewardsAssumption, PoolInitially
<1>2. PoolInv /\ [RewardsNext]_rewardsVars => PoolInv'
  BY RewardsAssumption, PoolStep, PoolStutter
<1>3. PoolInv => RewardsInv
  BY DEF PoolInv
<1>4. QED BY <1>1, <1>2, <1>3, PTL DEF RewardsSpec

\* Nobody is paid for SOL that was distributed before its stake was settled.
THEOREM NothingIsRetroactive == RewardsSpec => []NoRetroactiveRewards
<1>1. RewardsInit => PoolInv
  BY RewardsAssumption, PoolInitially
<1>2. PoolInv /\ [RewardsNext]_rewardsVars => PoolInv'
  BY RewardsAssumption, PoolStep, PoolStutter
<1>3. PoolInv => NoRetroactiveRewards
  BY RewardsAssumption, NothingRetroactive
<1>4. QED BY <1>1, <1>2, <1>3, PTL DEF RewardsSpec

-----------------------------------------------------------------------------
(* Nobody is locked in.                                                   *)

\* A stake has a position account: staking creates it and nothing closes it.
StakeHasPosition == \A u \in Users : u \notin positions => staked_amount[u] = 0

\* Every step keeps a position under every stake.
LEMMA PositionStep ==
    ASSUME RewardsTypeOK, StakeHasPosition, RewardsNext
    PROVE  StakeHasPosition'
<1>1. staked_amount \in [Users -> Nat] /\ positions \subseteq Users
  BY DEF RewardsTypeOK
<1>2. ASSUME NEW u \in Users, NEW x, SetStake(u, x), u \in positions',
             positions \subseteq positions'
      PROVE  StakeHasPosition'
  <2>1. staked_amount' = [staked_amount EXCEPT ![u] = x]
    BY <1>2 DEF SetStake
  <2>2. \A w \in Users : w # u => staked_amount'[w] = staked_amount[w]
    BY <1>1, <2>1
  <2>3. QED BY <1>2, <2>2 DEF StakeHasPosition
<1>3. CASE UNCHANGED <<positions, staked_amount>>
  BY <1>3 DEF StakeHasPosition
<1>4. CASE StakerStep
  <2>1. ASSUME NEW u \in Users, NEW a \in Amounts, StakeAttnUsd(u, a)
        PROVE  StakeHasPosition'
    BY <1>2, <2>1 DEF StakeAttnUsd
  <2>2. ASSUME NEW u \in Users, NEW a \in Amounts, UnstakeAttnUsd(u, a)
        PROVE  StakeHasPosition'
    BY <1>2, <2>2 DEF UnstakeAttnUsd, UnstakeAccepted, HasStaked
  <2>3. ASSUME NEW u \in Users, ClaimRewards(u)
        PROVE  StakeHasPosition'
    BY <1>2, <2>3 DEF ClaimRewards
  <2>4. QED BY <1>4, <2>1, <2>2, <2>3 DEF StakerStep
<1>5. CASE \E a \in Lamports, id \in OpIds : FundRewards(a, id)
  BY <1>3, <1>5 DEF FundRewards, FundDuplicate, FundNew, rewardsVars, stakeVars
<1>6. CASE PoolAdminStep
  BY <1>3, <1>6 DEF PoolAdminStep, UpdateAllowedFunder, UpdatePoolAdmin, UpdateRewardBps,
                    SetPoolPause, stakeVars
<1>7. CASE OutsideStep
  BY <1>3, <1>7 DEF OutsideStep, SendToTreasury, TransferReceipt, BurnReceipt, TransferAttn,
                    SendToAttnVault, stakeVars
<1>8. QED BY <1>4, <1>5, <1>6, <1>7 DEF RewardsNext

\* What a settlement would pay is funded and unclaimed: the accruals of all stakes add up
\* to no more, and one of them is no more than their sum.
LEMMA PaidIsCovered ==
    ASSUME RewardsAssumption, PoolInv, NEW u \in Users
    PROVE  PendingAmount(u) <= unclaimed
<1> DEFINE D == DistributedIndex
           P == DistributedPending
           sum == SumFunction(reward_debt)
           h == [w \in Users |-> staked_amount[w] * D - reward_debt[w]]
           paid == PendingAmount(u)
<1>1. /\ IsFiniteSet(Users) /\ INDEX_SCALE \in Nat \ {0} /\ U64Max \in Nat
      /\ staked_amount \in [Users -> Nat] /\ reward_debt \in [Users -> Nat]
      /\ settled_index \in [Users -> Nat]
      /\ total_staked \in Nat /\ pending_rewards \in Nat /\ sol_per_share \in Nat
      /\ unclaimed \in Int
  BY DEF RewardsAssumption, PoolInv, RewardsInv, RewardsTypeOK
<1>2. /\ D \in Nat /\ D >= sol_per_share /\ P \in 0..U64Max
      /\ INDEX_SCALE * P + total_staked * D
           <= INDEX_SCALE * pending_rewards + total_staked * sol_per_share
  BY Distribute DEF PoolInv, RewardsInv
<1>3. paid \in Nat /\ INDEX_SCALE * paid <= staked_amount[u] * D - reward_debt[u]
  BY Paid
<1>4. sum \in Nat
  BY SumsTyped DEF PoolInv, RewardsInv
<1> HIDE DEF D, P, paid
<1>5. \A w \in Users : staked_amount[w] * D - reward_debt[w] \in Nat
  <2> SUFFICES ASSUME NEW w \in Users
               PROVE  staked_amount[w] * D - reward_debt[w] \in Nat
    OBVIOUS
  <2>1. /\ staked_amount[w] \in Nat /\ reward_debt[w] \in Nat /\ settled_index[w] \in Nat
        /\ settled_index[w] <= sol_per_share
        /\ reward_debt[w] = staked_amount[w] * settled_index[w]
    BY <1>1 DEF PoolInv, DebtIsSettled, SettledBehind
  <2>2. settled_index[w] <= D
    BY <1>1, <1>2, <2>1
  <2>3. staked_amount[w] * settled_index[w] <= staked_amount[w] * D
    BY <1>2, <2>1, <2>2, Product
  <2>4. staked_amount[w] * D \in Nat
    BY <1>2, <2>1
  <2>5. QED BY <2>1, <2>3, <2>4
<1>6. h \in [Users -> Nat] /\ \A w \in Users : h[w] = staked_amount[w] * D - reward_debt[w]
  BY <1>5
<1> HIDE DEF h
<1>7. h[u] <= SumFunction(h)
  BY <1>1, <1>6, SumOfNaturals
<1>8. SumFunction(h) = SumFunction(staked_amount) * D - SumFunction(reward_debt)
  <2>1. /\ h \in [Users -> Int] /\ staked_amount \in [Users -> Int]
        /\ reward_debt \in [Users -> Int] /\ D \in Int
    BY <1>1, <1>2, <1>6
  <2>2. \A w \in Users : h[w] = staked_amount[w] * D - reward_debt[w]
    BY <1>6
  <2>3. IsFiniteSet(Users)
    BY <1>1
  <2>4. IsDifference(h, staked_amount, D, reward_debt, Users)
    BY <2>2 DEF IsDifference
  <2> HIDE DEF sum
  <2>5. /\ SumFunction(h) = SumFunction(staked_amount) * D - SumFunction(reward_debt)
        /\ SumFunction(staked_amount) \in Int /\ SumFunction(reward_debt) \in Int
    BY <2>1, <2>3, <2>4, SumOfDifferences
  <2>6. QED BY <2>5
<1>9. SumFunction(staked_amount) = total_staked
  BY DEF PoolInv, RewardsInv, StakeBacking
<1>10. INDEX_SCALE * unclaimed >=
         INDEX_SCALE * pending_rewards + total_staked * sol_per_share - sum
  BY DEF PoolInv, RewardsInv, Solvency
<1> DEFINE W == INDEX_SCALE * pending_rewards
           X == total_staked * sol_per_share
           Y == total_staked * D
           Z == INDEX_SCALE * P
           C == INDEX_SCALE * unclaimed
           G == INDEX_SCALE * paid
<1>11. /\ W \in Int /\ X \in Int /\ Y \in Int /\ Z \in Nat /\ C \in Int /\ G \in Int
       /\ h[u] \in Nat
  BY <1>1, <1>2, <1>3, <1>6
<1>12. /\ Z + Y <= W + X /\ G <= h[u] /\ C >= W + X - sum
  BY <1>2, <1>3, <1>6, <1>10
<1>13. h[u] <= Y - sum
  BY <1>7, <1>8, <1>9
<1>14. G <= C
  <2> HIDE DEF W, X, Y, Z, C, G, sum
  <2>1. QED BY <1>4, <1>11, <1>12, <1>13
<1>15. SUFFICES ASSUME unclaimed + 1 <= paid PROVE FALSE
  BY <1>1, <1>3 DEF paid
<1>16. INDEX_SCALE * (paid - unclaimed) = G - C
  BY <1>1, <1>3
<1>17. paid - unclaimed \in Nat /\ paid - unclaimed >= 1
  BY <1>1, <1>3, <1>15
<1>18. INDEX_SCALE * (paid - unclaimed) >= INDEX_SCALE * 1
  <2> DEFINE one == 1
             gap == paid - unclaimed
  <2>1. one \in Nat /\ gap \in Nat /\ one <= gap /\ INDEX_SCALE \in Nat
    BY <1>1, <1>17
  <2> HIDE DEF one, gap
  <2>2. INDEX_SCALE * one <= INDEX_SCALE * gap
    BY <2>1, Product
  <2>3. QED BY <2>2 DEF one, gap
<1> HIDE DEF C, G
<1>19. QED BY <1>1, <1>11, <1>14, <1>16, <1>18

\* A staker that holds its receipts passes every check of an unstake while the pool is
\* active, its settlement included: its rewards, the rent of the treasury and the custody
\* of its attnUSD are all there.
THEOREM StakersAreNeverLocked ==
    RewardsSpec => []StakerCanExit
<1> DEFINE Inv == PoolInv /\ StakeHasPosition
<1>1. RewardsInit => Inv
  <2>1. RewardsInit => StakeHasPosition
    BY DEF RewardsInit, StakeHasPosition
  <2>2. QED BY <2>1, RewardsAssumption, PoolInitially
<1>2. Inv /\ [RewardsNext]_rewardsVars => Inv'
  <2>1. ASSUME Inv, RewardsNext PROVE Inv'
    <3>1. PoolInv'
      BY <2>1, RewardsAssumption, PoolStep
    <3>2. StakeHasPosition'
      BY <2>1, PositionStep DEF PoolInv, RewardsInv
    <3>3. QED BY <3>1, <3>2
  <2>2. ASSUME Inv, UNCHANGED rewardsVars PROVE Inv'
    <3>1. StakeHasPosition'
      BY <2>2 DEF StakeHasPosition, rewardsVars, stakeVars
    <3>2. QED BY <2>2, <3>1, PoolStutter
  <2>3. QED BY <2>1, <2>2
<1>3. ASSUME Inv, NEW u \in Users, NEW a \in Amounts,
             ~is_paused, staked_amount[u] >= a, s_attn[u] >= a
      PROVE  UnstakeAccepted(u, a)
  <2>1. a \in Nat /\ a > 0
    BY AmountsTyped, RewardsAssumption
  <2>2. /\ staked_amount[u] \in Nat /\ total_staked \in Nat /\ attn_vault \in Nat
        /\ attn_vault >= total_staked /\ SumFunction(staked_amount) = total_staked
    BY <1>3 DEF PoolInv, RewardsInv, RewardsTypeOK, StakeBacking
  <2>3. staked_amount[u] <= SumFunction(staked_amount)
    BY <1>3, SumsTyped, RewardsAssumption DEF PoolInv, RewardsInv
  <2>4. attn_vault >= a
    BY <1>3, <2>1, <2>2, <2>3
  <2>5. u \in positions
    BY <1>3, <2>1, <2>2 DEF StakeHasPosition
  <2>6. SolTransferable(sol_treasury, PendingAmount(u))
    <3> DEFINE paid == PendingAmount(u)
    <3>1. paid \in Nat /\ paid <= unclaimed
      BY <1>3, Paid, PaidIsCovered, RewardsAssumption
    <3>2. /\ sol_treasury \in Nat /\ unclaimed \in Int /\ Rent \in Nat
          /\ sol_treasury >= Rent + unclaimed
      BY <1>3, RewardsAssumption DEF PoolInv, RewardsInv, RewardsTypeOK, Solvency,
                                     RewardsAssumption
    <3> HIDE DEF paid
    <3>3. sol_treasury >= paid + Rent
      BY <3>1, <3>2
    <3>4. QED BY <3>3 DEF SolTransferable, paid
  <2>7. QED BY <1>3, <2>4, <2>5, <2>6 DEF UnstakeAccepted, HasStaked
<1>4. Inv => StakerCanExit
  BY <1>3 DEF StakerCanExit
<1> HIDE DEF Inv
<1>5. QED BY <1>1, <1>2, <1>4, PTL DEF RewardsSpec

-----------------------------------------------------------------------------
(* The stable vault over the pool.                                         *)

\* Both programs' books together: what makes them inductive is that neither is kept
\* alone.  The vault's shares lie partly in the pool's custody, and a sweep funds the
\* pool; par keeps a deposit from minting more shares than it brings assets.
VaultInv ==
    /\ PoolInv
    /\ StableTypeOK
    /\ ParFloor
    /\ Custody

-----------------------------------------------------------------------------
(* Shares and wallets.                                                     *)

\* The numbers that the vault's handlers compute with.
LEMMA VaultNumbers ==
    ASSUME RewardsAssumption, VaultInv
    PROVE  /\ U64Max \in Nat
           /\ total_assets \in 0..U64Max /\ total_shares \in 0..U64Max
           /\ treasury \in 0..U64Max /\ share_supply \in 0..U64Max
           /\ total_assets >= total_shares /\ treasury >= total_assets
           /\ share_supply <= total_shares
           /\ share_supply = SumFunction(attn) + attn_vault
           /\ SumFunction(attn) \in Nat /\ attn_vault \in Nat
           /\ attn \in [Users -> Nat]
           /\ \A u \in Users : attn[u] <= SumFunction(attn)
           /\ pending_sol \in 0..U64Max /\ sol_vault \in Nat
           /\ sol_vault >= Rent + pending_sol /\ Rent \in Nat
<1>1. /\ attn \in [Users -> Nat] /\ attn_vault \in Nat /\ IsFiniteSet(Users)
      /\ U64Max \in Nat /\ Rent \in Nat
  BY DEF VaultInv, PoolInv, RewardsInv, RewardsTypeOK, RewardsAssumption
<1>2. SumFunction(attn) \in Nat /\ \A u \in Users : attn[u] <= SumFunction(attn)
  BY <1>1, SumOfNaturals
<1>3. QED BY <1>1, <1>2 DEF VaultInv, StableTypeOK, ParFloor, Custody

\* A wallet's shares, changed by d: the sum of the wallets changes by d.
LEMMA WalletChanges ==
    ASSUME RewardsAssumption, VaultInv, NEW u \in Users, NEW d \in Int, attn[u] + d \in Nat,
           attn' = [attn EXCEPT ![u] = attn[u] + d]
    PROVE  /\ attn' \in [Users -> Nat]
           /\ SumFunction(attn') = SumFunction(attn) + d
<1> DEFINE v == attn[u] + d
<1>1. /\ attn \in [Users -> Nat] /\ attn \in [Users -> Int] /\ attn[u] \in Nat
      /\ SumFunction(attn) \in Nat /\ IsFiniteSet(Users)
  BY VaultNumbers DEF RewardsAssumption
<1>2. v \in Int /\ v \in Nat
  OBVIOUS
<1> HIDE DEF v
<1>3. SumFunction([attn EXCEPT ![u] = v]) = SumFunction(attn) - attn[u] + v
  BY <1>1, <1>2, SumUpdate
<1>4. attn' = [attn EXCEPT ![u] = v]
  BY DEF v
<1>5. attn' \in [Users -> Nat]
  BY <1>1, <1>2, <1>4, BalanceTyped
<1>6. QED BY <1>1, <1>3, <1>4, <1>5 DEF v

\* A step of the vault that leaves the pool alone but for a wallet's shares keeps the
\* pool's invariant.
LEMMA PoolUntouched ==
    ASSUME PoolInv, UNCHANGED poolVars, attn' \in [Users -> Nat]
    PROVE  PoolInv'
<1>1. RewardsTypeOK'
  BY DEF PoolInv, RewardsInv, RewardsTypeOK, poolVars, configVars, indexVars, stakeVars,
         treasuryVars
<1>2. Solvency' /\ StakeBacking' /\ TreasuryNeverRegresses' /\ DebtIsSettled' /\ SettledBehind'
  BY DEF PoolInv, RewardsInv, Solvency, StakeBacking, TreasuryNeverRegresses, DebtIsSettled,
         SettledBehind, poolVars, indexVars, stakeVars, treasuryVars
<1>3. QED BY <1>1, <1>2 DEF PoolInv, RewardsInv

\* The shares a deposit buys: no more than it brings, at a price no lower than before.
LEMMA DepositPreview ==
    ASSUME RewardsAssumption, VaultInv, NEW a \in Nat
    PROVE  /\ PreviewDeposit(a) \in Nat
           /\ PreviewDeposit(a) <= a
           /\ total_shares > 0 => total_assets * PreviewDeposit(a) <= a * total_shares
<1> DEFINE n == a * total_shares
           q == n \div total_assets
           p == PreviewDeposit(a)
<1>1. total_assets \in Nat /\ total_shares \in Nat /\ total_shares <= total_assets
  BY VaultNumbers
<1>2. n \in Nat /\ n <= a * total_assets
  BY <1>1, Product
<1>3. CASE total_shares = 0 \/ total_assets = 0
  BY <1>1, <1>3 DEF PreviewDeposit
<1>4. CASE ~(total_shares = 0 \/ total_assets = 0)
  <2>1. p = q
    BY <1>4 DEF PreviewDeposit
  <2> HIDE DEF n
  <2>2. q \in Nat /\ total_assets * q <= n
    BY <1>1, <1>2, <1>4, Quotient
  <2> HIDE DEF q
  <2>3. total_assets * q <= total_assets * a
    BY <1>1, <1>2, <2>2
  <2>4. q <= a
    <3>1. SUFFICES ASSUME q >= a + 1 PROVE FALSE
      BY <2>2
    <3>2. total_assets * (a + 1) <= total_assets * q
      BY <1>1, <2>2, <3>1, Product
    <3>3. total_assets * (a + 1) = total_assets * a + total_assets
      BY <1>1
    <3>4. QED BY <1>1, <1>4, <2>2, <2>3, <3>2, <3>3
  <2>5. QED BY <2>1, <2>2, <2>4 DEF n
<1>5. QED BY <1>3, <1>4

\* The assets that shares fetch: at least par, at most the share of the assets that the
\* shares are of all.
LEMMA RedeemPreview ==
    ASSUME RewardsAssumption, VaultInv, NEW s \in Nat, s > 0, s <= total_shares
    PROVE  /\ PreviewRedeem(s) \in Nat
           /\ PreviewRedeem(s) >= s
           /\ PreviewRedeem(s) <= total_assets
           /\ PreviewRedeem(s) * total_shares <= s * total_assets
           /\ total_assets - PreviewRedeem(s) >= total_shares - s
<1> DEFINE n == s * total_assets
           q == n \div total_shares
           r == total_shares - s
<1>1. /\ total_assets \in Nat /\ total_shares \in Nat /\ total_shares <= total_assets
      /\ total_shares > 0
  BY VaultNumbers
<1>2. n \in Nat
  BY <1>1
<1>3. CASE s = total_shares
  BY <1>1, <1>3 DEF PreviewRedeem
<1>4. CASE s # total_shares
  <2>1. PreviewRedeem(s) = q
    BY <1>4 DEF PreviewRedeem
  <2> HIDE DEF n
  <2>2. q \in Nat /\ total_shares * q <= n /\ n < total_shares * q + total_shares
    BY <1>1, <1>2
  <2> HIDE DEF q
  <2>3. r \in Nat /\ total_shares * r <= total_assets * r
    <3>1. r \in Nat
      BY <1>1
    <3> HIDE DEF r
    <3>2. r * total_shares <= r * total_assets
      BY <1>1, <3>1, Product
    <3>3. QED BY <1>1, <3>1, <3>2
  <2>4. s * total_shares <= n
    BY <1>1, Product DEF n
  <2>5. q >= s
    <3>1. SUFFICES ASSUME q + 1 <= s PROVE FALSE
      BY <2>2
    <3>2. total_shares * (q + 1) <= total_shares * s
      BY <1>1, <2>2, <3>1, Product
    <3>3. total_shares * (q + 1) = total_shares * q + total_shares
      BY <1>1, <2>2
    <3>4. QED BY <1>1, <1>2, <2>2, <2>4, <3>2, <3>3
  <2>6. total_assets - q >= r
    <3>1. SUFFICES ASSUME total_assets - q + 1 <= r PROVE FALSE
      BY <1>1, <2>2, <2>3
    <3>2. total_shares * (total_assets - q) = total_shares * total_assets - total_shares * q
      BY <1>1, <2>2
    <3>3. total_assets * r = total_shares * total_assets - n
      BY <1>1 DEF n
    <3>4. total_shares * r <= total_shares * (total_assets - q)
      BY <1>1, <1>2, <2>2, <2>3, <3>2, <3>3
    <3>5. total_shares * (total_assets - q) + total_shares <= total_shares * r
      <4> DEFINE d == r - (total_assets - q + 1)
      <4>1. d \in Nat
        BY <1>1, <2>2, <2>3, <3>1
      <4>2. total_shares * d \in Nat
        BY <1>1, <4>1
      <4>3. total_shares * d
              = total_shares * r - total_shares * (total_assets - q) - total_shares
        BY <1>1, <2>2
      <4> HIDE DEF d
      <4>4. QED BY <1>1, <2>2, <2>3, <4>2, <4>3
    <3>6. QED BY <1>1, <2>2, <2>3, <3>4, <3>5
  <2>7. QED BY <1>1, <2>1, <2>2, <2>3, <2>5, <2>6 DEF n, r
<1>5. QED BY <1>3, <1>4
-----------------------------------------------------------------------------
(* One lemma per operation: what it keeps, and what it does to a share.    *)

\* A share is worth no less after the step.
NavStep ==
    total_shares > 0 /\ total_shares' > 0
        => total_assets' * total_shares >= total_assets * total_shares'

\* A step that moves neither the assets nor the shares leaves a share's worth alone.
LEMMA NavUntouched ==
    ASSUME RewardsAssumption, VaultInv, UNCHANGED <<total_assets, total_shares>>
    PROVE  NavStep
<1>1. total_assets \in Nat /\ total_shares \in Nat
  BY VaultNumbers
<1>2. total_assets' = total_assets /\ total_shares' = total_shares
  OBVIOUS
<1>3. QED BY <1>1, <1>2 DEF NavStep

\* deposit_stable.
LEMMA DepositKeeps ==
    ASSUME RewardsAssumption, VaultInv, NEW u \in Users, NEW m \in StableMints,
           NEW a \in Amounts, DepositStable(u, m, a)
    PROVE  VaultInv' /\ NavStep
<1> DEFINE s == PreviewDeposit(a)
<1>1. a \in Nat /\ a > 0
  BY AmountsTyped
<1>2. /\ U64Max \in Nat
      /\ total_assets \in 0..U64Max /\ total_shares \in 0..U64Max
      /\ treasury \in 0..U64Max /\ share_supply \in 0..U64Max
      /\ total_assets >= total_shares /\ treasury >= total_assets
      /\ share_supply <= total_shares
      /\ share_supply = SumFunction(attn) + attn_vault
      /\ SumFunction(attn) \in Nat /\ attn_vault \in Nat /\ attn \in [Users -> Nat]
  BY VaultNumbers
<1>3. /\ s \in Nat /\ s <= a
      /\ total_shares > 0 => total_assets * s <= a * total_shares
  BY <1>1, DepositPreview
<1>4. /\ treasury + a <= U64Max /\ share_supply + s <= U64Max
      /\ total_assets + a <= U64Max /\ total_shares + s <= U64Max
      /\ treasury' = treasury + a /\ share_supply' = share_supply + s
      /\ attn' = [attn EXCEPT ![u] = attn[u] + s]
      /\ total_assets' = total_assets + a /\ total_shares' = total_shares + s
      /\ UNCHANGED <<poolVars, stableRoleVars, solVars, idVars, creatorVars>>
  BY DEF DepositStable
<1> HIDE DEF s
<1>5. attn' \in [Users -> Nat] /\ SumFunction(attn') = SumFunction(attn) + s
  <2>1. s \in Int /\ attn[u] + s \in Nat
    BY <1>2, <1>3
  <2>2. QED BY <1>4, <2>1, WalletChanges
<1>6. PoolInv'
  BY <1>4, <1>5, PoolUntouched DEF VaultInv
<1>7. /\ total_assets' \in 0..U64Max /\ total_shares' \in 0..U64Max
      /\ treasury' \in 0..U64Max /\ share_supply' \in 0..U64Max
      /\ total_assets' >= total_shares' /\ treasury' >= total_assets'
      /\ share_supply' <= total_shares'
  BY <1>1, <1>2, <1>3, <1>4
<1>8. StableTypeOK'
  BY <1>4, <1>6, <1>7 DEF VaultInv, StableTypeOK, PoolInv, RewardsInv, stableRoleVars, solVars,
                          idVars, creatorVars
<1>9. share_supply' = SumFunction(attn') + attn_vault'
  <2>1. attn_vault' = attn_vault
    BY <1>4 DEF poolVars
  <2>2. QED BY <1>2, <1>3, <1>4, <1>5, <2>1
<1>10. ParFloor' /\ Custody'
  <2>1. (sol_vault >= Rent + pending_sol)'
    BY <1>4 DEF VaultInv, Custody, solVars
  <2>2. QED BY <1>7, <1>9, <2>1 DEF ParFloor, Custody
<1>11. NavStep
  <2>1. ASSUME total_shares > 0
        PROVE  (total_assets + a) * total_shares >= total_assets * (total_shares + s)
    <3>1. total_assets * s <= a * total_shares
      BY <1>3, <2>1
    <3>2. (total_assets + a) * total_shares = total_assets * total_shares + a * total_shares
      BY <1>1, <1>2
    <3>3. total_assets * (total_shares + s) = total_assets * total_shares + total_assets * s
      BY <1>2, <1>3
    <3>4. /\ total_assets * total_shares \in Int /\ a * total_shares \in Int
          /\ total_assets * s \in Int
      BY <1>1, <1>2, <1>3
    <3>5. QED BY <3>1, <3>2, <3>3, <3>4
  <2>2. QED BY <1>4, <2>1 DEF NavStep
<1>12. QED BY <1>6, <1>8, <1>10, <1>11 DEF VaultInv

\* redeem_attnusd.
LEMMA RedeemKeeps ==
    ASSUME RewardsAssumption, VaultInv, NEW u \in Users, NEW a \in Amounts,
           RedeemAttnUsd(u, a)
    PROVE  VaultInv' /\ NavStep
<1> DEFINE p == PreviewRedeem(a)
           d == -a
<1>1. a \in Nat /\ a > 0 /\ d \in Int
  BY AmountsTyped
<1>2. /\ U64Max \in Nat
      /\ total_assets \in 0..U64Max /\ total_shares \in 0..U64Max
      /\ treasury \in 0..U64Max /\ share_supply \in 0..U64Max
      /\ total_assets >= total_shares /\ treasury >= total_assets
      /\ share_supply <= total_shares
      /\ share_supply = SumFunction(attn) + attn_vault
      /\ SumFunction(attn) \in Nat /\ attn_vault \in Nat /\ attn \in [Users -> Nat]
  BY VaultNumbers
<1>3. /\ total_shares >= a /\ attn[u] >= a /\ share_supply >= a /\ treasury >= p
      /\ total_assets >= p
      /\ treasury' = treasury - p /\ share_supply' = share_supply - a
      /\ attn' = [attn EXCEPT ![u] = attn[u] - a]
      /\ total_assets' = total_assets - p /\ total_shares' = total_shares - a
      /\ UNCHANGED <<poolVars, stableRoleVars, solVars, idVars, creatorVars>>
  BY DEF RedeemAttnUsd, RedeemAccepted
<1>4. /\ p \in Nat /\ p * total_shares <= a * total_assets
      /\ total_assets - p >= total_shares - a
  BY <1>1, <1>3, RedeemPreview
<1> HIDE DEF p
<1>5. attn[u] \in Nat /\ attn[u] - a = attn[u] + d /\ attn[u] + d \in Nat
  BY <1>1, <1>2, <1>3
<1> HIDE DEF d
<1>6. attn' \in [Users -> Nat] /\ SumFunction(attn') = SumFunction(attn) + d
  BY <1>1, <1>3, <1>5, WalletChanges
<1>7. PoolInv'
  BY <1>3, <1>6, PoolUntouched DEF VaultInv
<1>8. /\ total_assets' \in 0..U64Max /\ total_shares' \in 0..U64Max
      /\ treasury' \in 0..U64Max /\ share_supply' \in 0..U64Max
      /\ total_assets' >= total_shares' /\ treasury' >= total_assets'
      /\ share_supply' <= total_shares'
  BY <1>1, <1>2, <1>3, <1>4
<1>9. StableTypeOK'
  BY <1>3, <1>7, <1>8 DEF VaultInv, StableTypeOK, PoolInv, RewardsInv, stableRoleVars, solVars,
                          idVars, creatorVars
<1>10. share_supply' = SumFunction(attn') + attn_vault'
  <2>1. attn_vault' = attn_vault
    BY <1>3 DEF poolVars
  <2>2. QED BY <1>1, <1>2, <1>3, <1>6, <2>1 DEF d
<1>11. ParFloor' /\ Custody'
  <2>1. (sol_vault >= Rent + pending_sol)'
    BY <1>3 DEF VaultInv, Custody, solVars
  <2>2. QED BY <1>8, <1>10, <2>1 DEF ParFloor, Custody
<1>12. NavStep
  <2>1. (total_assets - p) * total_shares >= total_assets * (total_shares - a)
    <3>1. (total_assets - p) * total_shares = total_assets * total_shares - p * total_shares
      BY <1>2, <1>4
    <3>2. total_assets * (total_shares - a) = total_assets * total_shares - a * total_assets
      BY <1>1, <1>2
    <3>3. /\ total_assets * total_shares \in Int /\ p * total_shares \in Int
          /\ a * total_assets \in Int
      BY <1>1, <1>2, <1>4
    <3>4. QED BY <1>4, <3>1, <3>2, <3>3
  <2>2. QED BY <1>3, <2>1 DEF NavStep
<1>13. QED BY <1>7, <1>9, <1>11, <1>12 DEF VaultInv

\* A burn outside the program.
LEMMA BurnKeeps ==
    ASSUME RewardsAssumption, VaultInv, NEW u \in Users, NEW a \in Amounts, BurnShares(u, a)
    PROVE  VaultInv' /\ UNCHANGED <<total_assets, total_shares>>
<1> DEFINE d == -a
<1>1. a \in Nat /\ d \in Int
  BY AmountsTyped
<1>2. /\ U64Max \in Nat /\ share_supply \in 0..U64Max /\ share_supply <= total_shares
      /\ total_shares \in 0..U64Max
      /\ share_supply = SumFunction(attn) + attn_vault
      /\ SumFunction(attn) \in Nat /\ attn_vault \in Nat /\ attn \in [Users -> Nat]
  BY VaultNumbers
<1>3. /\ attn[u] >= a /\ share_supply >= a /\ share_supply' = share_supply - a
      /\ attn' = [attn EXCEPT ![u] = attn[u] - a]
      /\ UNCHANGED <<poolVars, stableRoleVars, total_assets, total_shares, treasury, solVars,
                     idVars, creatorVars>>
  BY DEF BurnShares
<1>4. attn[u] \in Nat /\ attn[u] - a = attn[u] + d /\ attn[u] + d \in Nat
  BY <1>1, <1>2, <1>3
<1> HIDE DEF d
<1>5. attn' \in [Users -> Nat] /\ SumFunction(attn') = SumFunction(attn) + d
  BY <1>1, <1>3, <1>4, WalletChanges
<1>6. PoolInv'
  BY <1>3, <1>5, PoolUntouched DEF VaultInv
<1>7. share_supply' \in 0..U64Max /\ share_supply' <= total_shares
  BY <1>1, <1>2, <1>3
<1>8. StableTypeOK'
  BY <1>3, <1>6, <1>7 DEF VaultInv, StableTypeOK, PoolInv, RewardsInv, stableRoleVars, solVars,
                          idVars, creatorVars
<1>9. share_supply' = SumFunction(attn') + attn_vault'
  <2>1. attn_vault' = attn_vault
    BY <1>3 DEF poolVars
  <2>2. QED BY <1>1, <1>2, <1>3, <1>5, <2>1 DEF d
<1>10. ParFloor' /\ Custody'
  BY <1>3, <1>7, <1>9 DEF VaultInv, ParFloor, Custody, solVars
<1>11. QED BY <1>3, <1>6, <1>8, <1>10 DEF VaultInv

\* A step of the pool, or one that changes nothing of it, keeps the wallets' and the
\* pool's shares together.
LEMMA PoolMovesShares ==
    ASSUME RewardsAssumption, VaultInv, RewardsNext
    PROVE  SumFunction(attn') + attn_vault' = SumFunction(attn) + attn_vault
<1>1. SumFunction(attn) \in Nat /\ attn_vault \in Nat /\ attn \in [Users -> Nat]
  BY VaultNumbers
<1>2. ASSUME NEW u \in Users, NEW a \in Amounts, StakeAttnUsd(u, a) \/ SendToAttnVault(u, a)
      PROVE  SumFunction(attn') + attn_vault' = SumFunction(attn) + attn_vault
  <2> DEFINE d == -a
  <2>1. a \in Nat /\ d \in Int
    BY AmountsTyped
  <2>2. attn[u] >= a /\ attn' = [attn EXCEPT ![u] = attn[u] - a] /\ attn_vault' = attn_vault + a
    BY <1>2 DEF StakeAttnUsd, SendToAttnVault
  <2>3. attn[u] - a = attn[u] + d /\ attn[u] + d \in Nat
    BY <1>1, <2>1, <2>2
  <2> HIDE DEF d
  <2>4. SumFunction(attn') = SumFunction(attn) + d
    BY <2>1, <2>2, <2>3, WalletChanges
  <2>5. QED BY <1>1, <2>1, <2>2, <2>4 DEF d
<1>3. ASSUME NEW u \in Users, NEW a \in Amounts, UnstakeAttnUsd(u, a)
      PROVE  SumFunction(attn') + attn_vault' = SumFunction(attn) + attn_vault
  <2>1. a \in Nat /\ a \in Int
    BY AmountsTyped
  <2>2. /\ attn' = [attn EXCEPT ![u] = attn[u] + a] /\ attn_vault' = attn_vault - a
        /\ attn[u] + a \in Nat
    BY <1>1, <1>3, <2>1 DEF UnstakeAttnUsd
  <2>3. SumFunction(attn') = SumFunction(attn) + a
    BY <2>1, <2>2, WalletChanges
  <2>4. QED BY <1>1, <2>1, <2>2, <2>3
<1>4. CASE UNCHANGED <<attn, attn_vault>>
  BY <1>4
<1>5. ASSUME NEW u \in Users, NEW v \in Users, NEW a \in Amounts, TransferAttn(u, v, a)
      PROVE  SumFunction(attn') + attn_vault' = SumFunction(attn) + attn_vault
  <2>1. /\ u # v /\ attn[u] >= a /\ attn' = [attn EXCEPT ![u] = @ - a, ![v] = @ + a]
        /\ attn_vault' = attn_vault
    BY <1>5 DEF TransferAttn
  <2>2. a \in Nat /\ IsFiniteSet(Users)
    BY AmountsTyped
  <2> DEFINE x == attn[u] - a
             y == attn[v] + a
             mid == [attn EXCEPT ![u] = x]
  <2>3. /\ x \in Nat /\ y \in Nat /\ x \in Int /\ y \in Int
        /\ attn[u] \in Nat /\ attn[v] \in Nat /\ attn \in [Users -> Int]
    BY <1>1, <2>1, <2>2
  <2>4. attn' = [mid EXCEPT ![v] = y] /\ mid[v] = attn[v]
    BY <1>1, <2>1, <2>2
  <2>5. x - attn[u] = -a /\ y - attn[v] = a
    BY <1>1, <2>1, <2>2, <2>3
  <2>6. /\ mid \in [Users -> Nat] /\ mid \in [Users -> Int]
        /\ SumFunction(mid) = SumFunction(attn) - attn[u] + x /\ SumFunction(attn) \in Int
    <3> HIDE DEF x
    <3>1. mid \in [Users -> Nat] /\ mid \in [Users -> Int]
      BY <1>1, <2>1, <2>2, <2>3
    <3>2. SumFunction(mid) = SumFunction(attn) - attn[u] + x /\ SumFunction(attn) \in Int
      BY <1>1, <2>1, <2>2, <2>3, SumUpdate
    <3>3. QED BY <3>1, <3>2
  <2> HIDE DEF x, y, mid
  <2>7. SumFunction([mid EXCEPT ![v] = y]) = SumFunction(mid) - mid[v] + y
    <3>1. mid \in [Users -> Int] /\ y \in Int
      BY <2>3, <2>6
    <3>2. QED BY <2>2, <3>1, SumUpdate
  <2>8. SumFunction(attn') = SumFunction(attn)
    BY <2>2, <2>3, <2>4, <2>5, <2>6, <2>7
  <2>9. QED BY <2>1, <2>8
<1>6. \/ \E u \in Users, a \in Amounts : StakeAttnUsd(u, a) \/ UnstakeAttnUsd(u, a)
      \/ \E u \in Users, a \in Amounts : SendToAttnVault(u, a)
      \/ \E u, v \in Users, a \in Amounts : TransferAttn(u, v, a)
      \/ UNCHANGED <<attn, attn_vault>>
  <2>1. CASE StakerStep
    BY <2>1 DEF StakerStep, ClaimRewards, tokenVars
  <2>2. CASE \E a \in Lamports, id \in OpIds : FundRewards(a, id)
    BY <2>2 DEF FundRewards, FundDuplicate, FundNew, rewardsVars, tokenVars
  <2>3. CASE PoolAdminStep
    BY <2>3 DEF PoolAdminStep, UpdateAllowedFunder, UpdatePoolAdmin, UpdateRewardBps,
                SetPoolPause, tokenVars
  <2>4. CASE OutsideStep
    BY <2>4 DEF OutsideStep, SendToTreasury, TransferReceipt, BurnReceipt, tokenVars
  <2>5. QED BY <2>1, <2>2, <2>3, <2>4 DEF RewardsNext
<1>7. QED BY <1>2, <1>3, <1>4, <1>5, <1>6

\* The pool's own steps leave the vault's books true.
LEMMA PoolStepKeeps ==
    ASSUME RewardsAssumption, VaultInv, RewardsNext, UNCHANGED stableVars
    PROVE  VaultInv' /\ UNCHANGED <<total_assets, total_shares>>
<1>1. PoolInv'
  BY PoolStep DEF VaultInv
<1>2. StableTypeOK' /\ ParFloor'
  BY <1>1 DEF VaultInv, StableTypeOK, PoolInv, RewardsInv, ParFloor, stableVars,
              stableRoleVars, navVars, solVars, idVars, creatorVars
<1>3. Custody'
  <2>1. share_supply' = SumFunction(attn') + attn_vault'
    BY PoolMovesShares DEF VaultInv, Custody, stableVars, navVars
  <2>2. QED BY <2>1 DEF VaultInv, Custody, stableVars, navVars, solVars
<1>4. QED BY <1>1, <1>2, <1>3 DEF VaultInv, stableVars, navVars
-----------------------------------------------------------------------------
(* The keeper, the roles and the surroundings.                             *)

\* A sweep is divided without remainder: the two parts are naturals.
LEMMA SweepParts ==
    ASSUME RewardsAssumption, StableAssumption, StableTypeOK, NEW a \in Nat
    PROVE  RewardsPart(a) \in Nat /\ a - RewardsPart(a) \in Nat
<1> DEFINE b == sol_rewards_bps
           n == a * b
           q == n \div TotalBps
<1>1. b \in 0..TotalBps /\ TotalBps = 10000
  BY DEF StableTypeOK, StableAssumption, TotalBps
<1> HIDE DEF b
<1>2. n \in Nat /\ n <= a * TotalBps
  BY <1>1, Product
<1> HIDE DEF n
<1>3. q \in Nat /\ TotalBps * q <= n
  BY <1>1, <1>2, Quotient
<1> HIDE DEF q
<1>4. q <= a
  BY <1>1, <1>2, <1>3
<1>5. RewardsPart(a) = q
  BY DEF RewardsPart, q, n, b
<1>6. QED BY <1>3, <1>4, <1>5

\* sweep_creator_fees, its funding of the pool included.
LEMMA SweepKeeps ==
    ASSUME RewardsAssumption, StableAssumption, VaultInv, NEW a \in Lamports, NEW id \in OpIds,
           SweepCreatorFees(a, id)
    PROVE  VaultInv' /\ UNCHANGED <<total_assets, total_shares>>
<1> DEFINE r == RewardsPart(a)
           s == a - r
<1>1. a \in Nat
  BY AmountsTyped
<1>2. r \in Nat /\ s \in Nat
  BY <1>1, SweepParts DEF VaultInv
<1>3. /\ UNCHANGED rewardsVars \/ FundNew(r, id) \/ FundDuplicate(id)
      /\ QueueSol(s)
      /\ last_sweep_id' = id
      /\ UNCHANGED <<stableRoleVars, navVars, last_conversion_id, creatorVars>>
  BY DEF SweepCreatorFees
<1> HIDE DEF r, s
<1>4. PoolInv' /\ UNCHANGED <<attn, attn_vault>>
  <2>1. CASE UNCHANGED rewardsVars
    BY <2>1, PoolStutter DEF VaultInv, rewardsVars, tokenVars
  <2>2. CASE FundNew(r, id)
    BY <1>2, <2>2, FundKeeps DEF VaultInv, FundNew, tokenVars
  <2>3. CASE FundDuplicate(id)
    BY <2>3, PoolStutter DEF VaultInv, FundDuplicate, rewardsVars, tokenVars
  <2>4. QED BY <1>3, <2>1, <2>2, <2>3
<1>5. /\ pending_sol \in 0..U64Max /\ sol_vault \in Nat /\ sol_vault >= Rent + pending_sol
      /\ Rent \in Nat /\ U64Max \in Nat
  BY VaultNumbers
<1>6. /\ pending_sol + s <= U64Max /\ sol_vault' = sol_vault + s
      /\ pending_sol' = pending_sol + s
  BY <1>3 DEF QueueSol
<1>7. /\ pending_sol' \in 0..U64Max /\ sol_vault' \in Nat /\ sol_vault' >= Rent + pending_sol'
  BY <1>2, <1>5, <1>6
<1>8. StableTypeOK'
  BY <1>3, <1>4, <1>7 DEF VaultInv, StableTypeOK, PoolInv, RewardsInv, stableRoleVars, navVars,
                          creatorVars
<1>9. ParFloor' /\ Custody'
  BY <1>3, <1>4, <1>7 DEF VaultInv, ParFloor, Custody, navVars
<1>10. QED BY <1>3, <1>4, <1>8, <1>9 DEF VaultInv, navVars

\* process_conversion: assets without shares.
LEMMA ConversionKeeps ==
    ASSUME RewardsAssumption, VaultInv, NEW a \in Amounts, NEW s \in Lamports \cup {0},
           NEW id \in OpIds, ProcessConversion(a, s, id)
    PROVE  VaultInv' /\ NavStep
<1>1. a \in Nat /\ s \in Nat
  BY AmountsTyped
<1>2. /\ U64Max \in Nat /\ total_assets \in 0..U64Max /\ total_shares \in 0..U64Max
      /\ treasury \in 0..U64Max /\ total_assets >= total_shares /\ treasury >= total_assets
      /\ pending_sol \in 0..U64Max /\ sol_vault \in Nat /\ sol_vault >= Rent + pending_sol
      /\ Rent \in Nat
  BY VaultNumbers
<1>3. /\ s <= pending_sol /\ sol_vault >= s
      /\ sol_vault' = sol_vault - s /\ pending_sol' = pending_sol - s
      /\ treasury + a <= U64Max /\ total_assets + a <= U64Max
      /\ treasury' = treasury + a /\ total_assets' = total_assets + a
      /\ last_conversion_id' = id
      /\ UNCHANGED <<rewardsVars, stableRoleVars, total_shares, share_supply, last_sweep_id,
                     creatorVars>>
  BY DEF ProcessConversion, ConversionAccepted, SolSpendable
<1>4. PoolInv' /\ UNCHANGED <<attn, attn_vault>>
  BY <1>3, PoolStutter DEF VaultInv, rewardsVars, tokenVars
<1>5. /\ total_assets' \in 0..U64Max /\ treasury' \in 0..U64Max
      /\ total_assets' >= total_shares' /\ treasury' >= total_assets'
      /\ pending_sol' \in 0..U64Max /\ sol_vault' \in Nat
      /\ sol_vault' >= Rent + pending_sol'
  BY <1>1, <1>2, <1>3
<1>6. StableTypeOK'
  BY <1>3, <1>4, <1>5 DEF VaultInv, StableTypeOK, PoolInv, RewardsInv, stableRoleVars,
                          creatorVars
<1>7. ParFloor' /\ Custody'
  BY <1>3, <1>4, <1>5 DEF VaultInv, ParFloor, Custody
<1>8. NavStep
  <2>1. (total_assets + a) * total_shares = total_assets * total_shares + a * total_shares
    BY <1>1, <1>2
  <2>2. a * total_shares \in Nat /\ total_assets * total_shares \in Nat
    BY <1>1, <1>2
  <2>3. (total_assets + a) * total_shares >= total_assets * total_shares
    BY <2>1, <2>2
  <2>4. QED BY <1>3, <2>3 DEF NavStep
<1>9. QED BY <1>4, <1>6, <1>7, <1>8 DEF VaultInv

\* The accepted mints, one more or one fewer.
LEMMA MintsCounted ==
    ASSUME StableAssumption, StableTypeOK
    PROVE  /\ IsFiniteSet(accepted_mints) /\ Cardinality(accepted_mints) \in Nat
           /\ MAX_ACCEPTED_MINTS \in Nat
           /\ \A m : m \notin accepted_mints =>
                 Cardinality(accepted_mints \cup {m}) = Cardinality(accepted_mints) + 1
           /\ \A m \in accepted_mints :
                 Cardinality(accepted_mints \ {m}) = Cardinality(accepted_mints) - 1
<1>1. IsFiniteSet(accepted_mints)
  BY FS_Subset DEF StableAssumption, StableTypeOK
<1>2. QED BY <1>1, FS_CardinalityType, FS_AddElement, FS_RemoveElement DEF StableAssumption

\* The administrator and the emergency administrator touch no account.
LEMMA RoleKeeps ==
    ASSUME StableAssumption, VaultInv, RoleStep
    PROVE  VaultInv' /\ UNCHANGED <<total_assets, total_shares>>
<1>1. UNCHANGED <<rewardsVars, navVars, solVars, idVars, creatorVars>>
  BY DEF RoleStep, UpdateAdmin, UpdateKeeperAuthority, UpdateEmergencyAdmin, SetStablePause,
         AddAcceptedMint, RemoveAcceptedMint, ManageAcceptedMint
<1>2. /\ admin' \in Keys /\ keeper_authority' \in Keys
      /\ emergency_admin' \in Keys \cup {NoKey} /\ paused' \in BOOLEAN
  BY DEF RoleStep, UpdateAdmin, UpdateKeeperAuthority, UpdateEmergencyAdmin, SetStablePause,
         AddAcceptedMint, RemoveAcceptedMint, ManageAcceptedMint, VaultInv, StableTypeOK
<1>3. /\ StableMint \in accepted_mints' /\ accepted_mints' \subseteq StableMints
      /\ Cardinality(accepted_mints') <= MAX_ACCEPTED_MINTS
  <2>1. /\ StableMint \in accepted_mints /\ accepted_mints \subseteq StableMints
        /\ Cardinality(accepted_mints) <= MAX_ACCEPTED_MINTS
    BY DEF VaultInv, StableTypeOK
  <2>2. \/ accepted_mints' = accepted_mints
        \/ \E m \in StableMints : /\ m \notin accepted_mints
                                  /\ Cardinality(accepted_mints) < MAX_ACCEPTED_MINTS
                                  /\ accepted_mints' = accepted_mints \cup {m}
        \/ \E m \in StableMints : /\ m \in accepted_mints /\ m # StableMint
                                  /\ accepted_mints' = accepted_mints \ {m}
    BY DEF RoleStep, UpdateAdmin, UpdateKeeperAuthority, UpdateEmergencyAdmin, SetStablePause,
           AddAcceptedMint, RemoveAcceptedMint, ManageAcceptedMint
  <2>3. CASE accepted_mints' = accepted_mints
    BY <2>1, <2>3
  <2>4. ASSUME NEW m \in StableMints, m \notin accepted_mints,
               Cardinality(accepted_mints) < MAX_ACCEPTED_MINTS,
               accepted_mints' = accepted_mints \cup {m}
        PROVE  /\ StableMint \in accepted_mints' /\ accepted_mints' \subseteq StableMints
               /\ Cardinality(accepted_mints') <= MAX_ACCEPTED_MINTS
    <3>1. /\ Cardinality(accepted_mints) \in Nat /\ MAX_ACCEPTED_MINTS \in Nat
          /\ Cardinality(accepted_mints') = Cardinality(accepted_mints) + 1
      BY <2>4, MintsCounted DEF VaultInv
    <3>2. QED BY <2>1, <2>4, <3>1
  <2>5. ASSUME NEW m \in StableMints, m \in accepted_mints, m # StableMint,
               accepted_mints' = accepted_mints \ {m}
        PROVE  /\ StableMint \in accepted_mints' /\ accepted_mints' \subseteq StableMints
               /\ Cardinality(accepted_mints') <= MAX_ACCEPTED_MINTS
    <3>1. /\ Cardinality(accepted_mints) \in Nat /\ MAX_ACCEPTED_MINTS \in Nat
          /\ Cardinality(accepted_mints') = Cardinality(accepted_mints) - 1
      BY <2>5, MintsCounted DEF VaultInv
    <3>2. QED BY <2>1, <2>5, <3>1
  <2>6. QED BY <2>2, <2>3, <2>4, <2>5
<1>4. PoolInv'
  BY <1>1, PoolStutter DEF VaultInv
<1>5. StableTypeOK'
  BY <1>1, <1>2, <1>3, <1>4 DEF VaultInv, StableTypeOK, PoolInv, RewardsInv, navVars, solVars,
                                idVars, creatorVars
<1>6. ParFloor' /\ Custody'
  BY <1>1 DEF VaultInv, ParFloor, Custody, rewardsVars, tokenVars, navVars, solVars
<1>7. QED BY <1>1, <1>4, <1>5, <1>6 DEF VaultInv, navVars

\* The creator vault's settings and strangers' transfers: accounts only grow.
LEMMA EnvironmentKeeps ==
    ASSUME RewardsAssumption, VaultInv, EnvironmentStep
    PROVE  VaultInv' /\ UNCHANGED <<total_assets, total_shares>>
<1>1. /\ UNCHANGED <<rewardsVars, stableRoleVars, total_assets, total_shares, share_supply,
                     pending_sol, idVars>>
  BY DEF EnvironmentStep, CreatorVaultChanges, SendToSolVault, SendToStableTreasury, navVars,
         solVars
<1>2. creator_paused' \in BOOLEAN /\ sol_rewards_bps' \in SolSplits
  BY DEF EnvironmentStep, CreatorVaultChanges, SendToSolVault, SendToStableTreasury,
         creatorVars, VaultInv, StableTypeOK
<1>3. /\ U64Max \in Nat /\ treasury \in 0..U64Max /\ sol_vault \in Nat
      /\ treasury >= total_assets /\ sol_vault >= Rent + pending_sol /\ Rent \in Nat
      /\ total_assets \in 0..U64Max /\ pending_sol \in 0..U64Max
  BY VaultNumbers
<1>4. /\ treasury' \in 0..U64Max /\ sol_vault' \in Nat
      /\ treasury' >= treasury /\ sol_vault' >= sol_vault
  <2>1. CASE \E p \in BOOLEAN, bps \in SolSplits : CreatorVaultChanges(p, bps)
    BY <1>3, <2>1 DEF CreatorVaultChanges, navVars, solVars
  <2>2. ASSUME NEW a \in Lamports, SendToSolVault(a)
        PROVE  /\ treasury' \in 0..U64Max /\ sol_vault' \in Nat
               /\ treasury' >= treasury /\ sol_vault' >= sol_vault
    BY <1>3, <2>2, AmountsTyped DEF SendToSolVault, navVars
  <2>3. ASSUME NEW a \in Amounts, SendToStableTreasury(a)
        PROVE  /\ treasury' \in 0..U64Max /\ sol_vault' \in Nat
               /\ treasury' >= treasury /\ sol_vault' >= sol_vault
    <3>1. a \in Nat /\ treasury' = treasury + a /\ treasury + a <= U64Max
          /\ sol_vault' = sol_vault
      BY <2>3, AmountsTyped DEF SendToStableTreasury, solVars
    <3>2. QED BY <1>3, <3>1
  <2>4. QED BY <2>1, <2>2, <2>3 DEF EnvironmentStep
<1>5. PoolInv'
  BY <1>1, PoolStutter DEF VaultInv
<1>6. StableTypeOK'
  BY <1>1, <1>2, <1>4, <1>5 DEF VaultInv, StableTypeOK, PoolInv, RewardsInv, stableRoleVars,
                                idVars
<1>7. ParFloor' /\ Custody'
  <2>1. treasury' >= total_assets /\ sol_vault' >= Rent + pending_sol
    BY <1>3, <1>4
  <2>2. QED BY <1>1, <2>1 DEF VaultInv, ParFloor, Custody, rewardsVars, tokenVars
<1>8. QED BY <1>1, <1>5, <1>6, <1>7 DEF VaultInv

-----------------------------------------------------------------------------
(* The theorems.                                                           *)

\* A new vault, empty beside a new pool, satisfies the invariant.
LEMMA VaultInitially ==
    ASSUME RewardsAssumption, StableAssumption, StableInit
    PROVE  VaultInv
<1>1. PoolInv
  BY PoolInitially DEF StableInit
<1>2. /\ U64Max \in Nat /\ Rent \in Nat /\ IsFiniteSet(Users) /\ InitialAttn = 0
      /\ 0 \in SolSplits
  BY DEF RewardsAssumption, StableAssumption
<1>3. StableTypeOK
  <2>1. /\ StableMint \in accepted_mints /\ accepted_mints \subseteq StableMints
        /\ Cardinality(accepted_mints) <= MAX_ACCEPTED_MINTS
    <3> DEFINE allowed == {M \in SUBSET StableMints :
                             StableMint \in M /\ Cardinality(M) <= MAX_ACCEPTED_MINTS}
    <3>1. accepted_mints \in allowed
      BY DEF StableInit
    <3>2. QED BY <3>1
  <2>2. /\ admin \in Keys /\ keeper_authority \in Keys /\ emergency_admin = NoKey
        /\ paused = FALSE /\ total_assets = 0 /\ total_shares = 0 /\ pending_sol = 0
        /\ last_sweep_id = 0 /\ last_conversion_id = 0 /\ treasury = 0 /\ share_supply = 0
        /\ sol_vault = Rent /\ creator_paused = FALSE /\ sol_rewards_bps = 0
    BY DEF StableInit
  <2>3. RewardsTypeOK
    BY <1>1 DEF PoolInv, RewardsInv
  <2>4. /\ total_assets \in 0..U64Max /\ total_shares \in 0..U64Max
        /\ pending_sol \in 0..U64Max /\ treasury \in 0..U64Max
        /\ share_supply \in 0..U64Max /\ sol_vault \in Nat
    BY <1>2, <2>2
  <2>5. /\ emergency_admin \in Keys \cup {NoKey} /\ paused \in BOOLEAN
        /\ creator_paused \in BOOLEAN /\ sol_rewards_bps \in SolSplits
    BY <1>2, <2>2
  <2>6. last_sweep_id \in OpIds \cup {0} /\ last_conversion_id \in OpIds \cup {0}
    BY <2>2
  <2>7. QED BY <2>1, <2>2, <2>3, <2>4, <2>5, <2>6 DEF StableTypeOK
<1>4. attn = [u \in Users |-> 0] /\ attn_vault = 0
  BY <1>2 DEF StableInit, RewardsInit
<1>5. SumFunction(attn) = 0
  BY <1>2, <1>4, SumOfZeros
<1>6. ParFloor /\ Custody
  BY <1>2, <1>4, <1>5 DEF StableInit, ParFloor, Custody
<1>7. QED BY <1>1, <1>3, <1>6 DEF VaultInv

\* Every step keeps both programs' books, and none makes a share worth less.
LEMMA VaultStep ==
    ASSUME RewardsAssumption, StableAssumption, VaultInv, StableNext
    PROVE  VaultInv' /\ NavStep
<1>1. CASE HolderStep
  <2>1. PICK u \in Users, a \in Amounts :
               \/ \E m \in StableMints : DepositStable(u, m, a)
               \/ RedeemAttnUsd(u, a)
               \/ BurnShares(u, a)
    BY <1>1 DEF HolderStep
  <2>2. CASE \E m \in StableMints : DepositStable(u, m, a)
    BY <2>2, DepositKeeps
  <2>3. CASE RedeemAttnUsd(u, a)
    BY <2>3, RedeemKeeps
  <2>4. CASE BurnShares(u, a)
    BY <2>4, BurnKeeps, NavUntouched
  <2>5. QED BY <2>1, <2>2, <2>3, <2>4
<1>2. CASE KeeperStep
  <2>1. PICK id \in OpIds :
               \/ \E a \in Lamports : SweepCreatorFees(a, id)
               \/ \E a \in Amounts, s \in Lamports \cup {0} : ProcessConversion(a, s, id)
    BY <1>2 DEF KeeperStep
  <2>2. CASE \E a \in Lamports : SweepCreatorFees(a, id)
    BY <2>2, SweepKeeps, NavUntouched
  <2>3. CASE \E a \in Amounts, s \in Lamports \cup {0} : ProcessConversion(a, s, id)
    BY <2>3, ConversionKeeps
  <2>4. QED BY <2>1, <2>2, <2>3
<1>3. CASE RoleStep
  BY <1>3, RoleKeeps, NavUntouched
<1>4. CASE EnvironmentStep
  BY <1>4, EnvironmentKeeps, NavUntouched
<1>5. CASE RewardsNext /\ UNCHANGED stableVars
  BY <1>5, PoolStepKeeps, NavUntouched
<1>6. QED BY <1>1, <1>2, <1>3, <1>4, <1>5 DEF StableNext

\* A step that changes nothing keeps the invariant.
LEMMA VaultStutter ==
    ASSUME VaultInv, UNCHANGED allVars
    PROVE  VaultInv'
<1>1. UNCHANGED rewardsVars /\ UNCHANGED stableVars
  BY DEF allVars
<1>2. PoolInv'
  BY <1>1, PoolStutter DEF VaultInv
<1>3. StableTypeOK' /\ ParFloor' /\ Custody'
  BY <1>1, <1>2 DEF VaultInv, PoolInv, RewardsInv, StableTypeOK, ParFloor, Custody, stableVars,
                    stableRoleVars, navVars, solVars, idVars, creatorVars, rewardsVars, tokenVars
<1>4. QED BY <1>2, <1>3 DEF VaultInv

\* The composition keeps the invariant forever.
LEMMA VaultAlways == StableSpec => []VaultInv
<1>1. StableInit => VaultInv
  BY RewardsAssumption, StableAssumption, VaultInitially
<1>2. VaultInv /\ [StableNext]_allVars => VaultInv'
  BY RewardsAssumption, StableAssumption, VaultStep, VaultStutter
<1>3. QED BY <1>1, <1>2, PTL DEF StableSpec

\* Sweeps, fundings, stakes, burns and redemptions in any order: the shares in wallets
\* and in the pool are the mint's supply, every account holds what the programs count,
\* and the pool's rewards are covered.
THEOREM BothBooksMatch == StableSpec => []BooksMatchAccounts
<1>1. VaultInv => BooksMatchAccounts
  BY DEF VaultInv, PoolInv, RewardsInv, BooksMatchAccounts
<1>2. QED BY <1>1, VaultAlways, PTL

\* No deposit, redemption, conversion or rounding makes a share worth less.
THEOREM NoShareIsDiluted == StableSpec => NavNeverDiluted
<1>1. VaultInv /\ [StableNext]_allVars
        => [total_shares > 0 /\ total_shares' > 0
              => total_assets' * total_shares >= total_assets * total_shares']_allVars
  BY RewardsAssumption, StableAssumption, VaultStep DEF NavStep
<1>2. QED BY <1>1, VaultAlways, PTL DEF StableSpec, NavNeverDiluted

-----------------------------------------------------------------------------
(* Nobody is locked out.                                                   *)

\* Whoever holds shares passes every check of a redemption while the vault is active,
\* and a share is never worth less than par: no rounding to zero, no empty treasury, no
\* burn by somebody else is in the way.
THEOREM HoldersAreNeverLocked ==
    StableSpec => []HoldersWhole
<1>1. ASSUME VaultInv, NEW u \in Users, NEW a \in Amounts, ~paused, attn[u] >= a
      PROVE  RedeemAccepted(u, a)
  <2>1. a \in Nat /\ a > 0
    BY AmountsTyped, RewardsAssumption
  <2>2. /\ total_assets \in Nat /\ total_shares \in Nat /\ treasury \in Nat
        /\ share_supply \in Nat
        /\ treasury >= total_assets /\ share_supply <= total_shares
        /\ share_supply = SumFunction(attn) + attn_vault
        /\ SumFunction(attn) \in Nat /\ attn_vault \in Nat
        /\ attn[u] \in Nat /\ attn[u] <= SumFunction(attn)
    BY <1>1, VaultNumbers, RewardsAssumption
  <2>3. share_supply >= a /\ total_shares >= a
    BY <1>1, <2>1, <2>2
  <2>4. /\ PreviewRedeem(a) \in Nat /\ PreviewRedeem(a) >= a
        /\ PreviewRedeem(a) <= total_assets
    BY <1>1, <2>1, <2>3, RedeemPreview, RewardsAssumption
  <2>5. QED BY <1>1, <2>1, <2>2, <2>3, <2>4 DEF RedeemAccepted
<1>2. VaultInv => HoldersWhole
  BY <1>1 DEF VaultInv, HoldersWhole, RedeemAlwaysPays
<1>3. QED BY <1>2, VaultAlways, PTL

\* Whatever was queued can be converted at once, to the last lamport: the rent of the SOL
\* vault stays, and the vault's own count never overflows before its account does.
THEOREM QueuedSolCanBeSpent ==
    StableSpec => []PendingSolSpendable
<1>1. ASSUME VaultInv, NEW id \in OpIds, NEW a \in Amounts,
             ~paused, id > last_conversion_id, treasury + a <= U64Max
      PROVE  ConversionAccepted(a, pending_sol, id)
  <2>1. a \in Nat
    BY AmountsTyped, RewardsAssumption
  <2>2. /\ total_assets \in Nat /\ treasury \in Nat /\ treasury >= total_assets
        /\ pending_sol \in Nat /\ sol_vault \in Nat /\ Rent \in Nat
        /\ sol_vault >= Rent + pending_sol /\ U64Max \in Nat
    BY <1>1, VaultNumbers, RewardsAssumption
  <2>3. SolTransferable(sol_vault, pending_sol)
    BY <2>2 DEF SolTransferable
  <2>4. StableMint \in accepted_mints
    BY <1>1 DEF VaultInv, StableTypeOK
  <2>5. QED BY <1>1, <2>1, <2>2, <2>3, <2>4 DEF ConversionAccepted, SolSpendable
<1>2. VaultInv => PendingSolSpendable
  BY <1>1 DEF PendingSolSpendable
<1>3. QED BY <1>2, VaultAlways, PTL
=============================================================================
