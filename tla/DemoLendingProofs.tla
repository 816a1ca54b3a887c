------------------------- MODULE DemoLendingProofs -------------------------
(***************************************************************************)
(* Proofs about the demo frontend, for one tab and any seed, revenues,     *)
(* rates, slider stops, amounts and number of clicks: the pool, the        *)
(* position and the LP history agree, a reload loses nothing, the yield    *)
(* follows what it is derived from, what is lent fits the pool, and the    *)
(* storage implements LendingPool.                                         *)
(***************************************************************************)
EXTENDS DemoLending, FiniteSetTheorems, WellFoundedInduction, SequenceTheorems, TLAPS

Revenues == Nat \ {0}
LoanType == {NoLoan} \cup [amount : Nat, apr : Nat, tier : Nat \ {0}, days : Nat]
CreatorType == {Unlisted} \cup [fees : Revenues, loan : LoanType]
History == {"loan", "early_payment", "full_payoff"}
StoreType ==
    [tvl : Nat, deposited : Nat, additional : Nat, yield : Int, creator : CreatorType,
     loans : Seq(History), lp : Seq(Int), wallet : BOOLEAN]
\* A simulated advance: what is owed is at most what it started from.
SimRecord ==
    {s \in [amount : Nat, total : Nat, owed : Nat, apr : Nat, fees : Revenues, tier : Nat \ {0}] :
        s.amount <= s.total /\ s.owed <= s.total}
SimType == {NoLoan} \cup SimRecord
TermsType ==
    {r \in [amount : Nat, apr : Nat, tier : Nat \ {0}, owed : Nat, days : Nat] : r.amount <= r.owed}

Movers == {"deposit", "withdraw"}
Writers == {"connect", "listing", "borrow", "opening", "repay", "earnings"}
Kinds == Movers \cup Writers \cup {"nav", "navEnds", "join", "joinEnds", "listed", "edited"}
ArgType == Nat \cup (TermsType \X Revenues) \cup (SimRecord \X (1 .. 100))
JobType == [kind : Kinds, left : 0 .. 6, snap : StoreType, arg : ArgType]
Flags == {"nav", "connect", "transition", "process", "borrow", "repay"}
DocType ==
    [page : Pages, loading : BOOLEAN, mem : StoreType, busy : SUBSET Flags, sim : SimType,
     repaying : BOOLEAN, earn : Revenues, editing : BOOLEAN, jobs : SUBSET JobType]

\* What a handler was given at its click.
ArgFits(j) ==
    /\ j.kind \in {"connect", "listing", "earnings"} => j.arg \in Revenues
    /\ j.kind \in {"borrow", "opening"} => j.arg \in TermsType \X Revenues
    /\ j.kind = "repay" => j.arg \in SimRecord \X (1 .. 100) /\ j.arg[1].owed > 0
    /\ j.kind = "deposit" => j.arg \in Amounts
    /\ j.kind = "withdraw" => j.arg \in Nat \ {0}

SamePool(s, m) == /\ s.tvl = m.tvl /\ s.deposited = m.deposited
                  /\ s.additional = m.additional /\ s.lp = m.lp

\* What a handler saw at its click still holds where it is going to write: the pool
\* does not change on the user page, and on the deposit page only one handler at a
\* time changes it, while nothing changes the advance.
JobFits(d, j) ==
    /\ ArgFits(j)
    /\ j.kind \in Writers => d.page = "user" /\ SamePool(j.snap, d.mem)
    /\ j.kind \in Movers => /\ d.page = "deposit" /\ "process" \in d.busy
                            /\ SamePool(j.snap, d.mem)
                            /\ j.snap.creator.loan = d.mem.creator.loan

DocFits(d) ==
    /\ d \in DocType
    /\ \A j \in d.jobs : JobFits(d, j)
    /\ \A i, j \in d.jobs : i.kind \in Movers /\ j.kind \in Movers => i = j
    /\ d.loading \/ d.page = "closed" => d.jobs = {}
    /\ d.loading => d.page # "closed" /\ d.mem.tvl = NoPool

Total(lp) == FoldSeq(LAMBDA a, b : a + b, 0, lp)
Booked(s) ==
    /\ s.tvl # NoPool => s.tvl = SEED + s.deposited /\ s.tvl = SEED + Total(s.lp)
    /\ s.tvl = NoPool => s.deposited = 0 /\ s.lp = <<>>

\* The tab and the storage.
Matches(d, s) ==
    /\ Booked(d.mem)
    /\ d.mem.tvl # NoPool => d.mem = s
    /\ d.page # "closed" /\ d.mem.tvl = NoPool => s.tvl = NoPool

DemoInv ==
    /\ acts \in 0 .. MaxActs
    /\ disk \in StoreType /\ Booked(disk)
    /\ tabs \in [Tabs -> DocType]
    /\ \A t \in Tabs : DocFits(tabs[t]) /\ Matches(tabs[t], disk)
-----------------------------------------------------------------------------
(* Sums over finite sets.  The library's induction theorems take a         *)
(* predicate; a smallest counterexample does the same work.                *)

\* The element that a fold over s takes first, and what the fold makes of s.
Pick(s) == CHOOSE x \in s : TRUE
FoldStep(f, g, s) == IF s = {} THEN 0 ELSE f[Pick(s)] + g[s \ {Pick(s)}]
\* g is the recursive function that a sum over subsets of S is taken from.
Folds(g, f, S) == g = [s \in SUBSET S |-> FoldStep(f, g, s)]
FoldOf(f, S) == CHOOSE g : Folds(g, f, S)

\* The LP history's sum, a fold of the library, is that fold.
LEMMA TotalIsFold ==
  ASSUME NEW lp
  PROVE  Total(lp) = FoldOf(lp, DOMAIN lp)[DOMAIN lp]
BY DEF Total, FoldSeq, FoldFunction, FoldFunctionOnSet, MapThenFoldSet, FoldOf, Folds, FoldStep, Pick

\* A set of naturals that is not empty has a least element.
LEMMA LeastNatural ==
  ASSUME NEW T, T \subseteq Nat, T # {}
  PROVE \E n \in T : \A m \in T : n <= m
<1> DEFINE R == OpToRel(<, Nat)
<1>1. IsWellFoundedOn(R, Nat)
  BY NatLessThanWellFounded
<1>2. \A n, m \in Nat : n < m => <<n, m>> \in R
  BY DEF OpToRel
<1> HIDE DEF R
<1>3. PICK n \in T : \A m \in T : <<m, n>> \notin R
  BY <1>1, WFMin
<1>4. ASSUME NEW m \in T PROVE n <= m
  <2>1. m \in Nat /\ n \in Nat /\ <<m, n>> \notin R
    BY <1>3
  <2>2. ~(m < n)
    BY <1>2, <2>1
  <2>3. QED BY <2>1, <2>2
<1>5. QED BY <1>4

\* Among some subsets of a finite set, one contains no other: what is false of a
\* finite set is false of one whose proper subsets all satisfy it.
LEMMA SmallestSubset ==
  ASSUME NEW S, IsFiniteSet(S), NEW F, F \subseteq SUBSET S, F # {}
  PROVE  \E x \in F : \A y \in F : y \subseteq x => y = x
<1> DEFINE R == StrictSubsetOrdering(S)
<1>1. IsWellFoundedOn(R, SUBSET S)
  BY FS_StrictSubsetOrderingWellFounded, FS_FiniteSubsetsOfFinite
<1>2. \A x, y \in SUBSET S : y \subseteq x /\ y # x => <<y, x>> \in R
  BY DEF StrictSubsetOrdering
<1> HIDE DEF R
<1>3. \E x \in F : \A y \in F : <<y, x>> \notin R
  BY <1>1, WFMin
<1>4. QED BY <1>2, <1>3

\* What is picked from a set belongs to it.
LEMMA Picked ==
  ASSUME NEW s, s # {}
  PROVE  Pick(s) \in s
BY DEF Pick

\* The recursive function exists: it is defined up to every cardinality.
LEMMA FoldExists ==
  ASSUME NEW S, IsFiniteSet(S), NEW f \in [S -> Int]
  PROVE  \E g : Folds(g, f, S)
<1> DEFINE Upto(d) == {g \in [SUBSET S -> Int] :
                         \A s \in SUBSET S : Cardinality(s) <= d => g[s] = FoldStep(f, g, s)}
           bad == {d \in Nat : Upto(d) = {}}
<1>1. \A s \in SUBSET S : /\ Cardinality(s) \in Nat /\ Cardinality(s) <= Cardinality(S)
                          /\ Cardinality(s) = 0 <=> s = {}
                          /\ \A c \in s : Cardinality(s \ {c}) = Cardinality(s) - 1
  BY FS_Subset, FS_CardinalityType, FS_EmptySet, FS_RemoveElement
<1>2. Cardinality(S) \in Nat
  BY FS_CardinalityType
<1>3. \A g \in [SUBSET S -> Int], s \in SUBSET S : FoldStep(f, g, s) \in Int
  BY Picked DEF FoldStep
<1>4. Upto(0) # {}
  <2> DEFINE g == [s \in SUBSET S |-> 0]
  <2>1. g \in [SUBSET S -> Int] /\ \A s \in SUBSET S : g[s] = 0
    OBVIOUS
  <2>2. \A s \in SUBSET S : Cardinality(s) <= 0 => FoldStep(f, g, s) = 0
    BY <1>1 DEF FoldStep
  <2> HIDE DEF g
  <2>3. g \in Upto(0)
    BY <2>1, <2>2
  <2>4. QED BY <2>3
<1>5. ASSUME NEW d \in Nat, NEW g \in Upto(d)
      PROVE  Upto(d + 1) # {}
  <2> DEFINE h == [s \in SUBSET S |-> IF Cardinality(s) = d + 1 THEN FoldStep(f, g, s) ELSE g[s]]
  <2>0. g \in [SUBSET S -> Int]
    BY <1>5
  <2>1. h \in [SUBSET S -> Int]
    BY <1>3, <2>0
  <2>2. ASSUME NEW s \in SUBSET S, Cardinality(s) <= d + 1
        PROVE  h[s] = FoldStep(f, h, s)
    <3>1. h[s] = FoldStep(f, g, s)
      BY <1>1, <1>5, <2>2
    <3>2. CASE s = {}
      BY <3>1, <3>2 DEF FoldStep
    <3>3. CASE s # {}
      <4> DEFINE c == Pick(s)
      <4>1. c \in s
        BY <3>3, Picked
      <4> HIDE DEF c
      <4>2. Cardinality(s \ {c}) # d + 1 /\ s \ {c} \in SUBSET S
        BY <1>1, <2>2, <4>1
      <4>3. h[s \ {c}] = g[s \ {c}]
        BY <4>2
      <4> USE DEF c
      <4> HIDE DEF h
      <4>4. QED BY <3>1, <3>3, <4>3 DEF FoldStep
    <3>4. QED BY <3>2, <3>3
  <2> HIDE DEF h
  <2>3. h \in Upto(d + 1)
    BY <2>1, <2>2
  <2>4. QED BY <2>3
<1>6. bad = {}
  <2> SUFFICES ASSUME bad # {} PROVE FALSE
    OBVIOUS
  <2>1. bad \subseteq Nat
    OBVIOUS
  <2> HIDE DEF bad
  <2>2. PICK d \in bad : \A e \in bad : d <= e
    BY <2>1, LeastNatural
  <2>3. d \in Nat /\ Upto(d) = {}
    BY DEF bad
  <2>4. d # 0
    BY <1>4, <2>3
  <2>5. d - 1 \in Nat /\ (d - 1) + 1 = d
    BY <2>3, <2>4
  <2>6. d - 1 \notin bad
    BY <2>2, <2>5
  <2>7. Upto(d - 1) # {}
    BY <2>5, <2>6 DEF bad
  <2> HIDE DEF Upto
  <2>8. Upto((d - 1) + 1) # {}
    BY <1>5, <2>5, <2>7
  <2>9. QED BY <2>3, <2>5, <2>8
<1>7. PICK g : g \in Upto(Cardinality(S))
  BY <1>2, <1>6
<1>8. g \in [SUBSET S -> Int] /\ \A s \in SUBSET S : g[s] = FoldStep(f, g, s)
  BY <1>1, <1>7
<1>9. g = [s \in SUBSET S |-> FoldStep(f, g, s)]
  BY <1>8
<1>10. QED BY <1>9 DEF Folds

\* The fold satisfies its own recursive equation.
LEMMA FoldUnfolds ==
  ASSUME NEW S, IsFiniteSet(S), NEW f \in [S -> Int], NEW s \in SUBSET S
  PROVE  FoldOf(f, S)[s] = FoldStep(f, FoldOf(f, S), s)
<1>1. Folds(FoldOf(f, S), f, S)
  BY FoldExists DEF FoldOf
<1>2. QED BY <1>1 DEF Folds

\* A fold of integers is an integer.
LEMMA FoldIsInt ==
  ASSUME NEW S, IsFiniteSet(S), NEW f \in [S -> Int]
  PROVE  \A s \in SUBSET S : FoldOf(f, S)[s] \in Int
<1> DEFINE g == FoldOf(f, S)
           bad == {s \in SUBSET S : g[s] \notin Int}
<1> SUFFICES ASSUME bad # {} PROVE FALSE
  OBVIOUS
<1>1. PICK s \in bad : \A t \in bad : t \subseteq s => t = s
  <2>1. bad \subseteq SUBSET S
    OBVIOUS
  <2> HIDE DEF bad
  <2>2. QED BY <2>1, SmallestSubset
<1>2. g[s] = FoldStep(f, g, s)
  BY FoldUnfolds
<1> HIDE DEF g
<1>3. CASE s = {}
  BY <1>2, <1>3 DEF FoldStep
<1>4. CASE s # {}
  <2>1. Pick(s) \in s /\ s \ {Pick(s)} \notin bad
    BY <1>1, <1>4, Picked
  <2>2. f[Pick(s)] \in Int /\ g[s \ {Pick(s)}] \in Int
    BY <2>1
  <2>3. QED BY <1>2, <1>4, <2>2 DEF FoldStep
<1>5. QED BY <1>3, <1>4

\* A fold may take any of its elements first.
LEMMA FoldRemove ==
  ASSUME NEW S, IsFiniteSet(S), NEW f \in [S -> Int], NEW s \in SUBSET S, NEW x \in s
  PROVE  FoldOf(f, S)[s] = f[x] + FoldOf(f, S)[s \ {x}]
<1> DEFINE F == FoldOf(f, S)
           Fine(r, y) == F[r] = f[y] + F[r \ {y}]
           bad == {r \in SUBSET S : \E y \in r : ~Fine(r, y)}
<1>0. \A r \in SUBSET S : F[r] = FoldStep(f, F, r) /\ F[r] \in Int
  BY FoldUnfolds, FoldIsInt
<1> HIDE DEF F
<1> SUFFICES ASSUME bad # {} PROVE FALSE
  BY DEF F
<1>1. PICK r \in bad : \A t \in bad : t \subseteq r => t = r
  <2>1. bad \subseteq SUBSET S
    OBVIOUS
  <2> HIDE DEF bad
  <2>2. QED BY <2>1, SmallestSubset
<1>2. PICK y \in r : ~Fine(r, y)
  OBVIOUS
<1> DEFINE c == Pick(r)
<1>3. c \in r
  BY Picked
<1>4. F[r] = f[c] + F[r \ {c}]
  BY <1>0, <1>3 DEF FoldStep
<1> HIDE DEF c
<1>5. c # y
  BY <1>2, <1>4
<1>6. r \ {c} \notin bad /\ r \ {y} \notin bad
  BY <1>1, <1>2, <1>3
<1>7. Fine(r \ {c}, y) /\ Fine(r \ {y}, c)
  BY <1>2, <1>3, <1>5, <1>6
<1>8. (r \ {c}) \ {y} = (r \ {y}) \ {c}
  OBVIOUS
<1>9. /\ F[r \ {c}] = f[y] + F[(r \ {y}) \ {c}]
      /\ F[r \ {y}] = f[c] + F[(r \ {y}) \ {c}]
  BY <1>7, <1>8
<1>10. f[c] \in Int /\ f[y] \in Int /\ F[(r \ {y}) \ {c}] \in Int
  BY <1>0, <1>2, <1>3
<1>11. F[r] = f[y] + F[r \ {y}]
  BY <1>4, <1>9, <1>10
<1>12. QED BY <1>2, <1>11

\* What a proof uses of a fold: its type, its value on nothing and, for any element of
\* a set, that element and the fold of the rest.
LEMMA FoldFacts ==
  ASSUME NEW S, IsFiniteSet(S), NEW f \in [S -> Int]
  PROVE  /\ \A s \in SUBSET S : FoldOf(f, S)[s] \in Int
         /\ FoldOf(f, S)[{}] = 0
         /\ \A s \in SUBSET S : \A x \in s : FoldOf(f, S)[s] = f[x] + FoldOf(f, S)[s \ {x}]
<1>1. FoldOf(f, S)[{}] = FoldStep(f, FoldOf(f, S), {})
  BY FoldUnfolds
<1>2. FoldStep(f, FoldOf(f, S), {}) = 0
  BY DEF FoldStep
<1>3. QED BY <1>1, <1>2, FoldIsInt, FoldRemove

\* The sum of the empty history.
LEMMA NothingMoved == Total(<<>>) = 0
<1> DEFINE e == [i \in {} |-> 0]
<1>1. <<>> = e /\ DOMAIN <<>> = {} /\ e \in [{} -> Int] /\ {} \in SUBSET {}
  OBVIOUS
<1>2. FoldOf(e, {})[{}] = FoldStep(e, FoldOf(e, {}), {})
  BY <1>1, FS_EmptySet, FoldUnfolds
<1>3. FoldStep(e, FoldOf(e, {}), {}) = 0
  BY DEF FoldStep
<1>4. QED BY <1>1, <1>2, <1>3, TotalIsFold

\* A new first item adds its amount.
LEMMA ItemAdds ==
  ASSUME NEW lp \in Seq(Int), NEW a \in Int
  PROVE  Total(<<a>> \o lp) = a + Total(lp) /\ Total(lp) \in Int
<1> DEFINE n == Len(lp)
           g == <<a>> \o lp
           S == 1 .. n
           T == 1 .. n + 1
           F == FoldOf(lp, S)
           G == FoldOf(g, T)
<1>1. /\ n \in Nat /\ g \in Seq(Int) /\ Len(g) = n + 1
      /\ lp \in [S -> Int] /\ g \in [T -> Int] /\ DOMAIN lp = S /\ DOMAIN g = T
      /\ g[1] = a /\ \A i \in S : g[i + 1] = lp[i]
  <2>1. <<a>> \in Seq(Int) /\ Len(<<a>>) = 1 /\ <<a>>[1] = a
    OBVIOUS
  <2>2. /\ g \in Seq(Int) /\ Len(g) = 1 + n
        /\ \A i \in 1 .. 1 + n : g[i] = IF i <= 1 THEN <<a>>[i] ELSE lp[i - 1]
    BY <2>1, ConcatProperties
  <2>3. n \in Nat /\ lp \in [S -> Int] /\ DOMAIN lp = S
    BY LenProperties
  <2> HIDE DEF n, g
  <2>4. g \in [T -> Int] /\ DOMAIN g = T
    BY <2>2, <2>3, LenProperties
  <2>5. g[1] = a
    BY <2>1, <2>2, <2>3
  <2>6. \A i \in S : g[i + 1] = lp[i]
    BY <2>2, <2>3
  <2>7. QED BY <2>2, <2>3, <2>4, <2>5, <2>6
<1> HIDE DEF n, g
<1>2. IsFiniteSet(S) /\ IsFiniteSet(T)
  BY <1>1, FS_Interval
<1>3. /\ \A s \in SUBSET S : F[s] \in Int
      /\ \A s \in SUBSET T : G[s] \in Int
      /\ F[{}] = 0 /\ G[{}] = 0
      /\ \A s \in SUBSET S : \A x \in s : F[s] = lp[x] + F[s \ {x}]
      /\ \A s \in SUBSET T : \A x \in s : G[s] = g[x] + G[s \ {x}]
  <2> HIDE DEF S, T
  <2>1. /\ \A s \in SUBSET S : F[s] \in Int
        /\ F[{}] = 0
        /\ \A s \in SUBSET S : \A x \in s : F[s] = lp[x] + F[s \ {x}]
    <3>1. IsFiniteSet(S) /\ lp \in [S -> Int]
      BY <1>1, <1>2
    <3>2. QED BY <3>1, FoldFacts
  <2>2. /\ \A s \in SUBSET T : G[s] \in Int
        /\ G[{}] = 0
        /\ \A s \in SUBSET T : \A x \in s : G[s] = g[x] + G[s \ {x}]
    <3>1. IsFiniteSet(T) /\ g \in [T -> Int]
      BY <1>1, <1>2
    <3>2. QED BY <3>1, FoldFacts
  <2>3. QED BY <2>1, <2>2, Zenon
<1> HIDE DEF F, G
<1> DEFINE bad == {m \in 0 .. n : G[2 .. m + 1] # F[1 .. m]}
<1>4. bad = {}
  <2> SUFFICES ASSUME bad # {} PROVE FALSE
    OBVIOUS
  <2>1. bad \subseteq Nat
    BY <1>1
  <2> HIDE DEF bad
  <2>2. PICK m \in bad : \A k \in bad : m <= k
    BY <2>1, LeastNatural
  <2>3. m \in 0 .. n /\ G[2 .. m + 1] # F[1 .. m]
    BY DEF bad
  <2>4. CASE m = 0
    <3>1. 2 .. m + 1 = {} /\ 1 .. m = {}
      BY <2>4
    <3>2. QED BY <1>3, <2>3, <3>1
  <2>5. CASE m # 0
    <3>1. /\ m - 1 \in 0 .. n /\ (m - 1) + 1 = m /\ m \in 1 .. m /\ m + 1 \in 2 .. m + 1
          /\ 1 .. m \in SUBSET S /\ 2 .. m + 1 \in SUBSET T /\ m \in S
      BY <1>1, <2>3, <2>5
    <3>2. (1 .. m) \ {m} = 1 .. m - 1 /\ (2 .. m + 1) \ {m + 1} = 2 .. m
      BY <1>1, <2>3, <2>5
    <3>3. m - 1 \notin bad
      BY <1>1, <2>2, <2>3, <2>5
    <3>4. G[2 .. (m - 1) + 1] = F[1 .. m - 1]
      BY <3>1, <3>3 DEF bad
    <3>5. F[1 .. m] = lp[m] + F[1 .. m - 1] /\ G[2 .. m + 1] = g[m + 1] + G[2 .. m]
      <4>1. /\ F[1 .. m] = lp[m] + F[(1 .. m) \ {m}]
            /\ G[2 .. m + 1] = g[m + 1] + G[(2 .. m + 1) \ {m + 1}]
        BY <1>3, <3>1
      <4>2. QED BY <3>2, <4>1
    <3>6. g[m + 1] = lp[m]
      BY <1>1, <3>1
    <3>7. QED BY <2>3, <3>1, <3>4, <3>5, <3>6
  <2>6. QED BY <2>4, <2>5
<1>5. G[2 .. n + 1] = F[1 .. n]
  <2>1. n \in 0 .. n
    BY <1>1
  <2>2. QED BY <1>4, <2>1, Zenon
<1>6. T \ {1} = 2 .. n + 1 /\ 1 \in T /\ T \in SUBSET T /\ S \in SUBSET S
  BY <1>1
<1>7. G[T] = a + F[S] /\ F[S] \in Int
  <2>1. G[T] = g[1] + G[T \ {1}] /\ F[S] \in Int
    BY <1>3, <1>6
  <2>2. QED BY <1>1, <1>5, <1>6, <2>1
<1>8. Total(g) = G[T] /\ Total(lp) = F[S]
  BY <1>1, TotalIsFold DEF F, G
<1>9. QED BY <1>7, <1>8 DEF g

-----------------------------------------------------------------------------
(* What the context's functions write.                                     *)

\* One deposit or withdrawal turns the pool of m into that of w.
MovedBy(n, m, w) ==
    w.tvl = m.tvl + n /\ w.deposited = m.deposited + n /\ w.lp = <<n>> \o m.lp
MovedOnce(m, w) ==
    \/ w.tvl = m.tvl /\ w.deposited = m.deposited /\ w.lp = m.lp
    \/ \E a \in Amounts : MovedBy(a, m, w)
    \/ \E a \in 1 .. m.deposited : MovedBy(-a, m, w)

\* What is written to the memory m is right: the books agree, the pool moves at most
\* once, the yield follows, and what is lent fits the pool.
Right(ch, m) ==
    /\ ch.to \in StoreType
    /\ m.tvl = NoPool => "tvl" \notin ch.of
    /\ Booked(With(m, ch))
    /\ m.tvl # NoPool =>
          /\ With(m, ch).tvl # NoPool
          /\ MovedOnce(m, With(m, ch))
          /\ <<m.yield, m.tvl>> # <<With(m, ch).yield, With(m, ch).tvl>>
                => With(m, ch).yield = YieldNow(With(m, ch))
    /\ {"creator", "loans"} \subseteq ch.of =>
          \/ ch.to.creator.loan.amount = 0
          \/ m.tvl # NoPool /\ LENT + ch.to.creator.loan.amount <= With(m, ch).tvl

\* An advance and a creator have their shape.
LEMMA LoanShape ==
    /\ NoLoan \in LoanType
    /\ \A l \in LoanType : l.amount \in Nat
BY DEF LoanType, NoLoan

\* The own creator's advance and revenues, whether it is listed or not.
LEMMA CreatorShape ==
    /\ Unlisted \in CreatorType
    /\ \A c \in CreatorType : c.loan \in LoanType
    /\ \A c \in CreatorType : c.fees \in Nat
    /\ \A c \in CreatorType : c # Unlisted => c.fees \in Revenues
<1>1. Unlisted \in CreatorType
  BY DEF CreatorType
<1>2. \A c \in CreatorType : c.loan \in LoanType
  BY LoanShape DEF CreatorType, Unlisted
<1>3. \A c \in CreatorType : c.fees \in Nat
  BY DEF CreatorType, Unlisted, Revenues
<1>4. \A c \in CreatorType : c # Unlisted => c.fees \in Revenues
  BY DEF CreatorType
<1>5. QED BY <1>1, <1>2, <1>3, <1>4

\* What a tab starts from is a state.
LEMMA FreshShape ==
    /\ Blank \in StoreType
    /\ \A w \in BOOLEAN : Fresh(w) \in StoreType
<1> DEFINE none == <<>>
<1>1. none \in Seq(History) /\ none \in Seq(Int)
  OBVIOUS
<1>2. Blank = [tvl |-> 0, deposited |-> 0, additional |-> 0, yield |-> 0, creator |-> Unlisted,
               loans |-> none, lp |-> none, wallet |-> FALSE]
  BY DEF Blank, NoPool
<1> HIDE DEF none
<1>3. Blank \in StoreType
  BY <1>1, <1>2, CreatorShape DEF StoreType
<1>4. ASSUME NEW w \in BOOLEAN PROVE Fresh(w) \in StoreType
  <2>1. SEED \in Nat
    BY DemoAssumption
  <2>2. QED BY <1>3, <2>1 DEF Fresh, StoreType
<1>5. QED BY <1>3, <1>4

\* Nothing is in the pool of an empty storage, nor of a document that loads.
LEMMA BlankIsBooked ==
    /\ Booked(Blank)
    /\ \A w \in BOOLEAN : Booked([Blank EXCEPT !.wallet = w])
BY DEF Booked, Blank

\* The yield is a number.
LEMMA YieldIsInt ==
  ASSUME NEW deposit \in Nat, NEW tvl \in Nat, NEW loan \in LoanType
  PROVE  calculateMonthlyYield(deposit, tvl, loan) \in Int /\ calculateLPAPR(tvl, loan) \in Int
<1> DEFINE interest == LENT * LENTRATE + IF loan = NoLoan THEN 0 ELSE loan.amount * loan.apr
           rate == (18 * interest + 10 * tvl) \div (20 * tvl)
<1>1. interest \in Int
  <2>1. LENT * LENTRATE \in Int
    BY DemoAssumption
  <2>2. CASE loan = NoLoan
    BY <2>1, <2>2
  <2>3. CASE loan # NoLoan
    <3>1. loan.amount \in Nat /\ loan.apr \in Nat
      BY <2>3 DEF LoanType
    <3>2. loan.amount * loan.apr \in Int
      BY <3>1
    <3>3. QED BY <2>1, <2>3, <3>2
  <2>4. QED BY <2>2, <2>3
<1> HIDE DEF interest
<1>2. tvl # 0 => rate \in Int
  BY <1>1
<1> HIDE DEF rate
<1>3. calculateLPAPR(tvl, loan) = IF tvl = NoPool \/ rate < 85 THEN 85 ELSE rate
  BY DEF calculateLPAPR, interest, rate
<1>4. calculateLPAPR(tvl, loan) \in Int
  BY <1>2, <1>3 DEF NoPool
<1>5. QED BY <1>4 DEF calculateMonthlyYield

\* A change of some fields is the state's with those fields.
LEMMA WithFields ==
  ASSUME NEW s \in StoreType, NEW fields, NEW r \in StoreType
  PROVE  LET m == With(s, Sets(fields, r))
         IN /\ m \in StoreType
            /\ m.tvl = (IF "tvl" \in fields THEN r.tvl ELSE s.tvl)
            /\ m.deposited = (IF "deposited" \in fields THEN r.deposited ELSE s.deposited)
            /\ m.additional = (IF "additional" \in fields THEN r.additional ELSE s.additional)
            /\ m.yield = (IF "yield" \in fields THEN r.yield ELSE s.yield)
            /\ m.creator = (IF "creator" \in fields THEN r.creator ELSE s.creator)
            /\ m.loans = (IF "loans" \in fields THEN r.loans ELSE s.loans)
            /\ m.lp = (IF "lp" \in fields THEN r.lp ELSE s.lp)
            /\ m.wallet = (IF "wallet" \in fields THEN r.wallet ELSE s.wallet)
BY DEF With, Sets, StoreType

\* What leaves the pool and the history of the position alone is right, if the yield
\* it writes is that of the advance it writes.
LEMMA PoolKept ==
  ASSUME NEW m \in StoreType, Booked(m), NEW r \in StoreType, NEW fields,
         "tvl" \notin fields, "lp" \notin fields,
         "deposited" \in fields => r.deposited = m.deposited,
         "additional" \in fields => r.additional = m.additional,
         "yield" \in fields =>
            /\ "creator" \in fields
            /\ r.yield = calculateMonthlyYield(m.deposited, m.tvl, r.creator.loan),
         {"creator", "loans"} \subseteq fields =>
            \/ r.creator.loan.amount = 0
            \/ m.tvl # NoPool /\ LENT + r.creator.loan.amount <= m.tvl
  PROVE  Right(Sets(fields, r), m) /\ SamePool(m, With(m, Sets(fields, r)))
<1> DEFINE w == With(m, Sets(fields, r))
<1>1. /\ w.tvl = m.tvl /\ w.deposited = m.deposited /\ w.lp = m.lp /\ w.additional = m.additional
      /\ "yield" \in fields => w.yield = r.yield /\ w.creator = r.creator
      /\ "yield" \notin fields => w.yield = m.yield
  BY WithFields
<1> HIDE DEF w
<1>2. Booked(w)
  BY <1>1 DEF Booked
<1>3. "yield" \in fields => w.yield = YieldNow(w)
  BY <1>1 DEF YieldNow
<1>4. Sets(fields, r).of = fields /\ Sets(fields, r).to = r
  BY DEF Sets
<1>5. Right(Sets(fields, r), m)
  BY <1>1, <1>2, <1>3, <1>4 DEF Right, MovedOnce, w
<1>6. QED BY <1>1, <1>5 DEF SamePool, w

\* A handler that writes nothing is right.
LEMMA NothingIsRight ==
  ASSUME NEW m \in StoreType, Booked(m)
  PROVE  Right(Nothing, m) /\ With(m, Nothing) = m
<1>1. Right(Nothing, m)
  BY FreshShape, PoolKept DEF Nothing
<1>2. With(m, Nothing) = m
  BY DEF With, Nothing, Sets, StoreType
<1>3. QED BY <1>1, <1>2

\* Connecting a wallet.
LEMMA WalletIsRight ==
  ASSUME NEW m \in StoreType, Booked(m), NEW s \in StoreType
  PROVE  /\ Right(Sets({"wallet"}, [s EXCEPT !.wallet = TRUE]), m)
         /\ SamePool(m, With(m, Sets({"wallet"}, [s EXCEPT !.wallet = TRUE])))
         /\ With(m, Sets({"wallet"}, [s EXCEPT !.wallet = TRUE])).creator = m.creator
         /\ Right(setCurrentUserWallet(s), m)
         /\ SamePool(m, With(m, setCurrentUserWallet(s)))
         /\ With(m, setCurrentUserWallet(s)).creator = m.creator
<1> DEFINE r == [s EXCEPT !.wallet = TRUE]
           g == {"wallet"} \cup IF s.loans = <<>> THEN {"loans"} ELSE {}
<1>1. r \in StoreType
  BY DEF StoreType
<1> HIDE DEF r
<1>2. /\ Right(Sets({"wallet"}, r), m) /\ SamePool(m, With(m, Sets({"wallet"}, r)))
      /\ With(m, Sets({"wallet"}, r)).creator = m.creator
  <2> DEFINE v == {"wallet"}
  <2>1. /\ "tvl" \notin v /\ "lp" \notin v /\ "deposited" \notin v /\ "additional" \notin v
        /\ "yield" \notin v /\ "creator" \notin v
    OBVIOUS
  <2> HIDE DEF v
  <2>2. Right(Sets(v, r), m) /\ SamePool(m, With(m, Sets(v, r)))
    BY <1>1, <2>1, PoolKept
  <2>3. With(m, Sets(v, r)).creator = m.creator
    BY <1>1, <2>1, WithFields
  <2>4. QED BY <2>2, <2>3 DEF v
<1>3. /\ "tvl" \notin g /\ "lp" \notin g /\ "deposited" \notin g /\ "additional" \notin g
      /\ "yield" \notin g /\ "creator" \notin g
  OBVIOUS
<1>4. setCurrentUserWallet(s) = Sets(g, r)
  BY DEF setCurrentUserWallet, r
<1> HIDE DEF g
<1>5. /\ Right(Sets(g, r), m) /\ SamePool(m, With(m, Sets(g, r)))
      /\ With(m, Sets(g, r)).creator = m.creator
  BY <1>1, <1>3, PoolKept, WithFields
<1>6. QED BY <1>2, <1>4, <1>5 DEF r

\* What writes the creators reads the position and the pool it was clicked on.
LEMMA CreatorsAreRight ==
  ASSUME NEW m \in StoreType, Booked(m), NEW s \in StoreType, SamePool(s, m), NEW c \in CreatorType
  PROVE  /\ Right(setCreators(s, c), m) /\ SamePool(m, With(m, setCreators(s, c)))
         /\ \A kind \in History :
               (\/ c.loan.amount = 0
                \/ m.tvl # NoPool /\ LENT + c.loan.amount <= m.tvl)
               => LET ch == addLoanHistoryItem(setCreators(s, c), s, kind)
                  IN Right(ch, m) /\ SamePool(m, With(m, ch))
<1> DEFINE r == IF s.tvl = NoPool THEN [s EXCEPT !.creator = c]
                ELSE [s EXCEPT !.creator = c,
                               !.yield = calculateMonthlyYield(s.deposited, s.tvl, c.loan)]
           g == IF s.tvl = NoPool THEN {"creator"} ELSE {"creator", "deposited", "additional", "yield"}
<1>1. setCreators(s, c) = Sets(g, r)
  BY DEF setCreators
<1>2. /\ s.tvl = m.tvl /\ s.deposited = m.deposited /\ s.additional = m.additional
      /\ s.deposited \in Nat /\ s.tvl \in Nat /\ c.loan \in LoanType
  BY CreatorShape DEF SamePool, StoreType
<1>3. calculateMonthlyYield(s.deposited, s.tvl, c.loan) \in Int
  BY <1>2, YieldIsInt
<1>4. /\ r \in StoreType /\ r.creator = c
      /\ r.deposited = m.deposited /\ r.additional = m.additional /\ r.loans = s.loans
      /\ "yield" \in g => r.yield = calculateMonthlyYield(m.deposited, m.tvl, c.loan)
  BY <1>2, <1>3 DEF StoreType
<1>5. "creator" \in g /\ "tvl" \notin g /\ "lp" \notin g /\ "loans" \notin g
  OBVIOUS
<1> HIDE DEF r, g
<1>6. Right(Sets(g, r), m) /\ SamePool(m, With(m, Sets(g, r)))
  BY <1>4, <1>5, PoolKept
<1>7. ASSUME NEW kind \in History,
             \/ c.loan.amount = 0
             \/ m.tvl # NoPool /\ LENT + c.loan.amount <= m.tvl
      PROVE  LET ch == addLoanHistoryItem(setCreators(s, c), s, kind)
             IN Right(ch, m) /\ SamePool(m, With(m, ch))
  <2> DEFINE q == [r EXCEPT !.loans = <<kind>> \o s.loans]
             h == g \cup {"loans"}
  <2>1. addLoanHistoryItem(setCreators(s, c), s, kind) = Sets(h, q)
    BY <1>1 DEF addLoanHistoryItem, Sets
  <2>2. <<kind>> \o s.loans \in Seq(History)
    BY DEF StoreType
  <2>3. /\ q \in StoreType /\ q.creator = c /\ q.deposited = m.deposited
        /\ q.additional = m.additional
        /\ "yield" \in h => q.yield = calculateMonthlyYield(m.deposited, m.tvl, c.loan)
    BY <1>4, <2>2 DEF StoreType
  <2>4. "creator" \in h /\ "tvl" \notin h /\ "lp" \notin h
    BY <1>5
  <2> HIDE DEF q, h
  <2>5. Right(Sets(h, q), m) /\ SamePool(m, With(m, Sets(h, q)))
    BY <1>7, <2>3, <2>4, PoolKept
  <2>6. QED BY <2>1, <2>5
<1>8. QED BY <1>1, <1>6, <1>7

\* A creator who is added, whose advance is closed, or whose revenues change.
LEMMA ListingIsRight ==
  ASSUME NEW m \in StoreType, Booked(m), NEW s \in StoreType, SamePool(s, m), NEW fees \in Revenues
  PROVE  /\ Right(addCreatorToList(s, fees), m) /\ SamePool(m, With(m, addCreatorToList(s, fees)))
         /\ LET ch == addLoanHistoryItem(removeCreatorLoan(s), s, "full_payoff")
            IN Right(ch, m) /\ SamePool(m, With(m, ch))
         /\ Right(updateCreatorEarnings(s, fees), m)
         /\ SamePool(m, With(m, updateCreatorEarnings(s, fees)))
<1>1. s.creator \in CreatorType /\ s.creator.loan \in LoanType
  BY CreatorShape DEF StoreType
<1>2. [fees |-> fees, loan |-> s.creator.loan] \in CreatorType
  BY <1>1 DEF CreatorType
<1>3. /\ Right(addCreatorToList(s, fees), m) /\ SamePool(m, With(m, addCreatorToList(s, fees)))
  BY <1>2, CreatorsAreRight DEF addCreatorToList
<1> DEFINE closed == [s.creator EXCEPT !.loan = NoLoan]
<1>4. closed \in CreatorType /\ closed.loan.amount = 0
  <2>1. NoLoan \in LoanType /\ NoLoan.amount = 0
    BY LoanShape DEF NoLoan
  <2>2. CASE s.creator = Unlisted
    <3>1. closed = Unlisted
      BY <2>2 DEF Unlisted
    <3>2. Unlisted.loan.amount = 0
      BY DEF Unlisted, NoLoan
    <3>3. QED BY <3>1, <3>2, CreatorShape
  <2>3. CASE s.creator # Unlisted
    <3>1. s.creator \in [fees : Revenues, loan : LoanType]
      BY <1>1, <2>3 DEF CreatorType
    <3>2. closed \in [fees : Revenues, loan : LoanType] /\ closed.loan = NoLoan
      BY <2>1, <3>1
    <3>3. QED BY <2>1, <3>2 DEF CreatorType
  <2>4. QED BY <2>2, <2>3
<1>5. removeCreatorLoan(s) = setCreators(s, closed)
  BY DEF removeCreatorLoan
<1> HIDE DEF closed
<1>6. LET ch == addLoanHistoryItem(removeCreatorLoan(s), s, "full_payoff")
      IN Right(ch, m) /\ SamePool(m, With(m, ch))
  <2>1. "full_payoff" \in History
    BY DEF History
  <2>2. LET ch == addLoanHistoryItem(setCreators(s, closed), s, "full_payoff")
        IN Right(ch, m) /\ SamePool(m, With(m, ch))
    BY <1>4, <2>1, CreatorsAreRight
  <2>3. QED BY <1>5, <2>2
<1>7. /\ Right(updateCreatorEarnings(s, fees), m)
      /\ SamePool(m, With(m, updateCreatorEarnings(s, fees)))
  <2> DEFINE r == [s EXCEPT !.creator = IF Listed(s) THEN [@ EXCEPT !.fees = fees] ELSE @]
             v == {"creator"}
  <2>1. r \in StoreType
    <3>1. CASE Listed(s)
      <4>1. s.creator \in [fees : Revenues, loan : LoanType]
        BY <1>1, <3>1 DEF Listed, CreatorType
      <4>2. [s.creator EXCEPT !.fees = fees] \in CreatorType
        BY <4>1 DEF CreatorType
      <4>3. r = [s EXCEPT !.creator = [s.creator EXCEPT !.fees = fees]]
        BY <3>1
      <4>4. QED BY <4>2, <4>3 DEF StoreType
    <3>2. CASE ~Listed(s)
      <4>1. r = [s EXCEPT !.creator = s.creator]
        BY <3>2
      <4>2. QED BY <1>1, <4>1 DEF StoreType
    <3>3. QED BY <3>1, <3>2
  <2>2. \/ updateCreatorEarnings(s, fees) = Nothing
        \/ updateCreatorEarnings(s, fees) = Sets(v, r)
    BY DEF updateCreatorEarnings
  <2>3. "tvl" \notin v /\ "lp" \notin v /\ "deposited" \notin v /\ "additional" \notin v
        /\ "yield" \notin v /\ "loans" \notin v
    OBVIOUS
  <2> HIDE DEF r, v
  <2>4. Right(Sets(v, r), m) /\ SamePool(m, With(m, Sets(v, r)))
    BY <2>1, <2>3, PoolKept
  <2>5. Right(Nothing, m) /\ SamePool(m, With(m, Nothing))
    BY NothingIsRight DEF SamePool
  <2>6. QED BY <2>2, <2>4, <2>5
<1>8. QED BY <1>3, <1>6, <1>7

\* An advance that is given, or what is left of one after an early payment: the pool's
\* liquidity is checked on the state of the click.
LEMMA LoanIsRight ==
  ASSUME NEW m \in StoreType, Booked(m), NEW s \in StoreType, SamePool(s, m), NEW loan \in LoanType
  PROVE  /\ Right(addCreatorLoan(s, loan), m) /\ SamePool(m, With(m, addCreatorLoan(s, loan)))
         /\ LET ch == addLoanHistoryItem(addCreatorLoan(s, loan), s, "early_payment")
            IN Right(ch, m) /\ SamePool(m, With(m, ch))
<1> DEFINE early == addLoanHistoryItem(addCreatorLoan(s, loan), s, "early_payment")
<1>1. CASE ~validateBorrowingRequest(s, loan.amount)
  <2>1. addCreatorLoan(s, loan) = Nothing
    BY <1>1 DEF addCreatorLoan
  <2>2. Right(Nothing, m) /\ SamePool(m, With(m, Nothing))
    BY NothingIsRight DEF SamePool
  <2> DEFINE r == [Blank EXCEPT !.loans = <<"early_payment">> \o s.loans]
             v == {"loans"}
  <2>3. r \in StoreType
    <3>1. <<"early_payment">> \o s.loans \in Seq(History)
      BY DEF StoreType, History
    <3>2. QED BY <3>1, FreshShape DEF StoreType
  <2>4. early = Sets(v, r)
    BY <2>1 DEF addLoanHistoryItem, Nothing, Sets
  <2>5. "tvl" \notin v /\ "lp" \notin v /\ "deposited" \notin v /\ "additional" \notin v
        /\ "yield" \notin v /\ "creator" \notin v
    OBVIOUS
  <2> HIDE DEF r, v
  <2>6. Right(Sets(v, r), m) /\ SamePool(m, With(m, Sets(v, r)))
    BY <2>3, <2>5, PoolKept
  <2>7. QED BY <2>1, <2>2, <2>4, <2>6
<1>2. CASE validateBorrowingRequest(s, loan.amount)
  <2> DEFINE c == [fees |-> IF Listed(s) THEN s.creator.fees ELSE FEES, loan |-> loan]
  <2>1. c \in CreatorType /\ c.loan = loan
    <3>1. s.creator \in CreatorType
      BY DEF StoreType
    <3>2. FEES \in Revenues
      BY DemoAssumption DEF Revenues
    <3>3. (IF Listed(s) THEN s.creator.fees ELSE FEES) \in Revenues
      BY <3>1, <3>2, CreatorShape DEF Listed
    <3>4. QED BY <3>3 DEF CreatorType
  <2>2. addCreatorLoan(s, loan) = addLoanHistoryItem(setCreators(s, c), s, "loan")
    BY <1>2 DEF addCreatorLoan
  <2> HIDE DEF c
  <2>3. m.tvl # NoPool /\ LENT + c.loan.amount <= m.tvl
    <3>1. /\ s.tvl # NoPool /\ loan.amount <= s.tvl - (LENT + s.creator.loan.amount)
          /\ s.tvl = m.tvl
      BY <1>2 DEF validateBorrowingRequest, TotalBorrowed, SamePool
    <3>2. /\ LENT \in Nat /\ loan.amount \in Nat /\ s.creator.loan.amount \in Nat
          /\ s.tvl \in Nat
      BY DemoAssumption, LoanShape, CreatorShape DEF StoreType
    <3>3. QED BY <2>1, <3>1, <3>2
  <2>4. "loan" \in History /\ "early_payment" \in History
    BY DEF History
  <2>5. LET ch == addLoanHistoryItem(setCreators(s, c), s, "loan")
        IN Right(ch, m) /\ SamePool(m, With(m, ch))
    BY <2>1, <2>3, <2>4, CreatorsAreRight
  <2>6. LET ch == addLoanHistoryItem(setCreators(s, c), s, "early_payment")
        IN Right(ch, m) /\ SamePool(m, With(m, ch))
    BY <2>1, <2>3, <2>4, CreatorsAreRight
  <2>7. early = addLoanHistoryItem(setCreators(s, c), s, "early_payment")
    <3> DEFINE w == setCreators(s, c)
    <3>1. w.to \in StoreType
      BY <2>1, CreatorsAreRight DEF Right
    <3> HIDE DEF w
    <3>2. [[w.to EXCEPT !.loans = <<"loan">> \o s.loans]
             EXCEPT !.loans = <<"early_payment">> \o s.loans]
            = [w.to EXCEPT !.loans = <<"early_payment">> \o s.loans]
      BY <3>1 DEF StoreType
    <3>3. (w.of \cup {"loans"}) \cup {"loans"} = w.of \cup {"loans"}
      OBVIOUS
    <3>4. addLoanHistoryItem(addLoanHistoryItem(w, s, "loan"), s, "early_payment")
            = addLoanHistoryItem(w, s, "early_payment")
      BY <3>2, <3>3 DEF addLoanHistoryItem, Sets
    <3>5. QED BY <2>2, <3>4 DEF w
  <2>8. QED BY <2>2, <2>5, <2>6, <2>7
<1>3. QED BY <1>1, <1>2

\* A deposit and a withdrawal.
LEMMA MoveIsRight ==
  ASSUME NEW m \in StoreType, Booked(m), NEW s \in StoreType, SamePool(s, m),
         s.creator.loan = m.creator.loan, NEW a \in Nat \ {0}
  PROVE  (a \in Amounts => Right(depositToPool(s, a), m)) /\ Right(withdrawFromPool(s, a), m)
<1>1. Right(Nothing, m)
  BY NothingIsRight
<1>2. /\ s.tvl \in Nat /\ s.deposited \in Nat /\ s.additional \in Nat /\ s.lp \in Seq(Int)
      /\ s.creator.loan \in LoanType /\ SEED \in Nat \ {0}
      /\ s.tvl = m.tvl /\ s.deposited = m.deposited /\ s.lp = m.lp
  BY DemoAssumption, CreatorShape DEF StoreType, SamePool
<1> DEFINE g == {"tvl", "deposited", "additional", "lp", "yield"}
<1>3. ASSUME NEW n \in Int, NEW x \in Nat, s.tvl # NoPool, s.deposited + n \in Nat,
             n \in Amounts \/ \E b \in 1 .. s.deposited : n = -b
      PROVE  LET q == [s EXCEPT !.tvl = @ + n, !.deposited = @ + n, !.additional = x,
                                !.lp = <<n>> \o @]
             IN Right(Moved(q), m)
  <2> DEFINE q == [s EXCEPT !.tvl = @ + n, !.deposited = @ + n, !.additional = x, !.lp = <<n>> \o @]
             r == [q EXCEPT !.yield = YieldNow(q)]
             w == With(m, Sets(g, r))
  <2>1. /\ s.tvl = SEED + s.deposited /\ s.tvl = SEED + Total(s.lp)
        /\ Total(<<n>> \o s.lp) = n + Total(s.lp) /\ Total(s.lp) \in Int
        /\ <<n>> \o s.lp \in Seq(Int)
    BY <1>2, <1>3, ItemAdds DEF Booked
  <2>2. s.tvl + n \in Nat /\ s.tvl + n # 0
    BY <1>2, <1>3, <2>1
  <2>3. /\ q \in StoreType /\ q.tvl = s.tvl + n /\ q.deposited = s.deposited + n
        /\ q.lp = <<n>> \o s.lp /\ q.creator = s.creator
    BY <1>2, <1>3, <2>1, <2>2 DEF StoreType
  <2> HIDE DEF q
  <2>4. YieldNow(q) \in Int
    BY <1>2, <1>3, <2>2, <2>3, YieldIsInt DEF YieldNow
  <2>5. /\ r \in StoreType /\ r.yield = YieldNow(q) /\ r.tvl = q.tvl
        /\ r.deposited = q.deposited /\ r.lp = q.lp
    BY <2>3, <2>4 DEF StoreType
  <2> HIDE DEF r
  <2>6. /\ w.tvl = q.tvl /\ w.deposited = q.deposited /\ w.lp = q.lp /\ w.yield = YieldNow(q)
        /\ w.creator = m.creator
    BY <2>5, WithFields
  <2> HIDE DEF w
  <2>7. Booked(w)
    BY <1>2, <1>3, <2>1, <2>2, <2>3, <2>6 DEF Booked, NoPool
  <2>8. YieldNow(w) = YieldNow(q)
    BY <2>3, <2>6 DEF YieldNow
  <2>9. Sets(g, r).of = g /\ Sets(g, r).to = r /\ "creator" \notin g
    BY DEF Sets
  <2>10. MovedOnce(m, w)
    <3>1. MovedBy(n, m, w)
      BY <1>2, <2>3, <2>6 DEF MovedBy
    <3>2. QED BY <1>2, <1>3, <3>1 DEF MovedOnce
  <2>11. Right(Sets(g, r), m)
    BY <1>2, <1>3, <2>2, <2>3, <2>5, <2>6, <2>7, <2>8, <2>9, <2>10 DEF Right, w, NoPool
  <2>12. Moved(q) = Sets(g, r)
    BY DEF Moved, r
  <2>13. QED BY <2>11, <2>12 DEF q
<1>4. ASSUME a \in Amounts PROVE Right(depositToPool(s, a), m)
  <2>1. CASE s.tvl = NoPool
    BY <1>1, <2>1 DEF depositToPool
  <2>2. CASE s.tvl # NoPool
    <3>1. s.additional + a \in Nat /\ a \in Int /\ s.deposited + a \in Nat
      BY <1>2
    <3>2. Right(Moved([s EXCEPT !.tvl = @ + a, !.deposited = @ + a,
                                !.additional = s.additional + a, !.lp = <<a>> \o @]), m)
      BY <1>3, <1>4, <2>2, <3>1
    <3>3. QED BY <2>2, <3>2 DEF depositToPool
  <2>3. QED BY <2>1, <2>2
<1>5. Right(withdrawFromPool(s, a), m)
  <2>1. CASE s.tvl = NoPool \/ a > s.deposited
    BY <1>1, <2>1 DEF withdrawFromPool
  <2>2. CASE ~(s.tvl = NoPool \/ a > s.deposited)
    <3> DEFINE x == s.additional - (IF a < s.additional THEN a ELSE s.additional)
    <3>1. x \in Nat /\ -a \in Int /\ s.deposited + (-a) \in Nat /\ a \in 1 .. s.deposited
      BY <1>2, <2>2
    <3>2. Right(Moved([s EXCEPT !.tvl = @ + (-a), !.deposited = @ + (-a),
                                !.additional = x, !.lp = <<-a>> \o @]), m)
      BY <1>3, <2>2, <3>1
    <3>3. s.tvl + (-a) = s.tvl - a /\ s.deposited + (-a) = s.deposited - a
      BY <1>2
    <3>4. Right(Moved([s EXCEPT !.tvl = @ - a, !.deposited = @ - a,
                                !.additional = x, !.lp = <<-a>> \o @]), m)
      BY <3>2, <3>3
    <3>5. QED BY <2>2, <3>4 DEF withdrawFromPool
  <2>3. QED BY <2>1, <2>2
<1>6. QED BY <1>4, <1>5

-----------------------------------------------------------------------------
(* An advance's terms.                                                     *)

\* A quotient of naturals is a natural.
LEMMA QuotientIsNat ==
  ASSUME NEW a \in Nat, NEW b \in Nat \ {0}
  PROVE  a \div b \in Nat
OBVIOUS

\* Interest only adds: what is scaled by at least one is at least what it was.
LEMMA QuotientAtLeast ==
  ASSUME NEW a \in Nat, NEW b \in Nat \ {0}, NEW c \in Nat
  PROVE  (a * (b + c)) \div b \in Nat /\ a <= (a * (b + c)) \div b
<1>1. a * (b + c) = b * a + a * c /\ a * c \in Nat /\ b * a \in Nat
  OBVIOUS
<1> DEFINE x == a * (b + c)
           q == x \div b
<1>2. x \in Nat /\ x >= b * a
  BY <1>1
<1> HIDE DEF x
<1>3. q \in Nat /\ x = b * q + (x % b) /\ 0 <= x % b /\ x % b < b
  BY <1>2
<1> HIDE DEF q
<1>4. ASSUME q < a PROVE FALSE
  <2>1. q + 1 <= a
    BY <1>3, <1>4
  <2>2. b * (q + 1) <= b * a
    BY <1>3, <2>1
  <2>3. b * (q + 1) = b * q + b
    BY <1>3
  <2>4. b * q \in Nat /\ b * a \in Nat /\ x % b \in Nat
    BY <1>2, <1>3
  <2>5. QED BY <1>2, <1>3, <2>2, <2>3, <2>4
<1>5. QED BY <1>3, <1>4 DEF q, x

\* A share is at most the whole.
LEMMA QuotientAtMost ==
  ASSUME NEW a \in Nat, NEW b \in Nat \ {0}, NEW c \in 0 .. b
  PROVE  (a * c) \div b \in 0 .. a
<1> DEFINE x == a * c
           q == x \div b
<1>1. x \in Nat /\ x <= b * a
  OBVIOUS
<1> HIDE DEF x
<1>2. q \in Nat /\ x = b * q + (x % b) /\ 0 <= x % b /\ x % b < b
  BY <1>1
<1> HIDE DEF q
<1>3. ASSUME a < q PROVE FALSE
  <2>1. a + 1 <= q
    BY <1>2, <1>3
  <2>2. b * (a + 1) <= b * q
    BY <1>2, <2>1
  <2>3. b * (a + 1) = b * a + b
    OBVIOUS
  <2>4. b * q \in Nat /\ b * a \in Nat /\ x % b \in Nat
    BY <1>1, <1>2
  <2>5. QED BY <1>1, <1>2, <2>2, <2>3, <2>4
<1>4. QED BY <1>2, <1>3 DEF q, x

\* A quotient rounded up is a natural.
LEMMA CeilIsNat ==
  ASSUME NEW a \in Nat, NEW b \in Nat \ {0}
  PROVE  CeilDiv(a, b) \in Nat
<1>1. a + b - 1 \in Nat
  OBVIOUS
<1>2. QED BY <1>1, QuotientIsNat DEF CeilDiv

\* The terms the page computes: what is owed covers what is paid out.
LEMMA TermsFit ==
  ASSUME NEW fees \in Revenues, NEW pct \in Nat
  PROVE  calculateBorrowingTerms(fees, pct) \in TermsType
<1> DEFINE apr == 500 + 4 * pct
           estimated == CeilDiv(14 * pct, Tier(pct))
           amount == (2 * fees * pct) \div 100
           interest == apr * estimated
           owed == (amount * (364000 + interest)) \div 364000
           days == CeilDiv(14 * pct * (364000 + interest), Tier(pct) * 364000)
<1>1. Tier(pct) \in Nat \ {0}
  BY DEF Tier
<1>2. apr \in Nat /\ 14 * pct \in Nat /\ 2 * fees * pct \in Nat
  BY DEF Revenues
<1>3. estimated \in Nat
  BY <1>1, <1>2, CeilIsNat
<1>4. amount \in Nat
  BY <1>2, QuotientIsNat
<1> HIDE DEF estimated, amount, apr
<1>5. interest \in Nat
  BY <1>2, <1>3
<1> HIDE DEF interest
<1>6. owed \in Nat /\ amount <= owed
  BY <1>4, <1>5, QuotientAtLeast
<1>7. days \in Nat
  <2>1. 14 * pct * (364000 + interest) \in Nat /\ Tier(pct) * 364000 \in Nat \ {0}
    BY <1>1, <1>2, <1>5
  <2>2. QED BY <2>1, CeilIsNat
<1>8. calculateBorrowingTerms(fees, pct)
        = [amount |-> amount, apr |-> apr, tier |-> Tier(pct), owed |-> owed, days |-> days]
  BY DEF calculateBorrowingTerms, apr, estimated, amount, interest
<1> HIDE DEF owed, days
<1>9. QED BY <1>1, <1>2, <1>4, <1>6, <1>7, <1>8 DEF TermsType

\* A simulated advance that owes at least what was lent has its shape.
LEMMA SimulatedFits ==
  ASSUME NEW amount \in Nat, NEW owed \in Nat, amount <= owed, NEW apr \in Nat,
         NEW fees \in Revenues, NEW tier \in Nat \ {0}
  PROVE  Simulated(amount, owed, apr, fees, tier) \in SimRecord
BY DEF Simulated, SimRecord

\* So has the advance that the demo button shows.
LEMMA DemoLoanFits == DemoLoan \in SimRecord
<1> DEFINE a == (15 * FEES) \div 10
           o == (1575 * FEES) \div 1000
<1>1. FEES \in Nat \ {0}
  BY DemoAssumption
<1>2. a \in Nat /\ o \in Nat /\ a <= o
  BY <1>1
<1> HIDE DEF a, o
<1>3. Simulated(a, o, 650, FEES, 75) \in SimRecord
  BY <1>1, <1>2, SimulatedFits DEF Revenues
<1>4. QED BY <1>3 DEF DemoLoan, a, o

\* An advance that the page rebuilds from the creators.
LEMMA RebuiltFits ==
  ASSUME NEW c \in CreatorType, c # Unlisted, c.loan # NoLoan
  PROVE  Rebuilt(c) \in SimRecord
<1> DEFINE l == c.loan
           interest == l.apr * l.days
           owed == (l.amount * (365000 + interest)) \div 365000
<1>1. l \in [amount : Nat, apr : Nat, tier : Nat \ {0}, days : Nat] /\ c.fees \in Revenues
  BY CreatorShape DEF LoanType
<1>2. l.amount \in Nat /\ l.apr \in Nat /\ l.tier \in Nat \ {0} /\ interest \in Nat
  BY <1>1
<1> HIDE DEF interest
<1>3. owed \in Nat /\ l.amount <= owed
  BY <1>2, QuotientAtLeast
<1>4. Rebuilt(c) = Simulated(l.amount, owed, l.apr, c.fees, l.tier)
  BY DEF Rebuilt, interest
<1> HIDE DEF owed, l
<1>5. QED BY <1>1, <1>2, <1>3, <1>4, SimulatedFits

\* An early payment is at most what is owed; what is left is an advance again.
LEMMA EarlyPaymentFits ==
  ASSUME NEW sim \in SimRecord, sim.owed > 0, NEW cut \in 1 .. 100
  PROVE  LET owed == sim.owed - EarlyPayment(sim, cut)
         IN /\ owed \in Nat /\ [sim EXCEPT !.owed = owed] \in SimRecord
            /\ [amount |-> owed, apr |-> sim.apr, tier |-> sim.tier, days |-> DaysLeft(sim, owed)]
                  \in LoanType
<1>1. /\ sim \in [amount : Nat, total : Nat, owed : Nat, apr : Nat, fees : Revenues, tier : Nat \ {0}]
      /\ sim.amount <= sim.total /\ sim.owed <= sim.total
  BY DEF SimRecord
<1>2. /\ sim.owed \in Nat /\ sim.total \in Nat \ {0} /\ sim.amount \in Nat /\ sim.apr \in Nat
      /\ sim.tier \in Nat \ {0} /\ sim.fees \in Nat \ {0}
  BY <1>1 DEF Revenues
<1> DEFINE part == (sim.owed * cut) \div 100
           share == 20 * sim.total - (sim.total - sim.amount)
           whole == 20 * sim.total
           owed == sim.owed - EarlyPayment(sim, cut)
<1>3. part \in 0 .. sim.owed
  BY <1>2, QuotientAtMost
<1>4. whole \in Nat \ {0} /\ share \in 0 .. whole
  BY <1>1, <1>2
<1>5. EarlyPayment(sim, cut) = (part * share) \div whole
  BY DEF EarlyPayment
<1> HIDE DEF part, share, whole
<1>6. part \in Nat /\ EarlyPayment(sim, cut) \in 0 .. part
  BY <1>2, <1>3, <1>4, <1>5, QuotientAtMost
<1>7. owed \in Nat /\ owed <= sim.owed
  BY <1>2, <1>3, <1>6
<1> HIDE DEF owed
<1>8. [sim EXCEPT !.owed = owed] \in SimRecord
  BY <1>1, <1>2, <1>7 DEF SimRecord
<1>9. DaysLeft(sim, owed) \in Nat
  <2>1. owed * 700 \in Nat /\ sim.fees * sim.tier \in Nat \ {0}
    BY <1>2, <1>7
  <2>2. CeilDiv(owed * 700, sim.fees * sim.tier) \in Nat
    BY <2>1, CeilIsNat
  <2>3. QED BY <2>2 DEF DaysLeft
<1>10. [amount |-> owed, apr |-> sim.apr, tier |-> sim.tier, days |-> DaysLeft(sim, owed)] \in LoanType
  BY <1>2, <1>7, <1>9 DEF LoanType
<1>11. QED BY <1>7, <1>8, <1>10 DEF owed

\* The stops of the advance's slider are percentages.
LEMMA StopsFit ==
  ASSUME NEW s \in StoreType, NEW fees \in Revenues
  PROVE  BorrowStops(s, fees) \subseteq Nat
<1>1. Liquidity(s) \in Nat
  <2>1. s.tvl \in Nat /\ LENT \in Nat /\ s.creator.loan.amount \in Nat
    BY DemoAssumption, CreatorShape, LoanShape DEF StoreType
  <2>2. QED BY <2>1 DEF Liquidity, TotalBorrowed
<1> DEFINE most == calculateBorrowingTerms(fees, 100).amount
<1>2. most \in Nat
  BY TermsFit DEF TermsType
<1> HIDE DEF most
<1>3. most # 0 => (100 * Liquidity(s)) \div most \in Nat
  BY <1>1, <1>2, QuotientIsNat
<1>4. maxAllowedPercentage(s, fees) \in Nat
  BY <1>3 DEF maxAllowedPercentage, most
<1>5. Slices \subseteq Nat
  BY DemoAssumption
<1>6. QED BY <1>4, <1>5 DEF BorrowStops, SliderStops

-----------------------------------------------------------------------------
(* Documents and their timers.                                             *)

\* Two states have the same pool.
LEMMA SamePoolChains ==
  ASSUME NEW s, NEW m, NEW n, SamePool(s, m), SamePool(m, n)
  PROVE  SamePool(s, n)
BY DEF SamePool

\* e's timers are d's and those of N, and the memory has not changed behind the
\* handlers that are still to write.
TimersKept(d, e, N) ==
    /\ ~d.loading /\ d.page # "closed" /\ e.page = d.page /\ ~e.loading
    /\ e.jobs \subseteq d.jobs \cup N
    /\ \A j \in N : JobFits(e, j)
    /\ \A j \in e.jobs \ N :
          /\ j.kind \in Writers => SamePool(d.mem, e.mem)
          /\ j.kind \in Movers => /\ SamePool(d.mem, e.mem) /\ "process" \in e.busy
                                  /\ d.mem.creator.loan = e.mem.creator.loan
    /\ \A i, j \in e.jobs : i.kind \in Movers /\ j.kind \in Movers => i = j

\* Then e is in order as d was.
LEMMA TimersFit ==
  ASSUME NEW d, DocFits(d), NEW e \in DocType, NEW N, TimersKept(d, e, N)
  PROVE  DocFits(e)
<1> USE DEF TimersKept
<1>1. ASSUME NEW j \in e.jobs PROVE JobFits(e, j)
  <2>1. CASE j \in N
    BY <2>1
  <2>2. CASE j \notin N
    <3>1. j \in e.jobs \ N /\ j \in d.jobs
      BY <2>2
    <3>2. JobFits(d, j)
      BY <3>1 DEF DocFits
    <3>3. /\ j.kind \in Writers => SamePool(d.mem, e.mem)
          /\ j.kind \in Movers => /\ SamePool(d.mem, e.mem) /\ "process" \in e.busy
                                  /\ d.mem.creator.loan = e.mem.creator.loan
      BY <3>1
    <3>4. QED BY <3>2, <3>3, SamePoolChains DEF JobFits
  <2>3. QED BY <2>1, <2>2
<1>2. QED BY <1>1 DEF DocFits

\* Fields that no timer depends on.
LEMMA FieldsFit ==
  ASSUME NEW d, DocFits(d), NEW e \in DocType, e.page = d.page, e.loading = d.loading,
         e.mem = d.mem, e.busy = d.busy, e.jobs = d.jobs
  PROVE  DocFits(e)
BY DEF DocFits, JobFits

\* What the user page's effects leave alone.
Alike(d, e) == e.page = d.page /\ e.loading = d.loading /\ e.mem = d.mem

\* The effects keep a document in order: the timer that writes the revenues back has
\* the memory of this moment.
LEMMA EffectsFit ==
  ASSUME NEW d, NEW e, DocFits(e), ~e.loading, e.page # "closed", NEW creatorsSet \in BOOLEAN
  PROVE  DocFits(Effects(d, e, creatorsSet)) /\ Alike(e, Effects(d, e, creatorsSet))
<1>1. ASSUME NEW g, DocFits(g) PROVE DocFits(SyncSimulated(g)) /\ Alike(g, SyncSimulated(g))
  <2>1. g \in DocType
    BY <1>1 DEF DocFits
  <2>2. ASSUME NEW s \in SimType PROVE DocFits([g EXCEPT !.sim = s]) /\ Alike(g, [g EXCEPT !.sim = s])
    <3> DEFINE h == [g EXCEPT !.sim = s]
    <3>1. /\ h \in DocType /\ h.page = g.page /\ h.loading = g.loading /\ h.mem = g.mem
          /\ h.busy = g.busy /\ h.jobs = g.jobs
      BY <2>1 DEF DocType
    <3> HIDE DEF h
    <3>2. DocFits(h)
      BY <1>1, <3>1, FieldsFit
    <3>3. QED BY <3>1, <3>2 DEF Alike, h
  <2>3. Listed(g.mem) /\ g.mem.creator.loan # NoLoan => Rebuilt(g.mem.creator) \in SimType
    <3>1. g.mem.creator \in CreatorType
      BY <2>1 DEF DocType, StoreType
    <3>2. QED BY <3>1, RebuiltFits DEF Listed, SimType
  <2>4. NoLoan \in SimType
    BY DEF SimType
  <2>5. \/ SyncSimulated(g) = g
        \/ \E s \in SimType : SyncSimulated(g) = [g EXCEPT !.sim = s]
    BY <2>3, <2>4 DEF SyncSimulated
  <2>6. QED BY <1>1, <2>2, <2>5 DEF Alike
<1>2. ASSUME NEW g, DocFits(g) PROVE DocFits(LoadEarnings(g)) /\ Alike(g, LoadEarnings(g))
  <2>1. g \in DocType
    BY <1>2 DEF DocFits
  <2>2. CASE LoadEarnings(g) = g
    BY <1>2, <2>2 DEF Alike
  <2>3. CASE LoadEarnings(g) # g
    <3> DEFINE h == [g EXCEPT !.earn = g.mem.creator.fees]
    <3>1. LoadEarnings(g) = h /\ Listed(g.mem)
      BY <2>3 DEF LoadEarnings
    <3>2. g.mem.creator.fees \in Revenues
      <4>1. g.mem.creator \in CreatorType
        BY <2>1 DEF DocType, StoreType
      <4>2. QED BY <3>1, <4>1, CreatorShape DEF Listed
    <3>3. /\ h \in DocType /\ h.page = g.page /\ h.loading = g.loading /\ h.mem = g.mem
          /\ h.busy = g.busy /\ h.jobs = g.jobs
      BY <2>1, <3>2 DEF DocType
    <3> HIDE DEF h
    <3>4. DocFits(h)
      BY <1>2, <3>3, FieldsFit
    <3>5. QED BY <3>1, <3>3, <3>4 DEF Alike
  <2>4. QED BY <2>2, <2>3
<1>3. ASSUME NEW g, DocFits(g), ~g.loading, g.page = "user"
      PROVE  DocFits(UpdateEarnings(d, g)) /\ Alike(g, UpdateEarnings(d, g))
  <2> DEFINE others == {j \in g.jobs : j.kind # "earnings"}
             new == Job("earnings", 1, g.mem, g.earn)
             h(js) == [g EXCEPT !.jobs = js]
  <2>1. g \in DocType
    BY <1>3 DEF DocFits
  <2>2. new \in JobType /\ new.kind = "earnings" /\ new.arg = g.earn /\ new.snap = g.mem
    <3>1. g.earn \in ArgType /\ g.mem \in StoreType
      BY <2>1 DEF DocType, ArgType, Revenues
    <3>2. "earnings" \in Kinds
      BY DEF Kinds, Writers
    <3>3. QED BY <3>1, <3>2 DEF Job, JobType
  <2> HIDE DEF new
  <2>3. ASSUME NEW js, js \subseteq g.jobs \cup {new}
        PROVE  DocFits(h(js)) /\ Alike(g, h(js))
    <3> DEFINE k == h(js)
    <3>1. /\ k \in DocType /\ k.page = g.page /\ k.loading = g.loading /\ k.mem = g.mem
          /\ k.busy = g.busy /\ k.jobs = js
      <4>1. js \in SUBSET JobType
        BY <2>1, <2>2, <2>3 DEF DocType
      <4>2. QED BY <2>1, <4>1 DEF DocType
    <3> HIDE DEF k
    <3>2. JobFits(k, new)
      <4>1. g.earn \in Revenues
        BY <2>1 DEF DocType
      <4>2. QED BY <1>3, <2>2, <3>1, <4>1 DEF JobFits, ArgFits, Movers, SamePool
    <3>3. \A j \in k.jobs : j.kind \in Movers => j \in g.jobs
      BY <2>2, <2>3, <3>1 DEF Movers
    <3>4. \A i, j \in k.jobs : i.kind \in Movers /\ j.kind \in Movers => i = j
      BY <1>3, <3>3 DEF DocFits
    <3>5. \A j \in k.jobs \ {new} : j.kind \in Movers => "process" \in g.busy
      BY <1>3, <3>3 DEF DocFits, JobFits
    <3>6. SamePool(g.mem, k.mem) /\ g.mem.creator.loan = k.mem.creator.loan
      BY <3>1 DEF SamePool
    <3>7. DocFits(k)
      <4> DEFINE N == {new}
      <4>1. /\ k.jobs \subseteq g.jobs \cup N
            /\ \A j \in N : JobFits(k, j)
            /\ \A j \in k.jobs \ N : j.kind \in Movers => "process" \in k.busy
        BY <2>3, <3>1, <3>2, <3>5
      <4> HIDE DEF N
      <4>2. TimersKept(g, k, N)
        <5> HIDE DEF h, others
        <5>1. ~g.loading /\ g.page # "closed" /\ k.page = g.page /\ ~k.loading
          BY <1>3, <3>1
        <5>2. \A j \in k.jobs \ N :
                 /\ j.kind \in Writers => SamePool(g.mem, k.mem)
                 /\ j.kind \in Movers => /\ SamePool(g.mem, k.mem) /\ "process" \in k.busy
                                         /\ g.mem.creator.loan = k.mem.creator.loan
          BY <3>6, <4>1
        <5>3. k.jobs \subseteq g.jobs \cup N /\ \A j \in N : JobFits(k, j)
          BY <4>1
        <5>4. QED BY <3>4, <5>1, <5>2, <5>3 DEF TimersKept
      <4>3. QED BY <1>3, <3>1, <4>2, TimersFit
    <3>8. QED BY <3>1, <3>7 DEF Alike, k
  <2>4. \/ UpdateEarnings(d, g) = g
        \/ UpdateEarnings(d, g) = h(others \cup {new})
        \/ UpdateEarnings(d, g) = h(others)
    BY DEF UpdateEarnings, new
  <2>5. others \cup {new} \subseteq g.jobs \cup {new} /\ others \subseteq g.jobs \cup {new}
    OBVIOUS
  <2> HIDE DEF h, others
  <2>6. DocFits(h(others \cup {new})) /\ Alike(g, h(others \cup {new}))
    BY <2>3, <2>5
  <2>7. DocFits(h(others)) /\ Alike(g, h(others))
    BY <2>3, <2>5
  <2>8. QED BY <1>3, <2>4, <2>6, <2>7 DEF Alike
<1>4. CASE e.page # "user"
  BY <1>4 DEF Effects, Alike
<1>5. CASE e.page = "user"
  <2> DEFINE a == SyncSimulated(e)
             b == LoadEarnings(a)
  <2>1. DocFits(a) /\ Alike(e, a)
    BY <1>1
  <2> HIDE DEF a
  <2>2. DocFits(b) /\ Alike(a, b)
    BY <1>2, <2>1
  <2> HIDE DEF b
  <2>3. Alike(e, b)
    BY <2>1, <2>2 DEF Alike
  <2>4. ~b.loading /\ b.page = "user"
    BY <1>5, <2>3 DEF Alike
  <2>5. DocFits(UpdateEarnings(d, b)) /\ Alike(b, UpdateEarnings(d, b))
    BY <1>3, <2>2, <2>4
  <2>6. Alike(e, UpdateEarnings(d, b))
    BY <2>3, <2>5 DEF Alike
  <2>7. DocFits(UpdateEarnings(d, e)) /\ Alike(e, UpdateEarnings(d, e))
    BY <1>3, <1>5
  <2>8. \/ Effects(d, e, creatorsSet) = UpdateEarnings(d, b)
        \/ Effects(d, e, creatorsSet) = UpdateEarnings(d, e)
    BY <1>5 DEF Effects, a, b
  <2>9. QED BY <2>5, <2>6, <2>7, <2>8
<1>6. QED BY <1>4, <1>5

-----------------------------------------------------------------------------
(* A change of the tab and of the storage.                                 *)

OneTab == \A t, u \in Tabs : t = u

YieldStep ==
    disk'.tvl # NoPool /\ <<disk.yield, disk.tvl>> # <<disk'.yield, disk'.tvl>>
        => disk'.yield = YieldNow(disk')
LentStep ==
    disk'.creator.loan.amount > disk.creator.loan.amount /\ disk'.loans # disk.loans
        => TotalBorrowed(disk') =< disk'.tvl
PoolStep == [Pool!PoolNext]_PoolNow
WriteStep == YieldStep /\ LentStep /\ PoolStep

\* A deposit or a withdrawal of the storage is one of LendingPool.
LEMMA MoveIsPoolStep ==
  ASSUME disk.tvl # NoPool, MovedOnce(disk, disk')
  PROVE  PoolStep
<1>1. CASE disk'.tvl = disk.tvl /\ disk'.deposited = disk.deposited /\ disk'.lp = disk.lp
  BY <1>1 DEF PoolStep, PoolNow
<1>2. ASSUME NEW n, MovedBy(n, disk, disk') PROVE Pool!Move(n)
  BY <1>2 DEF MovedBy, Pool!Move, PoolNow, NoPool
<1>3. CASE \E a \in Amounts : MovedBy(a, disk, disk')
  <2>1. Pool!Deposit
    BY <1>2, <1>3 DEF Pool!Deposit
  <2>2. QED BY <2>1 DEF PoolStep, Pool!PoolNext
<1>4. CASE \E a \in 1 .. disk.deposited : MovedBy(-a, disk, disk')
  <2>1. Pool!Withdraw
    BY <1>2, <1>4 DEF Pool!Withdraw, PoolNow
  <2>2. QED BY <2>1 DEF PoolStep, Pool!PoolNext
<1>5. QED BY <1>1, <1>3, <1>4 DEF MovedOnce

\* While there is no pool, the storage has neither a position nor a history.
LEMMA ClosedStays ==
  ASSUME disk.tvl = NoPool, Booked(disk), disk'.tvl = NoPool, Booked(disk')
  PROVE  PoolStep
BY DEF Booked, PoolStep, PoolNow

\* A right change of the memory is one of the storage.
LEMMA StorageFits ==
  ASSUME NEW m \in StoreType, disk \in StoreType, Booked(m), Booked(disk),
         m.tvl # NoPool => m = disk, m.tvl = NoPool => disk.tvl = NoPool,
         NEW ch, Right(ch, m), disk' = With(disk, ch)
  PROVE  /\ disk' \in StoreType /\ Booked(disk')
         /\ With(m, ch) \in StoreType /\ Booked(With(m, ch))
         /\ With(m, ch).tvl # NoPool => With(m, ch) = disk'
         /\ With(m, ch).tvl = NoPool => disk'.tvl = NoPool
         /\ WriteStep
<1> DEFINE v == Sets(ch.of, ch.to)
           w == With(m, ch)
           x == With(disk, ch)
<1>1. With(m, ch) = With(m, v) /\ With(disk, ch) = With(disk, v)
  BY DEF With, Sets
<1>2. ch.to \in StoreType
  BY DEF Right
<1>3. /\ w \in StoreType /\ x \in StoreType
      /\ w.tvl = (IF "tvl" \in ch.of THEN ch.to.tvl ELSE m.tvl)
      /\ x.tvl = (IF "tvl" \in ch.of THEN ch.to.tvl ELSE disk.tvl)
      /\ w.deposited = (IF "deposited" \in ch.of THEN ch.to.deposited ELSE m.deposited)
      /\ x.deposited = (IF "deposited" \in ch.of THEN ch.to.deposited ELSE disk.deposited)
      /\ w.lp = (IF "lp" \in ch.of THEN ch.to.lp ELSE m.lp)
      /\ x.lp = (IF "lp" \in ch.of THEN ch.to.lp ELSE disk.lp)
      /\ x.creator = (IF "creator" \in ch.of THEN ch.to.creator ELSE disk.creator)
      /\ x.loans = (IF "loans" \in ch.of THEN ch.to.loans ELSE disk.loans)
  BY <1>1, <1>2, WithFields
<1> HIDE DEF v, w, x
<1>4. Booked(w)
  BY DEF Right, w
<1>5. x.creator.loan.amount \in Nat /\ disk.creator.loan.amount \in Nat
  BY <1>3, CreatorShape, LoanShape DEF StoreType
<1>6. disk' = x
  BY DEF x
<1>7. CASE m.tvl = NoPool
  <2>1. "tvl" \notin ch.of
    BY <1>7 DEF Right
  <2>2. w.tvl = NoPool /\ x.tvl = NoPool
    BY <1>3, <1>7, <2>1
  <2>3. Booked(x) /\ YieldStep /\ PoolStep
    <3>1. disk.tvl = NoPool /\ Booked(disk)
      BY <1>7
    <3>2. Booked(x)
      BY <1>3, <1>4, <2>2, <3>1 DEF Booked
    <3>3. QED BY <1>6, <2>2, <3>1, <3>2, ClosedStays DEF YieldStep
  <2>4. ~(x.creator.loan.amount > disk.creator.loan.amount /\ x.loans # disk.loans)
    <3>1. ASSUME x.creator.loan.amount > disk.creator.loan.amount, x.loans # disk.loans PROVE FALSE
      <4>1. "creator" \in ch.of /\ "loans" \in ch.of
        BY <1>3, <1>5, <3>1
      <4>2. ch.to.creator.loan.amount = 0
        BY <1>7, <4>1 DEF Right
      <4>3. x.creator.loan.amount = 0
        BY <1>3, <4>1, <4>2
      <4>4. QED BY <1>5, <3>1, <4>3
    <3>2. QED BY <3>1
  <2>5. LentStep
    BY <1>6, <2>4 DEF LentStep
  <2>6. QED BY <1>3, <1>4, <1>6, <2>2, <2>3, <2>5 DEF w, WriteStep
<1>8. CASE m.tvl # NoPool
  <2>1. m = disk /\ w = x
    BY <1>8 DEF w, x
  <2>2. w.tvl # NoPool
    BY <1>8 DEF Right, w
  <2>3. YieldStep
    BY <1>6, <1>8, <2>1 DEF Right, YieldStep, w
  <2>4. LentStep
    <3>1. ASSUME x.creator.loan.amount > disk.creator.loan.amount, x.loans # disk.loans
          PROVE  TotalBorrowed(x) <= x.tvl
      <4>1. "creator" \in ch.of /\ "loans" \in ch.of
        BY <1>3, <1>5, <3>1
      <4>2. \/ ch.to.creator.loan.amount = 0
            \/ LENT + ch.to.creator.loan.amount <= w.tvl
        BY <4>1 DEF Right, w
      <4>3. x.creator = ch.to.creator
        BY <1>3, <4>1
      <4>4. x.creator.loan.amount # 0
        BY <1>5, <3>1
      <4>5. LENT + x.creator.loan.amount <= x.tvl
        BY <2>1, <4>2, <4>3, <4>4
      <4>6. QED BY <4>5 DEF TotalBorrowed
    <3>2. QED BY <1>6, <3>1 DEF LentStep
  <2>5. PoolStep
    BY <1>6, <1>8, <2>1, MoveIsPoolStep DEF Right, w
  <2>6. QED BY <1>3, <1>4, <1>6, <2>1, <2>2, <2>3, <2>4, <2>5 DEF w, WriteStep
<1>9. QED BY <1>7, <1>8

\* The tab becomes a document in order, with its effects or without.
LEMMA TabFits ==
  ASSUME OneTab, DemoInv, NEW t \in Tabs, NEW e, DocFits(e), acts' \in 0 .. MaxActs,
         disk' \in StoreType, Booked(disk'), Matches(e, disk'),
         NEW f, DocFits(f), Alike(e, f), tabs' = [tabs EXCEPT ![t] = f]
  PROVE  DemoInv'
<1>1. Matches(f, disk')
  BY DEF Alike, Matches
<1>2. \A u \in Tabs : tabs'[u] = f
  BY DEF OneTab, DemoInv
<1>3. tabs' \in [Tabs -> DocType]
  BY DEF DocFits, DemoInv
<1>4. QED BY <1>1, <1>2, <1>3 DEF DemoInv

\* The step of a handler or a timer whose writes are right.
LEMMA BecomesFits ==
  ASSUME OneTab, DemoInv, NEW t \in Tabs, tabs[t].page # "closed", NEW e, NEW ch, NEW f,
         f = [e EXCEPT !.mem = With(e.mem, ch)], e \in DocType, e.mem = tabs[t].mem,
         e.page = tabs[t].page, DocFits(f), ~e.loading, Right(ch, tabs[t].mem),
         acts' \in 0 .. MaxActs, Becomes(t, e, ch)
  PROVE  DemoInv' /\ WriteStep
<1> DEFINE m == tabs[t].mem
<1>1. /\ tabs' = [tabs EXCEPT ![t] = Effects(tabs[t], f, "creator" \in ch.of)]
      /\ disk' = With(disk, ch)
  BY DEF Becomes
<1>2. /\ m \in StoreType /\ disk \in StoreType /\ Booked(m) /\ Booked(disk)
      /\ m.tvl # NoPool => m = disk
      /\ m.tvl = NoPool => disk.tvl = NoPool
  BY DEF DemoInv, DocType, Matches
<1>3. f.mem = With(m, ch) /\ f.page # "closed" /\ ~f.loading
  BY DEF DocType
<1> HIDE DEF m
<1>4. /\ disk' \in StoreType /\ Booked(disk')
      /\ Booked(f.mem)
      /\ f.mem.tvl # NoPool => f.mem = disk'
      /\ f.mem.tvl = NoPool => disk'.tvl = NoPool
      /\ WriteStep
  <2>1. Right(ch, m)
    BY DEF m
  <2>2. QED BY <1>1, <1>2, <1>3, <2>1, StorageFits
<1>5. Matches(f, disk')
  BY <1>4 DEF Matches
<1> DEFINE b == "creator" \in ch.of
           g == Effects(tabs[t], f, b)
<1>6. DocFits(g) /\ Alike(f, g)
  <2>1. b \in BOOLEAN
    OBVIOUS
  <2> HIDE DEF b
  <2>2. QED BY <1>3, <2>1, EffectsFit
<1>7. tabs' = [tabs EXCEPT ![t] = g]
  BY <1>1
<1> HIDE DEF g
<1>8. DemoInv'
  BY <1>4, <1>5, <1>6, <1>7, TabFits
<1>9. QED BY <1>4, <1>8

\* A new timer that fits the page.
NewFits(n, page, m) ==
    /\ n \in JobType /\ ArgFits(n)
    /\ n.kind \in Writers => page = "user" /\ SamePool(n.snap, m)

\* A click adds a timer: the tab's memory and the storage stay.
LEMMA ClickFits ==
  ASSUME OneTab, DemoInv, NEW t \in Tabs, ~tabs[t].loading, tabs[t].page # "closed",
         NEW n, NewFits(n, tabs[t].page, tabs[t].mem), NEW e \in DocType,
         e.page = tabs[t].page, e.loading = tabs[t].loading, e.mem = tabs[t].mem,
         e.jobs = tabs[t].jobs \cup {n}, tabs[t].busy \subseteq e.busy,
         n.kind \in Movers => /\ tabs[t].page = "deposit" /\ "process" \in e.busy
                             /\ "process" \notin tabs[t].busy
                             /\ n.snap = tabs[t].mem,
         acts' \in 0 .. MaxActs, Becomes(t, e, Nothing)
  PROVE  DemoInv' /\ WriteStep
<1> DEFINE d == tabs[t]
<1>1. d \in DocType /\ DocFits(d) /\ d.mem \in StoreType /\ Booked(d.mem)
  BY DEF DemoInv, DocType, Matches
<1>2. /\ e.page = d.page /\ e.loading = d.loading /\ e.mem = d.mem
      /\ d.busy \subseteq e.busy /\ e.jobs = d.jobs \cup {n} /\ ~d.loading /\ d.page # "closed"
  OBVIOUS
<1>3. n \in JobType /\ ArgFits(n) /\ (n.kind \in Writers => d.page = "user" /\ SamePool(n.snap, d.mem))
  BY DEF NewFits
<1>4. n.kind \in Movers => /\ d.page = "deposit" /\ "process" \in e.busy
                          /\ "process" \notin d.busy /\ n.snap = d.mem
  OBVIOUS
<1> HIDE DEF d
<1>5. Right(Nothing, d.mem) /\ e = [e EXCEPT !.mem = With(e.mem, Nothing)]
  BY <1>1, <1>2, NothingIsRight DEF DocType
<1>6. SamePool(d.mem, e.mem)
  BY <1>2 DEF SamePool
<1>7. \A j \in d.jobs : j.kind \in Movers => "process" \in d.busy
  BY <1>1 DEF DocFits, JobFits
<1>8. \A i, j \in e.jobs : i.kind \in Movers /\ j.kind \in Movers => i = j
  <2>1. \A i, j \in d.jobs : i.kind \in Movers /\ j.kind \in Movers => i = j
    BY <1>1 DEF DocFits
  <2>2. n.kind \in Movers => \A j \in d.jobs : j.kind \notin Movers
    BY <1>4, <1>7
  <2>3. QED BY <1>2, <2>1, <2>2
<1>9. JobFits(e, n)
  <2>1. n.kind \in Writers => e.page = "user" /\ SamePool(n.snap, e.mem)
    BY <1>2, <1>3
  <2>2. n.kind \in Movers => /\ e.page = "deposit" /\ "process" \in e.busy
                            /\ SamePool(n.snap, e.mem)
                            /\ n.snap.creator.loan = e.mem.creator.loan
    BY <1>2, <1>4, <1>6
  <2>3. QED BY <1>3, <2>1, <2>2 DEF JobFits
<1> DEFINE N == {n}
<1>10. TimersKept(d, e, N)
  <2>1. ~d.loading /\ d.page # "closed" /\ e.page = d.page /\ ~e.loading
    BY <1>2
  <2>2. e.jobs \subseteq d.jobs \cup N
    BY <1>2
  <2>3. \A j \in N : JobFits(e, j)
    BY <1>9
  <2>4. \A j \in e.jobs \ N :
           /\ j.kind \in Writers => SamePool(d.mem, e.mem)
           /\ j.kind \in Movers => /\ SamePool(d.mem, e.mem) /\ "process" \in e.busy
                                   /\ d.mem.creator.loan = e.mem.creator.loan
    BY <1>2, <1>6, <1>7
  <2>5. QED BY <1>8, <2>1, <2>2, <2>3, <2>4 DEF TimersKept
<1> HIDE DEF N
<1>11. DocFits(e)
  BY <1>1, <1>10, TimersFit
<1>12. Right(Nothing, tabs[t].mem) /\ ~e.loading
  BY <1>2, <1>5 DEF d
<1>13. QED BY <1>5, <1>11, <1>12, BecomesFits

\* A handler starts: it remembers the memory of its click.
LEMMA StartFits ==
  ASSUME OneTab, DemoInv, NEW t \in Tabs, ~tabs[t].loading, tabs[t].page # "closed",
         NEW flag, flag \subseteq Flags, NEW kind \in Kinds, NEW left \in 0 .. 6, NEW arg \in ArgType,
         ArgFits(Job(kind, left, tabs[t].mem, arg)),
         kind \in Writers => tabs[t].page = "user",
         kind \in Movers => /\ tabs[t].page = "deposit" /\ "process" \in flag
                           /\ "process" \notin tabs[t].busy,
         acts' \in 0 .. MaxActs, Start(t, flag, kind, left, arg)
  PROVE  DemoInv' /\ WriteStep
<1> DEFINE d == tabs[t]
           n == Job(kind, left, d.mem, arg)
           e == [d EXCEPT !.busy = @ \cup flag, !.jobs = @ \cup {n}]
<1>1. d \in DocType /\ d.mem \in StoreType
  BY DEF DemoInv, DocType
<1>2. n \in JobType /\ n.kind = kind /\ n.snap = d.mem /\ ArgFits(n)
  BY <1>1 DEF Job, JobType
<1>3. NewFits(n, d.page, d.mem)
  BY <1>2 DEF NewFits, SamePool
<1>4. Becomes(t, e, Nothing)
  BY DEF Start
<1> HIDE DEF n
<1>5. /\ e \in DocType /\ e.page = d.page /\ e.loading = d.loading /\ e.mem = d.mem
      /\ e.busy = d.busy \cup flag /\ e.jobs = d.jobs \cup {n}
  <2> HIDE DEF d
  <2>1. QED BY <1>1, <1>2 DEF DocType
<1> HIDE DEF e
<1>6. QED BY <1>2, <1>3, <1>4, <1>5, ClickFits

\* A timer ends: what it writes is right, and unless it is the one that moves funds, it
\* leaves alone what the others have seen.
LEMMA TimerFits ==
  ASSUME OneTab, DemoInv, NEW t \in Tabs, NEW j \in tabs[t].jobs, NEW ch, Right(ch, tabs[t].mem),
         NEW flags, NEW next, NEW e \in DocType, e.page = tabs[t].page, e.loading = tabs[t].loading,
         e.mem = tabs[t].mem, e.jobs = (tabs[t].jobs \ {j}) \cup next,
         e.busy = tabs[t].busy \ flags,
         "process" \in flags => j.kind \in Movers,
         j.kind \notin Movers =>
            /\ SamePool(tabs[t].mem, With(tabs[t].mem, ch))
            /\ \/ tabs[t].page = "user"
               \/ With(tabs[t].mem, ch).creator = tabs[t].mem.creator,
         \A n \in next : NewFits(n, tabs[t].page, tabs[t].mem) /\ n.kind \notin Movers,
         acts' \in 0 .. MaxActs, Becomes(t, e, ch)
  PROVE  DemoInv' /\ WriteStep
<1> DEFINE d == tabs[t]
           w == With(d.mem, ch)
           f == [e EXCEPT !.mem = w]
<1>1. d \in DocType /\ DocFits(d) /\ d.mem \in StoreType /\ Booked(d.mem)
  BY DEF DemoInv, DocType, Matches
<1>2. ~d.loading /\ d.page # "closed"
  BY <1>1 DEF DocFits
<1>3. w \in StoreType
  <2>1. ch.to \in StoreType
    BY DEF Right
  <2>2. w = With(d.mem, Sets(ch.of, ch.to))
    BY DEF With, Sets
  <2>3. QED BY <1>1, <2>1, <2>2, WithFields
<1> HIDE DEF w
<1>4. /\ f \in DocType /\ f.page = d.page /\ ~f.loading /\ f.mem = w
      /\ f.jobs = (d.jobs \ {j}) \cup next /\ f.busy = d.busy \ flags
  BY <1>2, <1>3 DEF DocType
<1> HIDE DEF f
<1>5. \A i \in d.jobs : JobFits(d, i)
  BY <1>1 DEF DocFits
<1>6. \A i \in d.jobs : /\ i.kind \in Writers => d.page = "user"
                        /\ i.kind \in Movers => d.page = "deposit" /\ "process" \in d.busy
  BY <1>5 DEF JobFits
<1>7. \A i \in f.jobs : i.kind \in Movers => i \in d.jobs /\ i # j
  BY <1>4
<1>8. \A i, k \in d.jobs : i.kind \in Movers /\ k.kind \in Movers => i = k
  BY <1>1 DEF DocFits
<1>9. \A i, k \in f.jobs : i.kind \in Movers /\ k.kind \in Movers => i = k
  BY <1>7, <1>8
<1>10. j.kind \notin Movers =>
          /\ SamePool(d.mem, w)
          /\ (d.page = "user" \/ w.creator = d.mem.creator)
          /\ "process" \notin flags
  BY DEF d, w
<1> HIDE DEF d
<1>11. \A i \in f.jobs \ next :
          /\ i.kind \in Writers => SamePool(d.mem, f.mem)
          /\ i.kind \in Movers => /\ SamePool(d.mem, f.mem) /\ "process" \in f.busy
                                  /\ d.mem.creator.loan = f.mem.creator.loan
  <2>1. SUFFICES ASSUME NEW i \in f.jobs \ next
        PROVE  /\ i.kind \in Writers => SamePool(d.mem, f.mem)
               /\ i.kind \in Movers => /\ SamePool(d.mem, f.mem) /\ "process" \in f.busy
                                       /\ d.mem.creator.loan = f.mem.creator.loan
    OBVIOUS
  <2>2. i \in d.jobs /\ i # j /\ j \in d.jobs
    BY <1>4 DEF d
  <2>3. CASE j.kind \in Movers
    <3>1. i.kind \notin Movers
      BY <1>8, <2>2, <2>3
    <3>2. i.kind \notin Writers
      <4>1. d.page = "deposit"
        BY <1>6, <2>2, <2>3
      <4>2. QED BY <1>6, <2>2, <4>1
    <3>3. QED BY <3>1, <3>2
  <2>4. CASE j.kind \notin Movers
    <3>1. SamePool(d.mem, f.mem)
      BY <1>4, <1>10, <2>4
    <3>2. i.kind \in Movers => d.page = "deposit" /\ "process" \in d.busy
      BY <1>6, <2>2
    <3>3. (d.page = "user" \/ w.creator = d.mem.creator) /\ "process" \notin flags
      BY <1>10, <2>4
    <3>4. i.kind \in Movers => "process" \in f.busy /\ w.creator = d.mem.creator
      BY <1>4, <3>2, <3>3
    <3>5. QED BY <1>4, <3>1, <3>4
  <2>5. QED BY <2>3, <2>4
<1>12. \A n \in next : JobFits(f, n)
  <2>1. SUFFICES ASSUME NEW n \in next PROVE JobFits(f, n)
    OBVIOUS
  <2>2. ArgFits(n) /\ n.kind \notin Movers
    BY DEF NewFits
  <2>3. n.kind \in Writers => d.page = "user" /\ SamePool(n.snap, d.mem)
    BY DEF NewFits, d
  <2>4. n.kind \in Writers => SamePool(d.mem, w)
    <3>0. j \in d.jobs
      BY DEF d
    <3>1. j.kind \in Movers => d.page # "user"
      BY <1>6, <3>0
    <3>2. ASSUME n.kind \in Writers PROVE SamePool(d.mem, w)
      <4>1. j.kind \notin Movers
        BY <2>3, <3>1, <3>2
      <4>2. QED BY <1>10, <4>1
    <3>3. QED BY <3>2
  <2>5. n.kind \in Writers => SamePool(n.snap, f.mem)
    BY <1>4, <2>3, <2>4, SamePoolChains
  <2>6. QED BY <1>4, <2>2, <2>3, <2>5 DEF JobFits
<1>13. TimersKept(d, f, next)
  <2>1. f.jobs \subseteq d.jobs \cup next
    BY <1>4
  <2>2. QED BY <1>2, <1>4, <1>9, <1>11, <1>12, <2>1 DEF TimersKept
<1>14. DocFits(f)
  BY <1>1, <1>4, <1>13, TimersFit
<1>15. f = [e EXCEPT !.mem = With(e.mem, ch)] /\ tabs[t].page # "closed" /\ ~e.loading
  BY <1>2 DEF d, f, w
<1>16. QED BY <1>14, <1>15, BecomesFits DEF d

-----------------------------------------------------------------------------
(* The actions, one lemma for the pages, the clicks and each kind of timer. *)

\* What a user does is counted, and the count is bounded.
LEMMA ActCounts ==
  ASSUME DemoInv, Act \/ UNCHANGED acts
  PROVE  acts' \in 0 .. MaxActs
<1>1. acts \in 0 .. MaxActs /\ MaxActs \in Nat
  BY DemoAssumption DEF DemoInv
<1>2. QED BY <1>1 DEF Act

\* The tab's document is in order.
LEMMA TabInOrder ==
  ASSUME DemoInv, NEW t \in Tabs
  PROVE  /\ tabs[t] \in DocType /\ DocFits(tabs[t]) /\ Matches(tabs[t], disk)
         /\ tabs[t].mem \in StoreType /\ Booked(tabs[t].mem)
         /\ tabs[t].earn \in Revenues /\ tabs[t].sim \in SimType
BY DEF DemoInv, DocType, Matches

\* Connecting a wallet: three handlers.
LEMMA ConnectFits ==
  ASSUME OneTab, DemoInv, NEW t \in Tabs, Connect(t)
  PROVE  DemoInv' /\ WriteStep
<1>1. acts' \in 0 .. MaxActs
  BY ActCounts DEF Connect, NavConnect, ConnectUser, ConnectDeposit
<1>2. tabs[t].earn \in Revenues /\ tabs[t].earn \in ArgType /\ 0 \in ArgType /\ 2 \in 0 .. 6
  BY TabInOrder DEF ArgType, Revenues
<1>3. CASE NavConnect(t)
  <2>1. /\ "nav" \in Kinds /\ "nav" \notin Writers /\ "nav" \notin Movers /\ {"nav"} \subseteq Flags
        /\ ArgFits(Job("nav", 2, tabs[t].mem, 0))
    BY DEF Kinds, Writers, Movers, Flags, ArgFits, Job
  <2>2. ~tabs[t].loading /\ tabs[t].page # "closed" /\ Start(t, {"nav"}, "nav", 2, 0)
    BY <1>3 DEF NavConnect
  <2>3. QED BY <1>1, <1>2, <2>1, <2>2, StartFits
<1>4. CASE ConnectUser(t)
  <2>1. /\ "connect" \in Kinds /\ "connect" \notin Movers /\ {"connect", "transition"} \subseteq Flags
        /\ ArgFits(Job("connect", 2, tabs[t].mem, tabs[t].earn))
    BY <1>2 DEF Kinds, Writers, Movers, Flags, ArgFits, Job
  <2>2. /\ ~tabs[t].loading /\ tabs[t].page = "user"
        /\ Start(t, {"connect", "transition"}, "connect", 2, tabs[t].earn)
    BY <1>4 DEF ConnectUser, Ready
  <2>3. QED BY <1>1, <1>2, <2>1, <2>2, StartFits
<1>5. CASE ConnectDeposit(t)
  <2>1. /\ "join" \in Kinds /\ "join" \notin Writers /\ "join" \notin Movers /\ {"connect"} \subseteq Flags
        /\ ArgFits(Job("join", 2, tabs[t].mem, 0))
    BY DEF Kinds, Writers, Movers, Flags, ArgFits, Job
  <2>2. ~tabs[t].loading /\ tabs[t].page = "deposit" /\ Start(t, {"connect"}, "join", 2, 0)
    BY <1>5 DEF ConnectDeposit, Ready
  <2>3. QED BY <1>1, <1>2, <2>1, <2>2, StartFits
<1>6. QED BY <1>3, <1>4, <1>5 DEF Connect

\* A deposit and a withdrawal: the button is disabled until the other one is over.
LEMMA LendFits ==
  ASSUME OneTab, DemoInv, NEW t \in Tabs, Lend(t)
  PROVE  DemoInv' /\ WriteStep
<1>1. acts' \in 0 .. MaxActs
  BY ActCounts DEF Lend, handleDeposit, handleWithdraw
<1>2. /\ ~tabs[t].loading /\ tabs[t].page = "deposit" /\ "process" \notin tabs[t].busy
      /\ \E a \in Nat \ {0} : \/ a \in Amounts /\ Start(t, {"process"}, "deposit", 3, a)
                              \/ Start(t, {"process"}, "withdraw", 3, a)
  <2>1. tabs[t].mem.deposited \in Nat
    BY TabInOrder DEF StoreType
  <2>2. QED BY <2>1, DemoAssumption DEF Lend, handleDeposit, handleWithdraw, Ready
<1>3. PICK kind \in Movers, a \in Nat \ {0} :
        (kind = "deposit" => a \in Amounts) /\ Start(t, {"process"}, kind, 3, a)
  BY <1>2 DEF Movers
<1>4. /\ a \in ArgType /\ {"process"} \subseteq Flags /\ Movers \cap Writers = {}
      /\ Movers \subseteq Kinds /\ {"deposit", "withdraw"} = Movers
  BY DEF ArgType, Flags, Movers, Writers, Kinds
<1>5. ArgFits(Job(kind, 3, tabs[t].mem, a))
  BY <1>3 DEF ArgFits, Job, Movers
<1>6. QED BY <1>1, <1>2, <1>3, <1>4, <1>5, StartFits

\* An advance: its terms are those of one of the slider's stops.
LEMMA BorrowFits ==
  ASSUME OneTab, DemoInv, NEW t \in Tabs, handleBorrow(t)
  PROVE  DemoInv' /\ WriteStep
<1>1. acts' \in 0 .. MaxActs
  BY ActCounts DEF handleBorrow
<1>2. PICK p \in BorrowStops(tabs[t].mem, tabs[t].earn) :
        Start(t, {"borrow"}, "borrow", 6, <<calculateBorrowingTerms(tabs[t].earn, p), tabs[t].earn>>)
  BY DEF handleBorrow
<1> DEFINE arg == <<calculateBorrowingTerms(tabs[t].earn, p), tabs[t].earn>>
<1>3. arg \in TermsType \X Revenues
  <2>1. tabs[t].earn \in Revenues /\ tabs[t].mem \in StoreType
    BY TabInOrder
  <2>2. p \in Nat
    BY <2>1, StopsFit
  <2>3. calculateBorrowingTerms(tabs[t].earn, p) \in TermsType
    BY <2>1, <2>2, TermsFit
  <2>4. QED BY <2>1, <2>3
<1>4. Start(t, {"borrow"}, "borrow", 6, arg)
  BY <1>2
<1> HIDE DEF arg
<1>5. arg \in ArgType
  BY <1>3 DEF ArgType
<1>6. ArgFits(Job("borrow", 6, tabs[t].mem, arg))
  BY <1>3 DEF ArgFits, Job, Movers
<1>7. "borrow" \in Kinds /\ "borrow" \notin Movers /\ {"borrow"} \subseteq Flags /\ 6 \in 0 .. 6
  BY DEF Kinds, Writers, Movers, Flags
<1>8. ~tabs[t].loading /\ tabs[t].page = "user"
  BY DEF handleBorrow, FormShown, Ready
<1>9. QED BY <1>1, <1>4, <1>5, <1>6, <1>7, <1>8, StartFits

\* A repayment: something is owed.
LEMMA RepayFits ==
  ASSUME OneTab, DemoInv, NEW t \in Tabs, handleRepay(t)
  PROVE  DemoInv' /\ WriteStep
<1>1. acts' \in 0 .. MaxActs
  BY ActCounts DEF handleRepay
<1>2. PICK cut \in RepayStops(tabs[t].sim) : Start(t, {"repay"}, "repay", 4, <<tabs[t].sim, cut>>)
  BY DEF handleRepay
<1> DEFINE arg == <<tabs[t].sim, cut>>
<1>3. arg \in SimRecord \X (1 .. 100) /\ arg[1].owed > 0
  <2>1. cut \in 1 .. 100 /\ Remaining(tabs[t].sim) > 0
    BY DemoAssumption DEF RepayStops, RepaySlider
  <2>2. tabs[t].sim \in SimType
    BY TabInOrder
  <2>3. tabs[t].sim # NoLoan /\ tabs[t].sim.owed > 0
    BY <2>1 DEF Remaining
  <2>4. tabs[t].sim \in SimRecord
    BY <2>2, <2>3 DEF SimType
  <2>5. QED BY <2>1, <2>3, <2>4
<1>4. Start(t, {"repay"}, "repay", 4, arg)
  BY <1>2
<1> HIDE DEF arg
<1>5. arg \in ArgType
  BY <1>3 DEF ArgType
<1>6. ArgFits(Job("repay", 4, tabs[t].mem, arg))
  BY <1>3 DEF ArgFits, Job, Movers
<1>7. "repay" \in Kinds /\ "repay" \notin Movers /\ {"repay"} \subseteq Flags /\ 4 \in 0 .. 6
  BY DEF Kinds, Writers, Movers, Flags
<1>8. ~tabs[t].loading /\ tabs[t].page = "user"
  BY DEF handleRepay, FormShown, Ready
<1>9. QED BY <1>1, <1>4, <1>5, <1>6, <1>7, <1>8, StartFits

\* The revenues are typed.
LEMMA TypingFits ==
  ASSUME OneTab, DemoInv, NEW t \in Tabs, handleEarningsChange(t)
  PROVE  DemoInv' /\ WriteStep
<1>1. acts' \in 0 .. MaxActs
  BY ActCounts DEF handleEarningsChange
<1>2. PICK r \in Earnings :
        Becomes(t, [tabs[t] EXCEPT !.earn = r, !.editing = TRUE,
                                   !.jobs = @ \cup {Job("edited", 4, Blank, r)}], Nothing)
  BY DEF handleEarningsChange
<1> DEFINE d == tabs[t]
           n == Job("edited", 4, Blank, r)
           e == [d EXCEPT !.earn = r, !.editing = TRUE, !.jobs = @ \cup {n}]
<1>3. d \in DocType
  BY TabInOrder
<1>4. r \in Revenues
  BY DemoAssumption DEF Revenues
<1>5. n \in JobType /\ n.kind = "edited" /\ ArgFits(n)
  BY <1>4, FreshShape DEF Job, JobType, Kinds, ArgType, ArgFits, Movers, Revenues
<1>6. NewFits(n, d.page, d.mem) /\ n.kind \notin Movers
  BY <1>5 DEF NewFits, Writers, Movers
<1>7. Becomes(t, e, Nothing)
  BY <1>2
<1>8. ~d.loading /\ d.page # "closed"
  BY DEF handleEarningsChange, RevenuesShown, Ready
<1> HIDE DEF n
<1>9. /\ e \in DocType /\ e.page = d.page /\ e.loading = d.loading /\ e.mem = d.mem
      /\ e.busy = d.busy /\ e.jobs = d.jobs \cup {n}
  <2> HIDE DEF d
  <2>1. QED BY <1>3, <1>4, <1>5 DEF DocType
<1> HIDE DEF e
<1>10. QED BY <1>1, <1>6, <1>7, <1>8, <1>9, ClickFits

\* Where the storage stays, nothing is written.
LEMMA NothingWritten ==
  ASSUME DemoInv, UNCHANGED disk
  PROVE  /\ WriteStep
         /\ disk' \in StoreType /\ Booked(disk')
<1>1. disk \in StoreType /\ Booked(disk)
  BY DEF DemoInv
<1>2. disk.creator.loan.amount \in Nat
  BY <1>1, CreatorShape, LoanShape DEF StoreType
<1>3. QED BY <1>1, <1>2 DEF WriteStep, YieldStep, LentStep, PoolStep, PoolNow

\* A new document has no timers, and no memory but the wallet.
LEMMA DocumentFits ==
  ASSUME NEW p \in Pages \ {"closed"}, NEW s \in StoreType
  PROVE  /\ DocFits(Document(p, s)) /\ Document(p, s).loading
         /\ s.tvl = NoPool => Matches(Document(p, s), s)
<1> DEFINE d == Document(p, s)
           m == [Blank EXCEPT !.wallet = s.wallet]
<1>1. m \in StoreType /\ m.tvl = NoPool /\ Booked(m)
  <2>1. s.wallet \in BOOLEAN /\ Blank \in StoreType
    BY FreshShape DEF StoreType
  <2>2. Booked(m)
    BY <2>1, BlankIsBooked
  <2>3. QED BY <2>1, <2>2 DEF Blank, StoreType
<1> HIDE DEF m
<1>2. /\ d \in DocType /\ d.page = p /\ d.loading = TRUE /\ d.mem = m /\ d.jobs = {}
  <2>1. FEES \in Revenues
    BY DemoAssumption DEF Revenues
  <2>2. Closed.page = "closed" /\ d = [Closed EXCEPT !.page = p, !.loading = TRUE, !.mem = m]
    BY DEF Closed, Document, m
  <2>3. QED BY <1>1, <2>1, <2>2 DEF Closed, DocType, SimType, Document
<1> HIDE DEF d
<1>3. QED BY <1>1, <1>2 DEF DocFits, Matches, d

\* A document that stops loading has no timers yet.
LEMMA LoadedFits ==
  ASSUME NEW d, DocFits(d), d.loading, NEW m \in StoreType,
         NEW e, e = [d EXCEPT !.loading = FALSE, !.mem = m]
  PROVE  /\ DocFits(e) /\ ~e.loading /\ e.mem = m /\ e.page = d.page /\ e.page # "closed"
         /\ e.jobs = {}
<1>1. d \in DocType /\ d.jobs = {} /\ d.page # "closed"
  BY DEF DocFits
<1>2. e \in DocType /\ e.jobs = {} /\ ~e.loading /\ e.mem = m /\ e.page = d.page
  BY <1>1 DEF DocType
<1>3. QED BY <1>1, <1>2 DEF DocFits

\* A page is opened: the saved state is restored, or fetched again.
LEMMA LoadFits ==
  ASSUME OneTab, DemoInv, NEW t \in Tabs, Load(t)
  PROVE  DemoInv' /\ WriteStep
<1>1. acts' \in 0 .. MaxActs /\ UNCHANGED disk
  BY ActCounts DEF Load
<1>2. WriteStep /\ disk' \in StoreType /\ Booked(disk') /\ disk \in StoreType /\ Booked(disk)
  BY <1>1, NothingWritten DEF DemoInv
<1>3. PICK p \in Pages \ {"closed"} :
        tabs' = [tabs EXCEPT ![t] =
                   IF disk.tvl = NoPool THEN Document(p, disk)
                   ELSE Effects(Document(p, disk),
                                [Document(p, disk) EXCEPT !.loading = FALSE, !.mem = disk], TRUE)]
  BY DEF Load
<1> DEFINE d == Document(p, disk)
           e == [d EXCEPT !.loading = FALSE, !.mem = disk]
           g == Effects(d, e, TRUE)
<1>4. CASE disk.tvl = NoPool
  <2>1. DocFits(d) /\ Matches(d, disk') /\ Alike(d, d) /\ tabs' = [tabs EXCEPT ![t] = d]
    BY <1>1, <1>2, <1>3, <1>4, DocumentFits DEF Alike
  <2> HIDE DEF d
  <2>2. QED BY <1>1, <1>2, <2>1, TabFits
<1>5. CASE disk.tvl # NoPool
  <2>1. DocFits(d) /\ d.loading
    BY <1>2, DocumentFits
  <2>2. tabs' = [tabs EXCEPT ![t] = g]
    BY <1>3, <1>5
  <2> HIDE DEF d
  <2>3. DocFits(e) /\ ~e.loading /\ e.mem = disk /\ e.page # "closed"
    BY <1>2, <2>1, LoadedFits
  <2> HIDE DEF e
  <2>4. DocFits(g) /\ Alike(e, g)
    BY <2>3, EffectsFit
  <2> HIDE DEF g
  <2>5. Matches(e, disk')
    BY <1>1, <1>2, <1>5, <2>3 DEF Matches
  <2>6. QED BY <1>1, <1>2, <2>2, <2>3, <2>4, <2>5, TabFits
<1>6. QED BY <1>4, <1>5

\* The mock files arrive: the fresh state is the memory's and the storage's.
LEMMA FetchedFits ==
  ASSUME OneTab, DemoInv, NEW t \in Tabs, Fetched(t)
  PROVE  DemoInv' /\ WriteStep
<1> DEFINE d == tabs[t]
           s == Fresh(d.mem.wallet)
           ch == Sets(DOMAIN s, s)
           e == [d EXCEPT !.loading = FALSE]
           f == [e EXCEPT !.mem = With(e.mem, ch)]
           g == Effects(d, f, "creator" \in ch.of)
<1>1. acts' \in 0 .. MaxActs
  BY ActCounts DEF Fetched
<1>2. d \in DocType /\ DocFits(d) /\ d.mem \in StoreType /\ d.loading /\ disk \in StoreType
  BY TabInOrder DEF Fetched, DemoInv
<1>3. tabs' = [tabs EXCEPT ![t] = g] /\ disk' = With(disk, ch)
  BY DEF Fetched, Becomes
<1>4. s \in StoreType
  BY <1>2, FreshShape DEF StoreType
<1>5. s.tvl = SEED /\ s.deposited = 0 /\ s.yield = 0 /\ s.creator = Unlisted /\ s.lp = <<>>
  BY DEF Fresh, Blank
<1> HIDE DEF s
<1>6. \A m \in StoreType : With(m, ch) = s
  <2>1. DOMAIN s = {"tvl", "deposited", "additional", "yield", "creator", "loans", "lp", "wallet"}
    BY <1>4 DEF StoreType
  <2>2. ch.of = DOMAIN s /\ ch.to = s
    BY DEF Sets
  <2> HIDE DEF ch
  <2>3. QED BY <1>4, <2>1, <2>2 DEF With, StoreType
<1>8. disk' = s
  BY <1>2, <1>3, <1>6
<1>9. f = [d EXCEPT !.loading = FALSE, !.mem = s]
  BY <1>2, <1>6 DEF DocType
<1> DEFINE b == "creator" \in ch.of
<1>10. b \in BOOLEAN /\ g = Effects(d, f, b)
  OBVIOUS
<1> HIDE DEF b, ch, g
<1>11. DocFits(f) /\ ~f.loading /\ f.mem = s /\ f.page # "closed"
  <2> HIDE DEF f, d
  <2>1. QED BY <1>2, <1>4, <1>9, LoadedFits
<1> HIDE DEF f
<1>12. DocFits(g) /\ Alike(f, g)
  BY <1>10, <1>11, EffectsFit
<1>13. SEED \in Nat \ {0}
  BY DemoAssumption
<1>14. Booked(s)
  BY <1>5, <1>13, NothingMoved DEF Booked
<1>15. Matches(f, disk')
  BY <1>5, <1>8, <1>11, <1>13, <1>14 DEF Matches, NoPool
<1>16. DemoInv'
  BY <1>1, <1>3, <1>4, <1>8, <1>11, <1>12, <1>14, <1>15, TabFits
<1>17. YieldStep
  <2>1. NoLoan \in LoanType /\ Unlisted.loan = NoLoan
    BY LoanShape DEF Unlisted
  <2>2. calculateLPAPR(SEED, NoLoan) \in Int
    BY <1>13, <2>1, YieldIsInt
  <2>3. YieldNow(s) = 0
    BY <1>5, <2>1, <2>2 DEF YieldNow, calculateMonthlyYield
  <2>4. QED BY <1>5, <1>8, <2>3 DEF YieldStep
<1>18. LentStep
  <2>1. disk'.creator.loan.amount = 0
    BY <1>5, <1>8 DEF Unlisted, NoLoan
  <2>2. disk.creator.loan.amount \in Nat
    BY <1>2, CreatorShape, LoanShape DEF StoreType
  <2>3. QED BY <2>1, <2>2 DEF LentStep
<1>19. PoolStep
  <2>1. disk.tvl = NoPool /\ Booked(disk)
    BY <1>2, TabInOrder DEF DocFits, Matches, DemoInv
  <2>2. Pool!Open
    BY <1>5, <1>8, <2>1 DEF Pool!Open, Pool!Closed, PoolNow, Booked, NoPool
  <2>3. QED BY <2>2 DEF PoolStep, Pool!PoolNext
<1>20. QED BY <1>16, <1>17, <1>18, <1>19 DEF WriteStep

\* The mock files do not arrive.
LEMMA FailedFits ==
  ASSUME OneTab, DemoInv, NEW t \in Tabs, FetchFails(t)
  PROVE  DemoInv' /\ WriteStep
<1> DEFINE d == tabs[t]
           e == [d EXCEPT !.loading = FALSE]
<1>1. acts' \in 0 .. MaxActs /\ UNCHANGED disk /\ tabs' = [tabs EXCEPT ![t] = e] /\ d.loading
  BY ActCounts DEF FetchFails
<1>2. d \in DocType /\ DocFits(d) /\ Matches(d, disk) /\ d.mem \in StoreType
  BY TabInOrder
<1>3. e = [d EXCEPT !.loading = FALSE, !.mem = d.mem]
  BY <1>2 DEF DocType
<1> HIDE DEF d
<1>4. DocFits(e) /\ e.mem = d.mem /\ e.page = d.page
  <2>1. e.mem = d.mem /\ e.page = d.page
    BY <1>2 DEF DocType
  <2> HIDE DEF e
  <2>2. DocFits(e)
    BY <1>1, <1>2, <1>3, LoadedFits
  <2>3. QED BY <2>1, <2>2
<1> HIDE DEF e
<1>5. Matches(e, disk') /\ Alike(e, e)
  BY <1>1, <1>2, <1>4 DEF Matches, Alike
<1>6. QED BY <1>1, <1>4, <1>5, NothingWritten, TabFits

\* Reset and Disconnect: the storage is emptied and the page loads again.
LEMMA ResetFits ==
  ASSUME OneTab, DemoInv, NEW t \in Tabs, resetToDefaults(t)
  PROVE  DemoInv' /\ WriteStep
<1>1. acts' \in 0 .. MaxActs
  BY ActCounts DEF resetToDefaults
<1> DEFINE d == Document(tabs[t].page, Blank)
<1>2. disk' = Blank /\ tabs' = [tabs EXCEPT ![t] = d] /\ tabs[t].page \in Pages \ {"closed"}
  BY TabInOrder DEF resetToDefaults, DocType
<1>3. Blank \in StoreType /\ Blank.tvl = NoPool /\ Blank.creator.loan.amount = 0
  BY FreshShape DEF Blank, Unlisted, NoLoan
<1>4. DocFits(d) /\ Matches(d, disk') /\ Alike(d, d) /\ Booked(Blank)
  BY <1>2, <1>3, DocumentFits, BlankIsBooked DEF Alike
<1> HIDE DEF d
<1>5. DemoInv'
  BY <1>1, <1>2, <1>3, <1>4, TabFits
<1>6. disk.creator.loan.amount \in Nat
  BY CreatorShape, LoanShape DEF StoreType, DemoInv
<1>7. PoolStep
  <2>1. Blank.deposited = 0 /\ Blank.lp = <<>>
    BY DEF Blank
  <2>2. Pool!Close
    BY <1>2, <1>3, <2>1 DEF Pool!Close, Pool!Closed, PoolNow, NoPool
  <2>3. QED BY <2>2 DEF PoolStep, Pool!PoolNext
<1>8. QED BY <1>2, <1>3, <1>5, <1>6, <1>7 DEF WriteStep, YieldStep, LentStep

\* Opening, closing and resetting a page.
LEMMA VisitFits ==
  ASSUME OneTab, DemoInv, NEW t \in Tabs, Visit(t)
  PROVE  DemoInv' /\ WriteStep
BY LoadFits, FetchedFits, FailedFits, ResetFits DEF Visit

\* The user page's fields that no handler reads later.
LEMMA FormFits ==
  ASSUME OneTab, DemoInv, NEW t \in Tabs, ShowRepay(t) \/ TryDemo(t)
  PROVE  DemoInv' /\ WriteStep
<1> DEFINE d == tabs[t]
<1>1. d \in DocType /\ DocFits(d) /\ Matches(d, disk)
  BY TabInOrder
<1>2. acts' \in 0 .. MaxActs /\ UNCHANGED disk
  BY ActCounts DEF ShowRepay, TryDemo
<1>3. PICK e : tabs' = [tabs EXCEPT ![t] = e]
               /\ (e = [d EXCEPT !.repaying = ~@] \/ e = [d EXCEPT !.sim = DemoLoan])
  BY DEF ShowRepay, TryDemo
<1> HIDE DEF d
<1>4. /\ e \in DocType /\ e.page = d.page /\ e.loading = d.loading /\ e.mem = d.mem
      /\ e.busy = d.busy /\ e.jobs = d.jobs
  BY <1>1, <1>3, DemoLoanFits DEF DocType, SimType
<1>5. DocFits(e) /\ Matches(e, disk') /\ Alike(e, e)
  BY <1>1, <1>2, <1>4, FieldsFit DEF Matches, Alike
<1>6. QED BY <1>2, <1>3, <1>5, NothingWritten, TabFits

\* What a user does on the user page.
LEMMA UserFits ==
  ASSUME OneTab, DemoInv, NEW t \in Tabs, Borrow(t)
  PROVE  DemoInv' /\ WriteStep
BY TypingFits, FormFits, BorrowFits, RepayFits DEF Borrow

\* Time passes: the timers keep what they know.
LEMMA TickFits ==
  ASSUME DemoInv, Tick
  PROVE  DemoInv' /\ WriteStep
<1>1. UNCHANGED <<disk, acts>> /\ WriteStep
  BY NothingWritten DEF Tick
<1>2. ASSUME NEW t \in Tabs
      PROVE  tabs'[t] \in DocType /\ DocFits(tabs'[t]) /\ Matches(tabs'[t], disk)
  <2> DEFINE d == tabs[t]
             older(j) == [j EXCEPT !.left = @ - 1]
             e == [d EXCEPT !.jobs = {older(j) : j \in @}]
  <2>1. d \in DocType /\ DocFits(d) /\ Matches(d, disk)
    BY TabInOrder
  <2>2. tabs'[t] = e
    BY DEF Tick
  <2>3. \A j \in d.jobs : j \in JobType /\ j.left > 0
    BY <2>1 DEF Tick, Pending, DocType
  <2> HIDE DEF d
  <2>4. \A j \in d.jobs : /\ older(j) \in JobType /\ older(j).kind = j.kind
                          /\ older(j).snap = j.snap /\ older(j).arg = j.arg
    BY <2>3 DEF JobType
  <2> HIDE DEF older
  <2>5. /\ e \in DocType /\ e.page = d.page /\ e.loading = d.loading /\ e.mem = d.mem
        /\ e.busy = d.busy /\ e.jobs = {older(j) : j \in d.jobs}
    BY <2>1, <2>4 DEF DocType
  <2> HIDE DEF e
  <2>6. \A i \in e.jobs : JobFits(e, i)
    <3>1. SUFFICES ASSUME NEW j \in d.jobs PROVE JobFits(e, older(j))
      BY <2>5
    <3>2. JobFits(d, j)
      BY <2>1 DEF DocFits
    <3>3. ArgFits(older(j))
      BY <2>4, <3>2 DEF JobFits, ArgFits
    <3>4. QED BY <2>4, <2>5, <3>2, <3>3 DEF JobFits
  <2>7. \A i, k \in e.jobs : i.kind \in Movers /\ k.kind \in Movers => i = k
    BY <2>1, <2>4, <2>5 DEF DocFits
  <2>8. DocFits(e)
    <3>1. d.jobs = {} => e.jobs = {}
      BY <2>5
    <3>2. QED BY <2>1, <2>5, <2>6, <2>7, <3>1 DEF DocFits
  <2>9. QED BY <2>1, <2>2, <2>5, <2>8 DEF Matches
<1>3. tabs' \in [Tabs -> DocType]
  <2>1. \A t \in Tabs : tabs'[t] \in DocType
    BY <1>2
  <2>2. DOMAIN tabs' = Tabs /\ tabs' = [t \in Tabs |-> tabs'[t]]
    BY DEF Tick
  <2>3. QED BY <2>1, <2>2
<1>4. QED BY <1>1, <1>2, <1>3 DEF DemoInv

-----------------------------------------------------------------------------
(* The timers.                                                             *)

\* What a handler that is about to write knows.
LEMMA TimerKnows ==
  ASSUME DemoInv, NEW t \in Tabs, NEW j \in tabs[t].jobs
  PROVE  /\ j \in JobType /\ j.snap \in StoreType /\ ArgFits(j)
         /\ tabs[t].mem \in StoreType /\ Booked(tabs[t].mem)
         /\ j.kind \in Writers => tabs[t].page = "user" /\ SamePool(j.snap, tabs[t].mem)
         /\ j.kind \in Movers => /\ SamePool(j.snap, tabs[t].mem)
                                 /\ j.snap.creator.loan = tabs[t].mem.creator.loan
<1> DEFINE d == tabs[t]
<1>1. d \in DocType /\ DocFits(d) /\ d.mem \in StoreType /\ Booked(d.mem) /\ j \in d.jobs
  BY TabInOrder
<1> HIDE DEF d
<1>2. JobFits(d, j)
  BY <1>1 DEF DocFits
<1>3. j \in JobType /\ j.snap \in StoreType
  BY <1>1 DEF DocType, JobType
<1>4. QED BY <1>1, <1>2, <1>3 DEF JobFits, d

\* A document whose timer is over is a document.
LEMMA DoneFits ==
  ASSUME DemoInv, NEW t \in Tabs, NEW j \in tabs[t].jobs, NEW flags, NEW next, next \subseteq JobType
  PROVE  /\ Done(t, j, flags, next) \in DocType
         /\ Done(t, j, flags, next).page = tabs[t].page
         /\ Done(t, j, flags, next).loading = tabs[t].loading
         /\ Done(t, j, flags, next).mem = tabs[t].mem
         /\ Done(t, j, flags, next).jobs = (tabs[t].jobs \ {j}) \cup next
         /\ Done(t, j, flags, next).busy = tabs[t].busy \ flags
<1> DEFINE d == tabs[t]
           e == [d EXCEPT !.jobs = (@ \ {j}) \cup next, !.busy = @ \ flags]
<1>1. d \in DocType /\ Done(t, j, flags, next) = e
  BY TabInOrder DEF Done
<1> HIDE DEF d
<1>2. /\ e \in DocType /\ e.page = d.page /\ e.loading = d.loading /\ e.mem = d.mem
      /\ e.jobs = (d.jobs \ {j}) \cup next /\ e.busy = d.busy \ flags
  BY <1>1 DEF DocType
<1>3. QED BY <1>1, <1>2 DEF d

\* The end of a timer whose document changes in nothing else.
LEMMA TimerEnds ==
  ASSUME OneTab, DemoInv, NEW t \in Tabs, NEW j \in tabs[t].jobs, NEW ch, Right(ch, tabs[t].mem),
         NEW flags, NEW next, "process" \in flags => j.kind \in Movers,
         j.kind \notin Movers =>
            /\ SamePool(tabs[t].mem, With(tabs[t].mem, ch))
            /\ \/ tabs[t].page = "user"
               \/ With(tabs[t].mem, ch).creator = tabs[t].mem.creator,
         \A n \in next : NewFits(n, tabs[t].page, tabs[t].mem) /\ n.kind \notin Movers,
         acts' \in 0 .. MaxActs, Becomes(t, Done(t, j, flags, next), ch)
  PROVE  DemoInv' /\ WriteStep
<1> DEFINE e == Done(t, j, flags, next)
<1>1. next \subseteq JobType
  BY DEF NewFits
<1>2. /\ e \in DocType /\ e.page = tabs[t].page /\ e.loading = tabs[t].loading /\ e.mem = tabs[t].mem
      /\ e.jobs = (tabs[t].jobs \ {j}) \cup next /\ e.busy = tabs[t].busy \ flags
  BY <1>1, DoneFits
<1>3. Becomes(t, e, ch)
  OBVIOUS
<1> HIDE DEF e
<1>4. QED BY <1>2, <1>3, TimerFits

\* The timers that follow another keep its closure.
LEMMA AgainFits ==
  ASSUME DemoInv, NEW t \in Tabs, NEW j \in tabs[t].jobs, NEW left \in 0 .. 6,
         NEW kind \in {"navEnds", "joinEnds", "listed", "listing", "opening"},
         kind = "listing" => j.kind = "connect", kind = "opening" => j.kind = "borrow"
  PROVE  \A n \in {Job(kind, left, j.snap, j.arg)} :
            NewFits(n, tabs[t].page, tabs[t].mem) /\ n.kind \notin Movers
<1> DEFINE n == Job(kind, left, j.snap, j.arg)
<1>1. /\ j \in JobType /\ j.snap \in StoreType /\ ArgFits(j)
      /\ j.kind \in Writers => tabs[t].page = "user" /\ SamePool(j.snap, tabs[t].mem)
  BY TimerKnows
<1>2. n.kind = kind /\ n.snap = j.snap /\ n.arg = j.arg /\ n \in JobType
  BY <1>1 DEF Job, JobType, Kinds, Writers
<1>3. "connect" \in Writers /\ "borrow" \in Writers
  BY DEF Writers
<1> HIDE DEF n
<1>4. kind \notin Movers /\ (kind \in Writers => kind = "listing" \/ kind = "opening")
  BY DEF Movers, Writers
<1>5. ArgFits(n)
  BY <1>1, <1>2, <1>4 DEF ArgFits
<1>6. NewFits(n, tabs[t].page, tabs[t].mem)
  BY <1>1, <1>2, <1>3, <1>4, <1>5 DEF NewFits
<1>7. QED BY <1>2, <1>4, <1>6 DEF n

\* A wallet connects, on any page, and is listed on the user page.
LEMMA ConnectedFits ==
  ASSUME OneTab, DemoInv, NEW t \in Tabs, NEW j \in tabs[t].jobs, Connected(t, j), UNCHANGED acts
  PROVE  DemoInv' /\ WriteStep
<1> DEFINE m == tabs[t].mem
<1>1. acts' \in 0 .. MaxActs
  BY ActCounts
<1>2. /\ j \in JobType /\ j.snap \in StoreType /\ ArgFits(j) /\ m \in StoreType /\ Booked(m)
      /\ j.kind \in Writers => tabs[t].page = "user" /\ SamePool(j.snap, m)
  BY TimerKnows
<1>3. Right(Nothing, m) /\ With(m, Nothing) = m /\ SamePool(m, m)
  BY <1>2, NothingIsRight DEF SamePool
<1>4. \A ch \in {Sets({"wallet"}, [j.snap EXCEPT !.wallet = TRUE]), setCurrentUserWallet(j.snap)} :
         Right(ch, m) /\ SamePool(m, With(m, ch)) /\ With(m, ch).creator = m.creator
  BY <1>2, WalletIsRight
<1>5. \A flag \in {"nav", "connect", "transition"} : "process" # flag
  OBVIOUS
<1>6. 1 \in 0 .. 6 /\ 2 \in 0 .. 6
  OBVIOUS
<1>7. CASE j.kind = "nav"
  <2> DEFINE ch == Sets({"wallet"}, [j.snap EXCEPT !.wallet = TRUE])
             next == Again(j, "navEnds")
  <2>1. Becomes(t, Done(t, j, {}, next), ch)
    BY <1>7 DEF Connected
  <2>2. \A n \in next : NewFits(n, tabs[t].page, tabs[t].mem) /\ n.kind \notin Movers
    BY <1>6, AgainFits DEF Again
  <2>3. Right(ch, m) /\ SamePool(m, With(m, ch)) /\ With(m, ch).creator = m.creator
    BY <1>4
  <2> HIDE DEF ch, next
  <2>4. QED BY <1>1, <2>1, <2>2, <2>3, TimerEnds
<1>8. CASE j.kind = "join"
  <2> DEFINE ch == setCurrentUserWallet(j.snap)
             next == Again(j, "joinEnds")
  <2>1. Becomes(t, Done(t, j, {}, next), ch)
    BY <1>8 DEF Connected
  <2>2. \A n \in next : NewFits(n, tabs[t].page, tabs[t].mem) /\ n.kind \notin Movers
    BY <1>6, AgainFits DEF Again
  <2>3. Right(ch, m) /\ SamePool(m, With(m, ch)) /\ With(m, ch).creator = m.creator
    BY <1>4
  <2> HIDE DEF ch, next
  <2>4. QED BY <1>1, <2>1, <2>2, <2>3, TimerEnds
<1>9. CASE j.kind = "connect"
  <2> DEFINE ch == setCurrentUserWallet(j.snap)
             next == {Job("listing", 2, j.snap, j.arg)}
  <2>1. Becomes(t, Done(t, j, {}, next), ch)
    BY <1>9 DEF Connected
  <2>2. \A n \in next : NewFits(n, tabs[t].page, tabs[t].mem) /\ n.kind \notin Movers
    BY <1>6, <1>9, AgainFits
  <2>3. Right(ch, m) /\ SamePool(m, With(m, ch)) /\ With(m, ch).creator = m.creator
    BY <1>4
  <2> HIDE DEF ch, next
  <2>4. QED BY <1>1, <2>1, <2>2, <2>3, TimerEnds
<1>10. CASE j.kind = "listing"
  <2> DEFINE ch == addCreatorToList(j.snap, j.arg)
             next == Again(j, "listed")
  <2>1. Becomes(t, Done(t, j, {}, next), ch)
    BY <1>10 DEF Connected
  <2>2. \A n \in next : NewFits(n, tabs[t].page, tabs[t].mem) /\ n.kind \notin Movers
    BY <1>6, AgainFits DEF Again
  <2>3. j.arg \in Revenues /\ tabs[t].page = "user" /\ SamePool(j.snap, m)
    BY <1>2, <1>10 DEF ArgFits, Writers
  <2>4. Right(ch, m) /\ SamePool(m, With(m, ch))
    BY <1>2, <2>3, ListingIsRight
  <2> HIDE DEF ch, next
  <2>5. QED BY <1>1, <2>1, <2>2, <2>3, <2>4, TimerEnds
<1>11. CASE j.kind \in {"navEnds", "joinEnds", "listed"}
  <2>1. PICK flags \in {{"nav"}, {"connect"}, {"connect", "transition"}} :
          Becomes(t, Done(t, j, flags, {}), Nothing)
    BY <1>11 DEF Connected
  <2>2. "process" \notin flags
    BY <2>1
  <2> DEFINE next == {}
  <2>3. \A n \in next : NewFits(n, tabs[t].page, tabs[t].mem) /\ n.kind \notin Movers
    OBVIOUS
  <2>4. Becomes(t, Done(t, j, flags, next), Nothing)
    BY <2>1
  <2> HIDE DEF next
  <2>5. QED BY <1>1, <1>3, <2>2, <2>3, <2>4, TimerEnds
<1>12. QED BY <1>7, <1>8, <1>9, <1>10, <1>11 DEF Connected

\* A deposit or a withdrawal is written: no other moved the pool since the click.
LEMMA MovedFits ==
  ASSUME OneTab, DemoInv, NEW t \in Tabs, NEW j \in tabs[t].jobs, MovedFunds(t, j), UNCHANGED acts
  PROVE  DemoInv' /\ WriteStep
<1> DEFINE m == tabs[t].mem
<1>1. acts' \in 0 .. MaxActs
  BY ActCounts
<1>2. j.kind \in Movers
  BY DEF MovedFunds, Movers
<1>3. /\ j.snap \in StoreType /\ m \in StoreType /\ Booked(m) /\ ArgFits(j)
      /\ SamePool(j.snap, m) /\ j.snap.creator.loan = m.creator.loan
  BY <1>2, TimerKnows
<1>4. j.arg \in Nat \ {0} /\ (j.kind = "deposit" => j.arg \in Amounts)
  BY <1>2, <1>3, DemoAssumption DEF ArgFits, Movers
<1>5. PICK ch : /\ \/ j.kind = "deposit" /\ ch = depositToPool(j.snap, j.arg)
                   \/ ch = withdrawFromPool(j.snap, j.arg)
                /\ Becomes(t, Done(t, j, {"process"}, {}), ch)
  BY DEF MovedFunds
<1>6. Right(ch, m)
  BY <1>3, <1>4, <1>5, MoveIsRight
<1> DEFINE next == {}
           flags == {"process"}
<1>7. /\ \A n \in next : NewFits(n, tabs[t].page, tabs[t].mem) /\ n.kind \notin Movers
      /\ Becomes(t, Done(t, j, flags, next), ch)
  BY <1>5
<1> HIDE DEF next, flags
<1>8. QED BY <1>1, <1>2, <1>6, <1>7, TimerEnds

\* The end of a timer that also changes the user page's fields.
LEMMA TimerSetsFields ==
  ASSUME OneTab, DemoInv, NEW t \in Tabs, NEW j \in tabs[t].jobs, j.kind \in Writers \cup {"edited"},
         NEW ch, Right(ch, tabs[t].mem), SamePool(tabs[t].mem, With(tabs[t].mem, ch)),
         tabs[t].page = "user" \/ With(tabs[t].mem, ch).creator = tabs[t].mem.creator,
         NEW flags, "process" \notin flags, NEW sim \in SimType, NEW repaying \in BOOLEAN,
         NEW editing \in BOOLEAN, NEW e,
         e = [Done(t, j, flags, {}) EXCEPT !.sim = sim, !.repaying = repaying, !.editing = editing],
         acts' \in 0 .. MaxActs, Becomes(t, e, ch)
  PROVE  DemoInv' /\ WriteStep
<1> DEFINE d == Done(t, j, flags, {})
           next == {}
<1>1. next \subseteq JobType
  OBVIOUS
<1>2. /\ d \in DocType /\ d.page = tabs[t].page /\ d.loading = tabs[t].loading /\ d.mem = tabs[t].mem
      /\ d.jobs = (tabs[t].jobs \ {j}) \cup next /\ d.busy = tabs[t].busy \ flags
  BY <1>1, DoneFits
<1>3. e = [d EXCEPT !.sim = sim, !.repaying = repaying, !.editing = editing]
  OBVIOUS
<1>4. \A n \in next : NewFits(n, tabs[t].page, tabs[t].mem) /\ n.kind \notin Movers
  OBVIOUS
<1> HIDE DEF d, next
<1>5. e \in DocType
  BY <1>2, <1>3 DEF DocType
<1>6. /\ e.page = d.page /\ e.loading = d.loading /\ e.mem = d.mem /\ e.jobs = d.jobs
      /\ e.busy = d.busy
  BY <1>2, <1>3 DEF DocType
<1>7. /\ e.page = tabs[t].page /\ e.loading = tabs[t].loading /\ e.mem = tabs[t].mem
      /\ e.jobs = (tabs[t].jobs \ {j}) \cup next /\ e.busy = tabs[t].busy \ flags
  BY <1>2, <1>6
<1>8. QED BY <1>4, <1>5, <1>7, TimerFits

\* An advance is written: an unlisted creator is added first.
LEMMA AdvancedFits ==
  ASSUME OneTab, DemoInv, NEW t \in Tabs, NEW j \in tabs[t].jobs, Advanced(t, j), UNCHANGED acts
  PROVE  DemoInv' /\ WriteStep
<1> DEFINE m == tabs[t].mem
           terms == j.arg[1]
           loan == [amount |-> terms.amount, apr |-> terms.apr, tier |-> terms.tier,
                    days |-> terms.days]
           ch == addCreatorLoan(j.snap, loan)
           flags == {"borrow"}
<1>1. acts' \in 0 .. MaxActs
  BY ActCounts
<1>2. j.kind \in {"borrow", "opening"} /\ j.kind \in Writers
  BY DEF Advanced, Writers
<1>3. /\ j.snap \in StoreType /\ m \in StoreType /\ Booked(m) /\ ArgFits(j)
      /\ tabs[t].page = "user" /\ SamePool(j.snap, m)
  BY <1>2, TimerKnows
<1>4. j.arg \in TermsType \X Revenues
  BY <1>2, <1>3 DEF ArgFits
<1>5. terms \in TermsType /\ j.arg[2] \in Revenues
  BY <1>4
<1>6. loan \in LoanType
  BY <1>5 DEF LoanType, TermsType
<1>7. "process" \notin flags
  OBVIOUS
<1>8. CASE j.kind = "borrow" /\ ~Listed(j.snap)
  <2> DEFINE add == addCreatorToList(j.snap, j.arg[2])
             next == Again(j, "opening")
             none == {}
  <2>1. Becomes(t, Done(t, j, none, next), add)
    BY <1>8 DEF Advanced
  <2>2. \A n \in next : NewFits(n, tabs[t].page, tabs[t].mem) /\ n.kind \notin Movers
    BY <1>8, AgainFits DEF Again
  <2>3. Right(add, m) /\ SamePool(m, With(m, add)) /\ "process" \notin none
    BY <1>3, <1>5, ListingIsRight
  <2> HIDE DEF add, next, none
  <2>4. QED BY <1>1, <1>3, <2>1, <2>2, <2>3, TimerEnds
<1>9. CASE j.kind = "opening" \/ (j.kind = "borrow" /\ Listed(j.snap))
  <2>1. Right(ch, m) /\ SamePool(m, With(m, ch))
    <3> HIDE DEF loan
    <3>1. QED BY <1>3, <1>6, LoanIsRight
  <2> DEFINE sim == Simulated(terms.amount, terms.owed, terms.apr, j.arg[2], terms.tier)
             none == {}
  <2>2. Becomes(t, IF ch = Nothing THEN Done(t, j, flags, none)
                   ELSE [Done(t, j, flags, none) EXCEPT !.sim = sim], ch)
    BY <1>9 DEF Advanced
  <2>3. sim \in SimType
    BY <1>5, SimulatedFits DEF SimType, TermsType
  <2> HIDE DEF ch, sim, loan, terms
  <2>4. CASE ch = Nothing
    <3>1. Becomes(t, Done(t, j, flags, none), ch)
      BY <2>2, <2>4
    <3>2. \A n \in none : NewFits(n, tabs[t].page, tabs[t].mem) /\ n.kind \notin Movers
      OBVIOUS
    <3> HIDE DEF flags, none
    <3>3. QED BY <1>1, <1>3, <1>7, <2>1, <3>1, <3>2, TimerEnds
  <2>5. CASE ch # Nothing
    <3> DEFINE d == Done(t, j, flags, {})
               e == [d EXCEPT !.sim = sim]
    <3>1. Becomes(t, e, ch)
      BY <2>2, <2>5
    <3>2. d \in DocType
      BY DoneFits
    <3>3. d.repaying \in BOOLEAN /\ d.editing \in BOOLEAN
      BY <3>2 DEF DocType
    <3>4. e = [d EXCEPT !.sim = sim, !.repaying = d.repaying, !.editing = d.editing]
      <4> HIDE DEF d
      <4>1. QED BY <3>2 DEF DocType
    <3> HIDE DEF e
    <3>5. QED BY <1>1, <1>2, <1>3, <1>7, <2>1, <2>3, <3>1, <3>3, <3>4, TimerSetsFields
  <2>6. QED BY <2>4, <2>5
<1>10. QED BY <1>8, <1>9 DEF Advanced

\* A repayment is written, in full or in part.
LEMMA RepaidFits ==
  ASSUME OneTab, DemoInv, NEW t \in Tabs, NEW j \in tabs[t].jobs, Repaid(t, j), UNCHANGED acts
  PROVE  DemoInv' /\ WriteStep
<1> DEFINE m == tabs[t].mem
           flags == {"repay"}
           d == Done(t, j, flags, {})
           sim == j.arg[1]
<1>1. acts' \in 0 .. MaxActs
  BY ActCounts
<1>2. j.kind = "repay" /\ j.kind \in Writers
  BY DEF Repaid, Writers
<1>3. /\ j.snap \in StoreType /\ m \in StoreType /\ Booked(m) /\ ArgFits(j)
      /\ tabs[t].page = "user" /\ SamePool(j.snap, m)
  BY <1>2, TimerKnows
<1>4. j.arg \in SimRecord \X (1 .. 100) /\ sim.owed > 0
  BY <1>2, <1>3 DEF ArgFits
<1>5. sim \in SimRecord /\ j.arg[2] \in 1 .. 100
  BY <1>4
<1>6. "process" \notin flags
  OBVIOUS
<1>7. d \in DocType
  BY DoneFits
<1>8. d.repaying \in BOOLEAN /\ d.editing \in BOOLEAN
  BY <1>7 DEF DocType
<1>9. CASE PaidOff(t, j)
  <2> DEFINE ch == addLoanHistoryItem(removeCreatorLoan(j.snap), j.snap, "full_payoff")
             e == [d EXCEPT !.sim = NoLoan, !.repaying = FALSE]
  <2>1. Becomes(t, e, ch)
    BY <1>9 DEF PaidOff
  <2>2. Right(ch, m) /\ SamePool(m, With(m, ch))
    <3>1. 1 \in Revenues
      BY DEF Revenues
    <3>2. QED BY <1>3, <3>1, ListingIsRight
  <2>3. e = [d EXCEPT !.sim = NoLoan, !.repaying = FALSE, !.editing = d.editing]
    <3> HIDE DEF d
    <3>1. QED BY <1>7 DEF DocType
  <2>4. NoLoan \in SimType /\ FALSE \in BOOLEAN
    BY DEF SimType
  <2> HIDE DEF ch, e
  <2>5. QED BY <1>1, <1>2, <1>3, <1>6, <1>8, <2>1, <2>2, <2>3, <2>4, TimerSetsFields
<1>10. CASE PaidEarly(t, j)
  <2> DEFINE owed == sim.owed - EarlyPayment(sim, j.arg[2])
             loan == [amount |-> owed, apr |-> sim.apr, tier |-> sim.tier, days |-> DaysLeft(sim, owed)]
             ch == addLoanHistoryItem(addCreatorLoan(j.snap, loan), j.snap, "early_payment")
             left == [sim EXCEPT !.owed = owed]
             e == [d EXCEPT !.sim = left]
  <2>1. Becomes(t, e, ch)
    BY <1>10 DEF PaidEarly
  <2>2. left \in SimRecord /\ loan \in LoanType
    <3> HIDE DEF sim
    <3>1. QED BY <1>4, <1>5, EarlyPaymentFits
  <2>3. left \in SimType
    BY <2>2 DEF SimType
  <2> HIDE DEF loan, left
  <2>4. Right(ch, m) /\ SamePool(m, With(m, ch))
    BY <1>3, <2>2, LoanIsRight
  <2>5. e = [d EXCEPT !.sim = left, !.repaying = d.repaying, !.editing = d.editing]
    <3> HIDE DEF d
    <3>1. QED BY <1>7 DEF DocType
  <2> HIDE DEF ch, e
  <2>6. QED BY <1>1, <1>2, <1>3, <1>6, <1>8, <2>1, <2>3, <2>4, <2>5, TimerSetsFields
<1>11. QED BY <1>9, <1>10 DEF Repaid

\* An edit ends, and the revenues are written back.
LEMMA EditedFits ==
  ASSUME OneTab, DemoInv, NEW t \in Tabs, NEW j \in tabs[t].jobs, Edited(t, j), UNCHANGED acts
  PROVE  DemoInv' /\ WriteStep
<1> DEFINE m == tabs[t].mem
           none == {}
           d == Done(t, j, none, {})
<1>1. acts' \in 0 .. MaxActs
  BY ActCounts
<1>2. /\ j.snap \in StoreType /\ m \in StoreType /\ Booked(m) /\ ArgFits(j)
      /\ j.kind \in Writers => tabs[t].page = "user" /\ SamePool(j.snap, m)
  BY TimerKnows
<1>3. CASE j.kind = "edited" /\ Becomes(t, [d EXCEPT !.editing = FALSE], Nothing)
  <2> DEFINE e == [d EXCEPT !.editing = FALSE]
  <2>1. Right(Nothing, m) /\ With(m, Nothing) = m /\ SamePool(m, m)
    BY <1>2, NothingIsRight DEF SamePool
  <2>2. d \in DocType
    BY DoneFits
  <2>3. d.repaying \in BOOLEAN /\ d.sim \in SimType
    BY <2>2 DEF DocType
  <2>4. e = [d EXCEPT !.sim = d.sim, !.repaying = d.repaying, !.editing = FALSE]
    <3> HIDE DEF d
    <3>1. QED BY <2>2 DEF DocType
  <2>5. Becomes(t, e, Nothing) /\ "process" \notin none
    BY <1>3
  <2>6. j.kind \in Writers \cup {"edited"} /\ FALSE \in BOOLEAN
    BY <1>3
  <2> HIDE DEF e, none
  <2>7. QED BY <1>1, <2>1, <2>3, <2>4, <2>5, <2>6, TimerSetsFields
<1>4. CASE j.kind = "earnings" /\ Becomes(t, d, updateCreatorEarnings(j.snap, j.arg))
  <2> DEFINE ch == updateCreatorEarnings(j.snap, j.arg)
             next == {}
  <2>1. j.arg \in Revenues /\ tabs[t].page = "user" /\ SamePool(j.snap, m)
    BY <1>2, <1>4 DEF ArgFits, Writers
  <2>2. Right(ch, m) /\ SamePool(m, With(m, ch))
    BY <1>2, <2>1, ListingIsRight
  <2>3. Becomes(t, Done(t, j, none, next), ch) /\ "process" \notin none
    BY <1>4
  <2>4. \A n \in next : NewFits(n, tabs[t].page, tabs[t].mem) /\ n.kind \notin Movers
    OBVIOUS
  <2> HIDE DEF ch, none, next
  <2>5. QED BY <1>1, <2>1, <2>2, <2>3, <2>4, TimerEnds
<1>5. QED BY <1>3, <1>4 DEF Edited

\* A timer fires.
LEMMA TimeoutFits ==
  ASSUME OneTab, DemoInv, NEW t \in Tabs, Timeout(t)
  PROVE  DemoInv' /\ WriteStep
BY ConnectedFits, MovedFits, AdvancedFits, RepaidFits, EditedFits DEF Timeout

-----------------------------------------------------------------------------
(* The invariant and what follows from it.                                 *)

\* The browser starts without a state and without a page.
LEMMA InitFits ==
  ASSUME DemoInit
  PROVE  DemoInv
<1>1. Blank \in StoreType /\ Blank.tvl = NoPool
  BY FreshShape DEF Blank
<1>2. FEES \in Revenues /\ MaxActs \in Nat
  BY DemoAssumption DEF Revenues
<1>3. /\ Closed \in DocType /\ Closed.page = "closed" /\ ~Closed.loading /\ Closed.jobs = {}
      /\ Closed.mem = Blank
  BY <1>1, <1>2 DEF Closed, DocType, Pages, SimType
<1>4. DocFits(Closed) /\ Matches(Closed, Blank) /\ Booked(Blank)
  BY <1>1, <1>3, BlankIsBooked DEF DocFits, Matches
<1>5. QED BY <1>1, <1>2, <1>3, <1>4 DEF DemoInit, DemoInv

\* Every step keeps the invariant and writes what is current.
LEMMA StepFits ==
  ASSUME OneTab, DemoInv, [DemoNext]_vars
  PROVE  DemoInv' /\ WriteStep
<1>1. ASSUME UNCHANGED vars PROVE DemoInv' /\ WriteStep
  BY <1>1, NothingWritten DEF vars, DemoInv
<1>2. ASSUME DemoNext PROVE DemoInv' /\ WriteStep
  BY <1>2, VisitFits, ConnectFits, LendFits, UserFits, TimeoutFits, TickFits DEF DemoNext
<1>3. QED BY <1>1, <1>2

\* A state of the invariant's type is one of the checked type.
LEMMA StoresAreOK ==
  ASSUME NEW s \in StoreType
  PROVE  StoreOK(s)
<1>1. /\ s.tvl \in Nat /\ s.deposited \in Nat /\ s.additional \in Nat /\ s.wallet \in BOOLEAN
      /\ s.creator \in CreatorType /\ s.loans \in Seq(History)
  BY DEF StoreType
<1>2. s.creator.fees \in Nat /\ s.creator.loan.amount \in Nat
  BY <1>1, CreatorShape, LoanShape
<1>3. \A i \in DOMAIN s.loans : s.loans[i] \in History
  BY <1>1
<1>4. QED BY <1>1, <1>2, <1>3 DEF StoreOK, History

\* The invariant implies the books.
LEMMA InvIsBooks ==
  ASSUME DemoInv
  PROVE  DemoBooks
<1>1. \A s \in Stores : s \in StoreType /\ Booked(s)
  BY TabInOrder DEF Stores, DemoInv
<1>2. DemoTypeOK
  <2>1. \A s \in Stores : StoreOK(s)
    BY <1>1, StoresAreOK
  <2>2. ASSUME NEW t \in Tabs
        PROVE  /\ tabs[t].page \in Pages /\ Remaining(tabs[t].sim) >= 0
               /\ \A j \in tabs[t].jobs : j.left \in 0 .. 6 /\ StoreOK(j.snap)
    <3>1. tabs[t] \in DocType /\ tabs[t].sim \in SimType
      BY TabInOrder
    <3>2. tabs[t].sim = NoLoan \/ tabs[t].sim.owed \in Nat
      BY <3>1 DEF SimType, SimRecord
    <3>3. \A j \in tabs[t].jobs : j \in JobType
      BY <3>1 DEF DocType
    <3>4. \A j \in tabs[t].jobs : j.left \in 0 .. 6 /\ StoreOK(j.snap)
      BY <3>3, StoresAreOK DEF JobType
    <3>5. Remaining(tabs[t].sim) >= 0
      BY <3>2 DEF Remaining
    <3>6. QED BY <3>1, <3>4, <3>5 DEF DocType
  <2>3. QED BY <2>1, <2>2 DEF DemoTypeOK, DemoInv
<1>3. TvlIsSeedPlusDeposits
  BY <1>1 DEF TvlIsSeedPlusDeposits, Booked, Total, calculatePoolTVL
<1>4. ReloadLosesNothing
  BY TabInOrder DEF ReloadLosesNothing, Matches
<1>5. QED BY <1>2, <1>3, <1>4 DEF DemoBooks

\* The pool is the seed and the position, and what the LP history tells; what one open
\* tab shows is what the storage holds, whichever handlers are still waiting.
THEOREM BooksAgree ==
  ASSUME OneTab
  PROVE  DemoSpec => []DemoBooks
<1>1. DemoInit => DemoInv
  BY InitFits
<1>2. DemoInv /\ [DemoNext]_vars => DemoInv'
  BY StepFits
<1>3. DemoInv => DemoBooks
  BY InvIsBooks
<1>4. QED BY <1>1, <1>2, <1>3, PTL DEF DemoSpec

\* Deposits and withdrawals that wait for seconds and write what they computed at the
\* click implement LendingPool, where they happen at once: none is lost, none counts
\* twice, and none takes more than the position has.
THEOREM HandlersSeemAtomic ==
  ASSUME OneTab
  PROVE  DemoSpec => MovesOneAtATime
<1>1. DemoInit => DemoInv /\ PoolNow = Pool!Closed
  BY InitFits DEF DemoInit, Blank, PoolNow, Pool!Closed, NoPool
<1>2. DemoInv /\ [DemoNext]_vars => DemoInv'
  BY StepFits
<1>3. DemoInv /\ [DemoNext]_vars => [Pool!PoolNext]_PoolNow
  BY StepFits DEF WriteStep, PoolStep
<1>4. QED BY <1>1, <1>2, <1>3, PTL DEF DemoSpec, MovesOneAtATime, Pool!PoolSpec

\* What a handler computes from the state of its click is right when it is written: the
\* yield is that of the new pool under the new advances, an advance that the history
\* records fits the pool, and the pool moves as if nothing had waited.
THEOREM HandlersWriteWhatIsCurrent ==
  ASSUME OneTab
  PROVE  DemoSpec => WritesAreCurrent
<1>1. DemoInit => DemoInv
  BY InitFits
<1>2. DemoInv /\ [DemoNext]_vars => DemoInv'
  BY StepFits
<1>3. DemoInv /\ [DemoNext]_vars =>
        [ disk'.tvl # NoPool /\ <<disk.yield, disk.tvl>> # <<disk'.yield, disk'.tvl>>
            => disk'.yield = YieldNow(disk') ]_vars
  BY StepFits DEF WriteStep, YieldStep
<1>4. DemoInv /\ [DemoNext]_vars =>
        [ disk'.creator.loan.amount > disk.creator.loan.amount /\ disk'.loans # disk.loans
            => TotalBorrowed(disk') =< disk'.tvl ]_vars
  BY StepFits DEF WriteStep, LentStep
<1>5. QED BY <1>1, <1>2, <1>3, <1>4, HandlersSeemAtomic, PTL
  DEF DemoSpec, WritesAreCurrent, YieldFollows, LentWithinPool
=============================================================================
