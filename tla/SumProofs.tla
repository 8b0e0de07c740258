----------------------------- MODULE SumProofs -----------------------------
(***************************************************************************)
(* Sums over finite sets and loops, for proofs: a sum changes by what one  *)
(* of its terms changes by; a loop is a recursive function of its rounds.  *)
(*                                                                         *)
(* FoldSet, of which Total is made, chooses the solution                   *)
(* of a recursion over the subsets of a set; that there is one, and only   *)
(* one, is shown here by taking a smallest subset where it would fail (the *)
(* order of strict inclusion is well founded on a finite set).             *)
(***************************************************************************)
EXTENDS Sums, FiniteSetTheorems, TLAPS

\* The element a fold over a set takes first.
First(s) == CHOOSE x \in s : TRUE

\* The element a fold takes is one of the set.
LEMMA FirstIn == \A s : s # {} => First(s) \in s
  BY DEF First

\* Induction over the subsets of a finite set S: what holds of a subset
\* whenever it holds of the smaller ones holds of all. G is the set of the
\* subsets it holds of, so that no operator is a parameter. It carries the sums
\* of balances over the holders.
LEMMA SubsetInduction ==
    ASSUME NEW S, IsFiniteSet(S), NEW G,
           \A s \in SUBSET S : (\A u \in SUBSET s : u # s => u \in G) => s \in G
    PROVE  \A s \in SUBSET S : s \in G
<1> SUFFICES ASSUME (SUBSET S) \ G # {} PROVE FALSE
  OBVIOUS
<1> DEFINE T == (SUBSET S) \ G
<1>1. IsWellFoundedOn(StrictSubsetOrdering(S), SUBSET S)
  <2>1. IsWellFoundedOn(StrictSubsetOrdering(S), FiniteSubsetsOf(S))
    BY FS_StrictSubsetOrderingWellFounded
  <2>2. FiniteSubsetsOf(S) = SUBSET S
    BY FS_FiniteSubsetsOfFinite
  <2> QED BY <2>1, <2>2
<1>2. \E x \in T : \A y \in T : ~(<<y, x>> \in StrictSubsetOrdering(S))
  <2> HIDE DEF T
  <2> T \subseteq SUBSET S /\ T # {}
    BY DEF T
  <2> QED BY <1>1, WFMin
<1>3. PICK x \in T : \A y \in T : ~(<<y, x>> \in StrictSubsetOrdering(S))
  BY <1>2
<1>4. \A u \in SUBSET x : u # x => u \in G
  BY <1>3 DEF StrictSubsetOrdering
<1> QED
  BY <1>3, <1>4

\* The recursion of a fold, with its step a function.
IsFold(g, S, step, base) ==
    g = [s \in SUBSET S |-> IF s = {} THEN base ELSE step[<<First(s), g[s \ {First(s)}]>>]]

\* A recursion over the subsets of a finite set has one solution, and the
\* solution over a larger set extends it. FoldSet takes the solution with
\* CHOOSE, as in the genesis accounts that are created one after the other.
LEMMA FoldUnique ==
    ASSUME NEW S, IsFiniteSet(S), NEW step, NEW base, NEW U \in SUBSET S,
           NEW g, IsFold(g, S, step, base), NEW h, IsFold(h, U, step, base)
    PROVE  \A s \in SUBSET U : g[s] = h[s]
<1> DEFINE G == {s \in SUBSET U : g[s] = h[s]}
<1>0. IsFiniteSet(U)
  BY FS_Subset
<1>1. ASSUME NEW s \in SUBSET U, \A u \in SUBSET s : u # s => u \in G
      PROVE  s \in G
  <2>1. CASE s = {}
    BY <2>1 DEF IsFold
  <2>2. CASE s # {}
    <3>1. First(s) \in s /\ s \ {First(s)} \in SUBSET s /\ s \ {First(s)} # s
      BY <2>2, FirstIn
    <3>2. g[s \ {First(s)}] = h[s \ {First(s)}]
      BY <3>1, <1>1
    <3>3. g[s] = step[<<First(s), g[s \ {First(s)}]>>]
      BY <2>2 DEF IsFold
    <3>4. h[s] = step[<<First(s), h[s \ {First(s)}]>>]
      BY <2>2 DEF IsFold
    <3> QED BY <3>2, <3>3, <3>4
  <2> QED BY <2>1, <2>2
<1>2. \A s \in SUBSET U : s \in G
  <2> HIDE DEF G
  <2> QED BY <1>0, <1>1, SubsetInduction
<1> QED BY <1>2

\* The recursion has a solution: it is put together from those over the smaller
\* subsets.
LEMMA FoldExists ==
    ASSUME NEW S, IsFiniteSet(S), NEW step, NEW base
    PROVE  \E g : IsFold(g, S, step, base)
<1> DEFINE G == {s \in SUBSET S : \E g : IsFold(g, s, step, base)}
           F(s) == CHOOSE g : IsFold(g, s, step, base)
<1>1. ASSUME NEW s \in SUBSET S, \A u \in SUBSET s : u # s => u \in G
      PROVE  s \in G
  <2> DEFINE r(u) == IF u = {} THEN base
                     ELSE step[<<First(u), F(u \ {First(u)})[u \ {First(u)}]>>]
             g == [u \in SUBSET s |-> r(u)]
  <2>0. IsFiniteSet(s)
    BY FS_Subset
  <2>1. ASSUME NEW u \in SUBSET s, u # s PROVE IsFold(F(u), u, step, base)
    BY <1>1, <2>1
  <2>2. ASSUME NEW u \in SUBSET s, u # s PROVE g[u] = F(u)[u]
    <3>0. IsFold(F(u), u, step, base)
      BY <2>1, <2>2
    <3>1. CASE u = {}
      BY <3>0, <3>1 DEF IsFold
    <3>2. CASE u # {}
      <4> DEFINE w == u \ {First(u)}
      <4>1. w \in SUBSET s /\ w # s /\ w \in SUBSET u
        BY <2>2, FirstIn
      <4>2. IsFold(F(w), w, step, base)
        BY <4>1, <2>1
      <4>2a. IsFiniteSet(u)
        BY <2>0, FS_Subset
      <4>3. F(u)[w] = F(w)[w]
        <5> HIDE DEF F, w
        <5> QED BY <4>1, <4>2, <4>2a, <3>0, FoldUnique
      <4>4. F(u)[u] = step[<<First(u), F(u)[w]>>]
        <5> HIDE DEF F
        <5> QED BY <3>0, <3>2 DEF IsFold
      <4>5. g[u] = step[<<First(u), F(w)[w]>>]
        <5> HIDE DEF F
        <5> QED BY <3>2
      <4> QED BY <4>3, <4>4, <4>5
    <3> QED BY <3>1, <3>2
  <2>3. \A u \in SUBSET s : u # {} => u \ {First(u)} \in SUBSET s /\ u \ {First(u)} # s
    BY FirstIn
  <2>4. \A u \in SUBSET s : g[u] = IF u = {} THEN base ELSE step[<<First(u), g[u \ {First(u)}]>>]
    <3> SUFFICES ASSUME NEW u \in SUBSET s
                 PROVE  g[u] = IF u = {} THEN base ELSE step[<<First(u), g[u \ {First(u)}]>>]
      OBVIOUS
    <3>1. g[u] = r(u)
      OBVIOUS
    <3>2. u # {} => g[u \ {First(u)}] = F(u \ {First(u)})[u \ {First(u)}]
      <4> HIDE DEF F, g
      <4> QED BY <2>2, <2>3
    <3> HIDE DEF F, g
    <3> QED BY <3>1, <3>2
  <2>5. IsFold(g, s, step, base)
    <3> DEFINE q(u) == IF u = {} THEN base ELSE step[<<First(u), g[u \ {First(u)}]>>]
    <3>1. g = [u \in SUBSET s |-> g[u]]
      OBVIOUS
    <3>2. \A u \in SUBSET s : g[u] = q(u)
      BY <2>4
    <3>3. g = [u \in SUBSET s |-> q(u)]
      <4> HIDE DEF g, q
      <4> QED BY <3>1, <3>2
    <3> HIDE DEF g
    <3> QED BY <3>3 DEF IsFold
  <2> HIDE DEF g
  <2> QED BY <2>5
<1>2. \A s \in SUBSET S : s \in G
  <2> HIDE DEF G
  <2> QED BY <1>1, SubsetInduction
<1> QED BY <1>2


\* A fold stays in a set that its step does not leave (the ledgers that
\* creating an account makes of a ledger).
LEMMA FoldType ==
    ASSUME NEW S, IsFiniteSet(S), NEW V, NEW base \in V, NEW step,
           \A x \in S, v \in V : step[<<x, v>>] \in V,
           NEW g, IsFold(g, S, step, base)
    PROVE  g \in [SUBSET S -> V]
<1> DEFINE G == {s \in SUBSET S : g[s] \in V}
<1>1. ASSUME NEW s \in SUBSET S, \A u \in SUBSET s : u # s => u \in G
      PROVE  s \in G
  <2>1. CASE s = {}
    BY <2>1 DEF IsFold
  <2>2. CASE s # {}
    <3>1. First(s) \in S /\ s \ {First(s)} \in SUBSET s /\ s \ {First(s)} # s
      BY <2>2, FirstIn
    <3>2. g[s \ {First(s)}] \in V
      BY <3>1, <1>1
    <3>3. g[s] = step[<<First(s), g[s \ {First(s)}]>>]
      BY <2>2 DEF IsFold
    <3> QED BY <3>1, <3>2, <3>3
  <2> QED BY <2>1, <2>2
<1>2. \A s \in SUBSET S : s \in G
  <2> HIDE DEF G
  <2> QED BY <1>1, SubsetInduction
<1> QED BY <1>2 DEF IsFold

-----------------------------------------------------------------------------

\* The recursion behind a sum.
IsSum(g, f, S) ==
    g = [s \in SUBSET S |-> IF s = {} THEN 0 ELSE f[First(s)] + g[s \ {First(s)}]]

\* A sum stays in a set that is closed under addition (amounts are not
\* negative).
LEMMA SumType ==
    ASSUME NEW S, IsFiniteSet(S), NEW V, 0 \in V, \A x, y \in V : x + y \in V,
           NEW f, \A x \in S : f[x] \in V,
           NEW g, IsSum(g, f, S)
    PROVE  g \in [SUBSET S -> V]
<1> DEFINE G == {s \in SUBSET S : g[s] \in V}
<1>1. ASSUME NEW s \in SUBSET S, \A u \in SUBSET s : u # s => u \in G
      PROVE  s \in G
  <2>1. CASE s = {}
    BY <2>1 DEF IsSum
  <2>2. CASE s # {}
    <3>1. First(s) \in S /\ s \ {First(s)} \in SUBSET s /\ s \ {First(s)} # s
      BY <2>2, FirstIn
    <3>2. g[s \ {First(s)}] \in V
      BY <3>1, <1>1
    <3>3. g[s] = f[First(s)] + g[s \ {First(s)}]
      BY <2>2 DEF IsSum
    <3> QED BY <3>1, <3>2, <3>3
  <2> QED BY <2>1, <2>2
<1>2. \A s \in SUBSET S : s \in G
  <2> HIDE DEF G
  <2> QED BY <1>1, SubsetInduction
<1> QED BY <1>2 DEF IsSum

\* The sums of two functions that agree are the same, whatever set the
\* recursion was defined on.
LEMMA SumUnique ==
    ASSUME NEW S, IsFiniteSet(S), NEW U \in SUBSET S, NEW f, NEW e, \A x \in U : f[x] = e[x],
           NEW g, IsSum(g, f, S), NEW h, IsSum(h, e, U)
    PROVE  \A s \in SUBSET U : g[s] = h[s]
<1> DEFINE G == {s \in SUBSET U : g[s] = h[s]}
<1>0. IsFiniteSet(U)
  BY FS_Subset
<1>1. ASSUME NEW s \in SUBSET U, \A u \in SUBSET s : u # s => u \in G
      PROVE  s \in G
  <2>1. CASE s = {}
    BY <2>1 DEF IsSum
  <2>2. CASE s # {}
    <3>1. First(s) \in U /\ s \ {First(s)} \in SUBSET s /\ s \ {First(s)} # s
      BY <2>2, FirstIn
    <3>2. g[s \ {First(s)}] = h[s \ {First(s)}]
      BY <3>1, <1>1
    <3>3. g[s] = f[First(s)] + g[s \ {First(s)}]
      BY <2>2 DEF IsSum
    <3>4. h[s] = e[First(s)] + h[s \ {First(s)}]
      BY <2>2 DEF IsSum
    <3> QED BY <3>1, <3>2, <3>3, <3>4
  <2> QED BY <2>1, <2>2
<1>2. \A s \in SUBSET U : s \in G
  <2> HIDE DEF G
  <2> QED BY <1>0, <1>1, SubsetInduction
<1> QED BY <1>2

\* Total is a solution of its recursion.
LEMMA SumExists ==
    ASSUME NEW S, IsFiniteSet(S), NEW f, \A x \in S : f[x] \in Int
    PROVE  \E g \in [SUBSET S -> Int] : IsSum(g, f, S) /\ Total(f, S) = g[S]
<1> DEFINE step == [p \in S \X Int |-> f[p[1]] + p[2]]
<1>1. \A x \in S, v \in Int : step[<<x, v>>] = f[x] + v
  OBVIOUS
<1>2. \E g : IsSum(g, f, S)
  <2> HIDE DEF step
  <2>1. PICK g : IsFold(g, S, step, 0)
    BY FoldExists
  <2>2. g \in [SUBSET S -> Int]
    <3>1. ASSUME NEW x \in S, NEW v \in Int PROVE step[<<x, v>>] \in Int
      <4>1. f[x] \in Int /\ f[x] + v \in Int
        OBVIOUS
      <4> QED BY <1>1, <4>1
    <3>2. 0 \in Int
      OBVIOUS
    <3> QED BY <2>1, <3>1, <3>2, FoldType
  <2>3. \A s \in SUBSET S : s # {} => First(s) \in S /\ s \ {First(s)} \in SUBSET S
    BY FirstIn
  <2>4. \A s \in SUBSET S : s # {} => step[<<First(s), g[s \ {First(s)}]>>] = f[First(s)] + g[s \ {First(s)}]
    BY <1>1, <2>2, <2>3
  <2>5. IsSum(g, f, S)
    BY <2>1, <2>4 DEF IsFold, IsSum
  <2> QED BY <2>5
<1>3. ASSUME NEW g, IsSum(g, f, S) PROVE g \in [SUBSET S -> Int]
  <2>1. 0 \in Int /\ \A x, y \in Int : x + y \in Int
    OBVIOUS
  <2> QED BY <1>3, <2>1, SumType
<1>4. IsSum(CHOOSE g : IsSum(g, f, S), f, S)
  BY <1>2
<1>5. Total(f, S) = (CHOOSE g : IsSum(g, f, S))[S]
  BY DEF Total, MapThenSumSet, MapThenFoldSet, IsSum, First
<1> QED BY <1>3, <1>4, <1>5

\* All partial sums at once.
SumTable(g, f, S) == IsSum(g, f, S) /\ \A s \in SUBSET S : Total(f, s) = g[s]

\* One function holds the sums over all subsets.
LEMMA SumOfSubsets ==
    ASSUME NEW S, IsFiniteSet(S), NEW f, \A x \in S : f[x] \in Int
    PROVE  \E g \in [SUBSET S -> Int] : SumTable(g, f, S)
<1>1. PICK g \in [SUBSET S -> Int] : IsSum(g, f, S)
  BY SumExists
<1>2. ASSUME NEW s \in SUBSET S PROVE Total(f, s) = g[s]
  <2>1. IsFiniteSet(s)
    BY FS_Subset
  <2>2. PICK h \in [SUBSET s -> Int] : IsSum(h, f, s) /\ Total(f, s) = h[s]
    BY <2>1, SumExists
  <2>3. g[s] = h[s]
    BY <1>1, <2>2, SumUnique
  <2> QED BY <2>2, <2>3
<1> QED BY <1>1, <1>2 DEF SumTable

\* The sum over no elements is 0: the supply of a chain without holders.
LEMMA SumEmpty == ASSUME NEW f PROVE Total(f, {}) = 0
<1>1. IsFiniteSet({})
  BY FS_EmptySet
<1>2. PICK g \in [SUBSET {} -> Int] : IsSum(g, f, {}) /\ Total(f, {}) = g[{}]
  BY <1>1, SumExists
<1> QED BY <1>2 DEF IsSum

\* A sum of integers is an integer.
LEMMA SumInt ==
    ASSUME NEW S, IsFiniteSet(S), NEW f, \A x \in S : f[x] \in Int
    PROVE  Total(f, S) \in Int
<1>1. PICK g \in [SUBSET S -> Int] : Total(f, S) = g[S]
  BY SumExists
<1> QED BY <1>1

\* A sum of amounts, which are not negative, is not negative.
LEMMA SumNat ==
    ASSUME NEW S, IsFiniteSet(S), NEW f, \A x \in S : f[x] \in Nat
    PROVE  Total(f, S) \in Nat
<1>1. \A x \in S : f[x] \in Int
  OBVIOUS
<1>2. PICK g \in [SUBSET S -> Int] : IsSum(g, f, S) /\ Total(f, S) = g[S]
  BY <1>1, SumExists
<1>3. 0 \in Nat /\ \A x, y \in Nat : x + y \in Nat
  OBVIOUS
<1>4. g \in [SUBSET S -> Nat]
  BY <1>2, <1>3, SumType
<1> QED BY <1>2, <1>4

\* A sum of zeros is 0: holders that have nothing of a denomination.
LEMMA SumZero ==
    ASSUME NEW S, IsFiniteSet(S), NEW f, \A x \in S : f[x] = 0
    PROVE  Total(f, S) = 0
<1>1. \A x \in S : f[x] \in Int /\ f[x] \in {0}
  OBVIOUS
<1>2. PICK g \in [SUBSET S -> Int] : IsSum(g, f, S) /\ Total(f, S) = g[S]
  BY <1>1, SumExists
<1>3. 0 \in {0} /\ \A x, y \in {0} : x + y \in {0}
  OBVIOUS
<1>4. g \in [SUBSET S -> {0}]
  BY <1>1, <1>2, <1>3, SumType
<1> QED BY <1>2, <1>4

\* Only the values of f on S matter to its sum over S.
LEMMA SumSame ==
    ASSUME NEW S, IsFiniteSet(S), NEW f, NEW e,
           \A x \in S : f[x] \in Int /\ f[x] = e[x]
    PROVE  Total(f, S) = Total(e, S)
<1>0. \A x \in S : e[x] \in Int
  OBVIOUS
<1>1. PICK g \in [SUBSET S -> Int] : IsSum(g, f, S) /\ Total(f, S) = g[S]
  BY SumExists
<1>2. PICK h \in [SUBSET S -> Int] : IsSum(h, e, S) /\ Total(e, S) = h[S]
  BY <1>0, SumExists
<1>3. g[S] = h[S]
  BY <1>1, <1>2, SumUnique
<1> QED BY <1>1, <1>2, <1>3

\* Any element may be taken out of a sum, not only the first: the order in
\* which balances are added up does not matter.
LEMMA SumRemove ==
    ASSUME NEW S, IsFiniteSet(S), NEW f, \A x \in S : f[x] \in Int, NEW a \in S
    PROVE  Total(f, S) = f[a] + Total(f, S \ {a})
<1>0. PICK g \in [SUBSET S -> Int] : SumTable(g, f, S)
  BY SumOfSubsets
<1>1. IsSum(g, f, S) /\ \A s \in SUBSET S : Total(f, s) = g[s]
  BY <1>0 DEF SumTable
<1> DEFINE G == {s \in SUBSET S : \A b \in s : g[s] = f[b] + g[s \ {b}]}
<1>2. \A s \in SUBSET S : s # {} => g[s] = f[First(s)] + g[s \ {First(s)}]
  BY <1>1 DEF IsSum
<1>3. ASSUME NEW s \in SUBSET S, \A u \in SUBSET s : u # s => u \in G
      PROVE  s \in G
  <2> SUFFICES ASSUME NEW b \in s PROVE g[s] = f[b] + g[s \ {b}]
    OBVIOUS
  <2> DEFINE c == First(s)
  <2>1. c \in s
    BY FirstIn
  <2>2. g[s] = f[c] + g[s \ {c}]
    BY <1>2
  <2>3. CASE b = c
    BY <2>2, <2>3
  <2>4. CASE b # c
    <3> HIDE DEF c
    <3>1. s \ {c} \in SUBSET s /\ s \ {c} # s /\ b \in s \ {c}
      BY <2>1, <2>4
    <3>2. s \ {b} \in SUBSET s /\ s \ {b} # s /\ c \in s \ {b}
      BY <2>1, <2>4
    <3>3. g[s \ {c}] = f[b] + g[(s \ {c}) \ {b}]
      BY <3>1, <1>3
    <3>4. g[s \ {b}] = f[c] + g[(s \ {b}) \ {c}]
      BY <3>2, <1>3
    <3>5. (s \ {c}) \ {b} = (s \ {b}) \ {c}
      OBVIOUS
    <3>6. f[b] \in Int /\ f[c] \in Int /\ g[(s \ {b}) \ {c}] \in Int
      BY <1>1, <2>1
    <3>7. g[s] = f[c] + (f[b] + g[(s \ {b}) \ {c}])
      BY <2>2, <3>3, <3>5
    <3>8. \A i, j, k \in Int : i + (j + k) = j + (i + k)
      OBVIOUS
    <3> QED BY <3>4, <3>6, <3>7, <3>8
  <2> QED BY <2>3, <2>4
<1>4. \A s \in SUBSET S : s \in G
  <2> HIDE DEF G
  <2> QED BY <1>3, SubsetInduction
<1> QED BY <1>1, <1>4

\* When one holder's balance changes, the total changes by the difference.
LEMMA SumUpdate ==
    ASSUME NEW S, IsFiniteSet(S), NEW f, NEW e, NEW a \in S,
           \A x \in S : f[x] \in Int /\ e[x] \in Int,
           \A x \in S \ {a} : f[x] = e[x]
    PROVE  Total(e, S) = Total(f, S) + (e[a] - f[a])
<1>1. Total(f, S) = f[a] + Total(f, S \ {a}) /\ Total(e, S) = e[a] + Total(e, S \ {a})
  BY SumRemove
<1>2. IsFiniteSet(S \ {a})
  BY FS_Subset
<1>3. Total(f, S \ {a}) = Total(e, S \ {a}) /\ Total(f, S \ {a}) \in Int
  BY <1>2, SumSame, SumInt
<1> QED BY <1>1, <1>3

\* The sum over the ones chosen: of the tokens of the bonded validators, it is
\* the sum over all with zero for the others.
LEMMA SumChosen ==
    ASSUME NEW S, IsFiniteSet(S), NEW U \in SUBSET S, NEW f, NEW e,
           \A x \in S : f[x] \in Int,
           \A x \in S : e[x] = IF x \in U THEN f[x] ELSE 0
    PROVE  Total(f, U) = Total(e, S)
<1> DEFINE G == {s \in SUBSET S : Total(f, U \cap s) = Total(e, s)}
<1>0. \A x \in S : e[x] \in Int
  OBVIOUS
<1>1. ASSUME NEW s \in SUBSET S, \A u \in SUBSET s : u # s => u \in G
      PROVE  s \in G
  <2>1. CASE s = {}
    <3>1. U \cap s = {}
      BY <2>1
    <3> QED BY <2>1, <3>1, SumEmpty
  <2>2. CASE s # {}
    <3>1. PICK a \in s : TRUE
      BY <2>2
    <3>2. IsFiniteSet(s) /\ IsFiniteSet(U \cap s)
      BY FS_Subset
    <3>3. Total(e, s) = e[a] + Total(e, s \ {a})
      BY <1>0, <3>2, SumRemove
    <3>4. Total(f, U \cap (s \ {a})) = Total(e, s \ {a})
      BY <1>1
    <3>5. Total(f, U \cap (s \ {a})) \in Int
      <4>1. IsFiniteSet(U \cap (s \ {a}))
        BY FS_Subset
      <4>2. \A x \in U \cap (s \ {a}) : f[x] \in Int
        OBVIOUS
      <4> QED BY <4>1, <4>2, SumInt
    <3>6. CASE a \in U
      <4>1. a \in U \cap s /\ \A x \in U \cap s : f[x] \in Int
        BY <3>6
      <4>2. Total(f, U \cap s) = f[a] + Total(f, (U \cap s) \ {a})
        BY <3>2, <4>1, SumRemove
      <4>3. (U \cap s) \ {a} = U \cap (s \ {a})
        OBVIOUS
      <4>4. e[a] = f[a]
        BY <3>6
      <4>5. Total(f, U \cap s) = Total(e, s)
        BY <3>3, <3>4, <4>2, <4>3, <4>4
      <4> QED BY <4>5
    <3>7. CASE a \notin U
      <4>1. U \cap s = U \cap (s \ {a})
        BY <3>7
      <4>2. e[a] = 0
        BY <3>7
      <4>3. Total(f, U \cap s) = Total(f, U \cap (s \ {a}))
        BY <4>1
      <4>4. Total(e, s \ {a}) \in Int
        BY <3>4, <3>5
      <4>5. Total(e, s) = Total(e, s \ {a})
        BY <3>3, <4>2, <4>4
      <4>6. Total(f, U \cap s) = Total(e, s)
        BY <3>4, <4>3, <4>5
      <4> QED BY <4>6
    <3> QED BY <3>6, <3>7
  <2> QED BY <2>1, <2>2
<1>2. \A s \in SUBSET S : s \in G
  <2> HIDE DEF G
  <2> QED BY <1>1, SubsetInduction
<1>3. U \cap S = U
  OBVIOUS
<1> QED BY <1>2, <1>3

\* Sums add up: what the validators that are bonded and those that leave have
\* is the sum of the two.
LEMMA SumAdd ==
    ASSUME NEW S, IsFiniteSet(S), NEW f, NEW e, NEW h,
           \A x \in S : f[x] \in Int /\ e[x] \in Int /\ h[x] = f[x] + e[x]
    PROVE  Total(h, S) = Total(f, S) + Total(e, S)
<1> DEFINE G == {s \in SUBSET S : Total(h, s) = Total(f, s) + Total(e, s)}
<1>0. \A x \in S : f[x] \in Int /\ e[x] \in Int /\ h[x] \in Int
  OBVIOUS
<1>1. ASSUME NEW s \in SUBSET S, \A u \in SUBSET s : u # s => u \in G
      PROVE  s \in G
  <2>1. CASE s = {}
    BY <2>1, SumEmpty
  <2>2. CASE s # {}
    <3>1. PICK a \in s : TRUE
      BY <2>2
    <3>2. IsFiniteSet(s) /\ IsFiniteSet(s \ {a})
      BY FS_Subset
    <3>3. /\ Total(h, s) = h[a] + Total(h, s \ {a})
          /\ Total(f, s) = f[a] + Total(f, s \ {a})
          /\ Total(e, s) = e[a] + Total(e, s \ {a})
      BY <1>0, <3>2, SumRemove
    <3>4. Total(h, s \ {a}) = Total(f, s \ {a}) + Total(e, s \ {a})
      BY <1>1
    <3>5. Total(f, s \ {a}) \in Int /\ Total(e, s \ {a}) \in Int
      BY <1>0, <3>2, SumInt
    <3>6. h[a] = f[a] + e[a] /\ f[a] \in Int /\ e[a] \in Int
      OBVIOUS
    <3> QED BY <3>3, <3>4, <3>5, <3>6
  <2> QED BY <2>1, <2>2
<1>2. \A s \in SUBSET S : s \in G
  <2> HIDE DEF G
  <2> QED BY <1>1, SubsetInduction
<1> QED BY <1>2

\* One of several amounts is no more than their sum: a delegation has no more
\* shares than the validator.
LEMMA SumAtLeast ==
    ASSUME NEW S, IsFiniteSet(S), NEW f, \A x \in S : f[x] \in Nat, NEW a \in S
    PROVE  f[a] <= Total(f, S) /\ Total(f, S) \in Nat
<1>1. IsFiniteSet(S \ {a}) /\ \A x \in S : f[x] \in Int
  BY FS_Subset
<1>2. Total(f, S) = f[a] + Total(f, S \ {a})
  BY <1>1, SumRemove
<1>3. Total(f, S \ {a}) \in Nat
  BY <1>1, SumNat
<1> QED BY <1>2, <1>3

\* What is read from finitely many records or keys is no more than they are.
LEMMA ImageFinite ==
    ASSUME NEW S, IsFiniteSet(S), NEW f, NEW T, T = {f[x] : x \in S}
    PROVE  IsFiniteSet(T) /\ Cardinality(T) <= Cardinality(S)
<1> DEFINE g == [x \in S |-> f[x]]
<1>1. g \in Surjection(S, T)
  BY DEF Surjection
<1> HIDE DEF g
<1> QED BY <1>1, FS_Surjection

\* A sum over answers is the sum over what they are about, when no two are about
\* the same.
LEMMA SumImage ==
    ASSUME NEW S, IsFiniteSet(S), NEW R, \A x, y \in S : R[x] = R[y] => x = y,
           NEW A, A = {R[x] : x \in S}, NEW f, NEW e,
           \A x \in S : e[x] \in Int /\ f[R[x]] = e[x]
    PROVE  Total(f, A) = Total(e, S)
<1> DEFINE Im(s) == {R[x] : x \in s}
           G == {s \in SUBSET S : Total(f, Im(s)) = Total(e, s)}
<1>0. \A s \in SUBSET S : IsFiniteSet(s) /\ IsFiniteSet(Im(s))
  <2> SUFFICES ASSUME NEW s \in SUBSET S PROVE IsFiniteSet(s) /\ IsFiniteSet(Im(s))
    OBVIOUS
  <2>1. IsFiniteSet(s)
    BY FS_Subset
  <2> DEFINE T == Im(s)
  <2>2. T = {R[x] : x \in s}
    OBVIOUS
  <2> HIDE DEF T, Im
  <2>3. IsFiniteSet(T)
    BY <2>1, <2>2, ImageFinite
  <2> QED BY <2>1, <2>3 DEF T
<1>1. ASSUME NEW s \in SUBSET S, \A u \in SUBSET s : u # s => u \in G
      PROVE  s \in G
  <2>1. CASE s = {}
    <3>1. Im(s) = {}
      BY <2>1
    <3> QED BY <2>1, <3>1, SumEmpty
  <2>2. CASE s # {}
    <3>1. PICK a \in s : TRUE
      BY <2>2
    <3> DEFINE T == Im(s)
               u == s \ {a}
    <3>2. IsFiniteSet(T) /\ IsFiniteSet(s) /\ R[a] \in T
      BY <1>0
    <3>3. \A y \in T : f[y] \in Int
      OBVIOUS
    <3>4. \A x \in s : e[x] \in Int
      OBVIOUS
    <3>5. T \ {R[a]} = Im(u)
      OBVIOUS
    <3>6. u \in G /\ u \in SUBSET S
      BY <1>1
    <3>7. Total(f, Im(u)) = Total(e, u)
      BY <3>6
    <3> HIDE DEF T
    <3>8. Total(f, T) = f[R[a]] + Total(f, T \ {R[a]})
      BY <3>2, <3>3, SumRemove
    <3>9. Total(e, s) = e[a] + Total(e, s \ {a})
      BY <3>2, <3>4, SumRemove
    <3>10. f[R[a]] = e[a]
      OBVIOUS
    <3>11. Total(f, T) = Total(e, s)
      BY <3>5, <3>7, <3>8, <3>9, <3>10
    <3> QED BY <3>11 DEF T
  <2> QED BY <2>1, <2>2
<1>2. \A s \in SUBSET S : s \in G
  <2> HIDE DEF G
  <2> QED BY <1>1, SubsetInduction
<1>3. Total(f, Im(S)) = Total(e, S)
  BY <1>2
<1> QED BY <1>3

\* Adding up what rounds down: each of several claims b on t tokens has no more
\* than its part f of n.
LEMMA SumShares ==
    ASSUME NEW S, IsFiniteSet(S), NEW f, NEW b, NEW n \in Nat, NEW t \in Nat,
           \A x \in S : f[x] \in Nat /\ b[x] \in Nat /\ n * b[x] <= f[x] * t
    PROVE  n * Total(b, S) <= Total(f, S) * t
<1> DEFINE G == {s \in SUBSET S : n * Total(b, s) <= Total(f, s) * t}
<1>0. \A x \in S : f[x] \in Int /\ b[x] \in Int
  OBVIOUS
<1>1. ASSUME NEW s \in SUBSET S, \A u \in SUBSET s : u # s => u \in G
      PROVE  s \in G
  <2>1. CASE s = {}
    <3>1. Total(b, s) = 0 /\ Total(f, s) = 0
      BY <2>1, SumEmpty
    <3>2. n * 0 <= 0 * t
      OBVIOUS
    <3> QED BY <3>1, <3>2
  <2>2. CASE s # {}
    <3>1. PICK a \in s : TRUE
      BY <2>2
    <3> DEFINE B == Total(b, s \ {a})
               F == Total(f, s \ {a})
    <3>2. IsFiniteSet(s) /\ IsFiniteSet(s \ {a})
      BY FS_Subset
    <3>3. Total(b, s) = b[a] + B /\ Total(f, s) = f[a] + F
      BY <1>0, <3>2, SumRemove
    <3>4. B \in Nat /\ F \in Nat
      BY <3>2, SumNat
    <3>5. n * B <= F * t
      BY <1>1
    <3>6. n * b[a] <= f[a] * t /\ f[a] \in Nat /\ b[a] \in Nat
      OBVIOUS
    <3> HIDE DEF B, F
    <3>7. n * (b[a] + B) = n * b[a] + n * B /\ (f[a] + F) * t = f[a] * t + F * t
      BY <3>4, <3>6
    <3>8. n * b[a] \in Int /\ n * B \in Int /\ f[a] * t \in Int /\ F * t \in Int
      BY <3>4, <3>6
    <3>9. n * (b[a] + B) <= (f[a] + F) * t
      BY <3>5, <3>6, <3>7, <3>8
    <3>10. n * Total(b, s) <= Total(f, s) * t
      BY <3>3, <3>9
    <3> QED BY <3>10
  <2> QED BY <2>1, <2>2
<1>2. \A s \in SUBSET S : s \in G
  <2> HIDE DEF G
  <2> QED BY <1>1, SubsetInduction
<1> QED BY <1>2

\* The sum over two sets that have nothing in common.
LEMMA SumUnion ==
    ASSUME NEW S, IsFiniteSet(S), NEW T, IsFiniteSet(T), S \cap T = {},
           NEW f, \A x \in S \cup T : f[x] \in Int
    PROVE  Total(f, S \cup T) = Total(f, S) + Total(f, T)
<1> DEFINE U == S \cup T
           e == [x \in U |-> IF x \in S THEN f[x] ELSE 0]
           h == [x \in U |-> IF x \in T THEN f[x] ELSE 0]
<1>1. IsFiniteSet(U) /\ S \in SUBSET U /\ T \in SUBSET U
  BY FS_Union
<1>2. \A x \in U : /\ f[x] \in Int /\ e[x] \in Int /\ h[x] \in Int /\ f[x] = e[x] + h[x]
                   /\ e[x] = (IF x \in S THEN f[x] ELSE 0) /\ h[x] = (IF x \in T THEN f[x] ELSE 0)
  OBVIOUS
<1> HIDE DEF e, h, U
<1>3. Total(f, S) = Total(e, U) /\ Total(f, T) = Total(h, U)
  BY <1>1, <1>2, SumChosen
<1>4. Total(f, U) = Total(e, U) + Total(h, U)
  BY <1>1, <1>2, SumAdd
<1> QED BY <1>3, <1>4 DEF U

\* Pairs, seen as a column for each member of B.
Columns(A, B) == A \X B

\* The sum over pairs, column by column: over the delegations of all voters, it
\* is the sum over the validators of what the voters have in each.
LEMMA SumPairs ==
    ASSUME NEW A, IsFiniteSet(A), NEW B, IsFiniteSet(B),
           NEW f, \A x \in Columns(A, B) : f[x] \in Int,
           NEW r, \A y \in B, x \in A : r[y][x] = f[<<x, y>>],
           NEW c, \A y \in B : c[y] = Total(r[y], A)
    PROVE  Total(f, Columns(A, B)) = Total(c, B)
<1> USE DEF Columns
<1> DEFINE G == {s \in SUBSET B : Total(f, A \X s) = Total(c, s)}
<1>1. ASSUME NEW y \in B
      PROVE  c[y] \in Int /\ Total(f, A \X {y}) = c[y] /\ IsFiniteSet(A \X {y})
  <2> DEFINE R == [x \in A |-> <<x, y>>]
             P == A \X {y}
             e == r[y]
  <2>1. P = {R[x] : x \in A}
    OBVIOUS
  <2>2. \A x, z \in A : R[x] = R[z] => x = z
    OBVIOUS
  <2>3. \A x \in A : e[x] \in Int /\ f[R[x]] = e[x]
    OBVIOUS
  <2>4. c[y] = Total(e, A)
    OBVIOUS
  <2> HIDE DEF R, P, e
  <2>5. Total(f, P) = Total(e, A)
    BY <2>1, <2>2, <2>3, SumImage
  <2>6. Total(e, A) \in Int
    BY <2>3, SumInt
  <2>7. IsFiniteSet(P)
    BY <2>1, ImageFinite
  <2> QED BY <2>4, <2>5, <2>6, <2>7 DEF P
<1>2. ASSUME NEW s \in SUBSET B, \A u \in SUBSET s : u # s => u \in G
      PROVE  s \in G
  <2>1. CASE s = {}
    <3>1. A \X s = {}
      BY <2>1
    <3> QED BY <2>1, <3>1, SumEmpty
  <2>2. CASE s # {}
    <3>1. PICK y \in s : TRUE
      BY <2>2
    <3> DEFINE u == s \ {y}
               P == A \X u
               Q == A \X {y}
    <3>2. IsFiniteSet(s) /\ IsFiniteSet(u)
      BY FS_Subset
    <3>3. Total(f, P) = Total(c, u)
      BY <1>2, <3>1
    <3>4. Total(c, s) = c[y] + Total(c, u)
      <4>1. \A x \in s : c[x] \in Int
        BY <1>1
      <4> QED BY <3>1, <3>2, <4>1, SumRemove
    <3>5. P \cup Q = A \X s /\ P \cap Q = {} /\ \A x \in P \cup Q : f[x] \in Int
      BY <3>1
    <3>6. IsFiniteSet(P) /\ IsFiniteSet(Q) /\ Total(f, Q) = c[y] /\ c[y] \in Int
      BY <1>1, <3>1, <3>2, FS_Product
    <3>7. Total(c, u) \in Int
      <4>1. \A x \in u : c[x] \in Int
        BY <1>1
      <4> QED BY <3>2, <4>1, SumInt
    <3> HIDE DEF P, Q, u
    <3>8. Total(f, P \cup Q) = Total(f, P) + Total(f, Q)
      BY <3>5, <3>6, SumUnion
    <3>9. Total(f, P \cup Q) = Total(c, s)
      BY <3>3, <3>4, <3>6, <3>7, <3>8
    <3>10. Total(f, A \X s) = Total(c, s)
      <4>1. P \cup Q = A \X s
        BY <3>5
      <4> QED BY <3>9, <4>1, Zenon
    <3> QED BY <3>10
  <2> QED BY <2>1, <2>2
<1>3. \A s \in SUBSET B : s \in G
  <2> HIDE DEF G
  <2> QED BY <1>2, SubsetInduction
<1> QED BY <1>3

(***************************************************************************)
(* Loops: a loop over 1..n is a function on 0..n, the state after each     *)
(* step.  The state stays in a set that every step maps into itself.       *)
(***************************************************************************)

\* Of a finite set of numbers one is the least: the first step that goes wrong.
LEMMA LeastNumber ==
    ASSUME NEW n \in Nat
    PROVE  \A T \in SUBSET (0..n) : T # {} => \E x \in T : \A y \in T : x <= y
<1> DEFINE G == {T \in SUBSET (0..n) : T # {} => \E x \in T : \A y \in T : x <= y}
<1>1. ASSUME NEW T \in SUBSET (0..n), \A U \in SUBSET T : U # T => U \in G
      PROVE  T \in G
  <2> SUFFICES ASSUME T # {} PROVE \E x \in T : \A y \in T : x <= y
    OBVIOUS
  <2>1. PICK z \in T : TRUE
    OBVIOUS
  <2>2. T \ {z} \in G
    BY <1>1, <2>1
  <2>3. CASE T \ {z} = {}
    BY <2>1, <2>3
  <2>4. CASE T \ {z} # {}
    <3>1. PICK x \in T \ {z} : \A y \in T \ {z} : x <= y
      BY <2>2, <2>4
    <3> QED BY <2>1, <3>1
  <2> QED BY <2>3, <2>4
<1>2. IsFiniteSet(0..n)
  BY FS_Interval
<1>3. \A T \in SUBSET (0..n) : T \in G
  <2> HIDE DEF G
  <2> QED BY <1>1, <1>2, SubsetInduction
<1> QED BY <1>3

\* What holds at first and is kept by every step of a loop over entries,
\* transactions or slots holds after each; G is the set of steps after which it
\* does.
LEMMA LoopInduction ==
    ASSUME NEW n \in Nat, NEW G, 0 \in G, \A i \in 1..n : i - 1 \in G => i \in G
    PROVE  \A i \in 0..n : i \in G
<1> SUFFICES ASSUME NEW k \in 0..n, k \notin G PROVE FALSE
  OBVIOUS
<1> DEFINE bad == {i \in Nat : i <= n /\ i \notin G}
<1>1. \E x \in bad : \A y \in bad : x <= y
  <2>1. bad \in SUBSET (0..n) /\ bad # {}
    OBVIOUS
  <2> HIDE DEF bad
  <2> QED BY <2>1, LeastNumber
<1>2. PICK x \in bad : \A y \in bad : x <= y
  BY <1>1
<1>3. x # 0
  BY <1>2
<1>4. x - 1 \in Nat /\ x - 1 <= n /\ x \in 1..n
  BY <1>2, <1>3
<1>5. x - 1 \in G
  <2> SUFFICES ASSUME x - 1 \notin G PROVE FALSE
    OBVIOUS
  <2>1. x - 1 \in bad
    BY <1>4
  <2> QED BY <1>2, <1>4, <2>1
<1> QED BY <1>2, <1>4, <1>5

IsLoop(f, n, V, base, step) ==
    /\ f \in [0..n -> V] /\ f[0] = base
    /\ \A i \in 1..n : f[i] = step[<<i, f[i - 1]>>]

\* A loop whose steps map V into itself has a state in V after each step.
LEMMA LoopExists ==
    ASSUME NEW n \in Nat, NEW V, NEW base \in V, NEW step \in [(1..n) \X V -> V]
    PROVE  \E f : IsLoop(f, n, V, base, step)
<1> DEFINE IsRun(f, k) == /\ f \in [0..k -> V] /\ f[0] = base
                          /\ \A i \in 1..k : f[i] = step[<<i, f[i - 1]>>]
           G == {k \in 0..n : \E f : IsRun(f, k)}
<1>0. \A i \in 1..n, x \in V : step[<<i, x>>] \in V
  OBVIOUS
<1>1. 0 \in G
  <2> DEFINE f == [i \in 0..0 |-> base]
  <2>1. IsRun(f, 0)
    OBVIOUS
  <2>2. 0 \in 0..n
    OBVIOUS
  <2> HIDE DEF IsRun, f
  <2> QED BY <2>1, <2>2
<1>2. ASSUME NEW k \in 1..n, k - 1 \in G PROVE k \in G
  <2>1. PICK f : IsRun(f, k - 1)
    BY <1>2
  <2> DEFINE h == [i \in 0..k |-> IF i = k THEN step[<<k, f[k - 1]>>] ELSE f[i]]
  <2>2. k \in Int /\ k > 0 /\ k - 1 \in 0..(k - 1)
    OBVIOUS
  <2>3. f[k - 1] \in V
    BY <2>1, <2>2
  <2>4. \A i \in 0..k : i # k => i \in 0..(k - 1) /\ f[i] \in V
    BY <2>1, <2>2
  <2>5. h \in [0..k -> V]
    BY <1>0, <2>3, <2>4
  <2>6. h[0] = base
    BY <2>1, <2>2
  <2>7. ASSUME NEW i \in 1..k PROVE h[i] = step[<<i, h[i - 1]>>]
    <3>1. i \in 0..k /\ i - 1 \in 0..k /\ i - 1 # k
      BY <2>2
    <3>2. h[i - 1] = f[i - 1]
      BY <3>1
    <3>3. CASE i = k
      BY <3>1, <3>2, <3>3
    <3>4. CASE i # k
      <4>1. i \in 1..(k - 1)
        BY <2>2, <3>4
      <4>2. f[i] = step[<<i, f[i - 1]>>]
        BY <2>1, <4>1
      <4>3. h[i] = f[i]
        BY <3>1, <3>4
      <4> QED BY <3>2, <4>2, <4>3
    <3> QED BY <3>3, <3>4
  <2>8. IsRun(h, k)
    BY <2>5, <2>6, <2>7
  <2>9. k \in 0..n
    OBVIOUS
  <2> HIDE DEF IsRun, h
  <2> QED BY <2>8, <2>9
<1>3. n \in G
  <2>1. \A i \in 0..n : i \in G
    <3> HIDE DEF G
    <3> QED BY <1>1, <1>2, LoopInduction
  <2>2. n \in 0..n
    OBVIOUS
  <2> QED BY <2>1, <2>2
<1>4. PICK f : IsRun(f, n)
  BY <1>3
<1>5. IsLoop(f, n, V, base, step)
  BY <1>4 DEF IsLoop
<1> QED BY <1>5
=============================================================================
