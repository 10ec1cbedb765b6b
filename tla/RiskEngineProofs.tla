-------------------------- MODULE RiskEngineProofs --------------------------
(***************************************************************************)
(* What risk/engine.py promises of any proposal, for every portfolio,      *)
(* price, stop and setting of the limits.                                  *)
(***************************************************************************)
EXTENDS RiskEngine, FiniteSetTheorems, WellFoundedInduction, TLAPS

-----------------------------------------------------------------------------
(* Rounding down                                                           *)

\* A quotient that is rounded down, times the divisor, is no more than the
\* dividend: what makes a cap divided by a price a quantity within the cap.
LEMMA QuotientFits ==
  ASSUME NEW a \in Int, NEW b \in Nat \ {0}
  PROVE  a \div b \in Int /\ (a \div b) * b <= a
  BY SMT

\* So does anything that is no more than the quotient.
LEMMA WithinQuotient ==
  ASSUME NEW a \in Int, NEW b \in Nat \ {0}, NEW q \in Int, q <= a \div b
  PROVE  q * b <= a
<1>1. a \div b \in Int /\ (a \div b) * b <= a
  BY QuotientFits
<1>2. ASSUME NEW d \in Int, q <= d PROVE q * b <= d * b
  BY <1>2
<1> QED BY <1>1, <1>2

\* The increment only ever takes from a quantity (snap_to_increment).
LEMMA SnapTakes ==
  ASSUME NEW qty \in Int, NEW increment \in Nat
  PROVE  /\ snap_to_increment(qty, increment) \in Int
         /\ snap_to_increment(qty, increment) <= qty
  BY QuotientFits DEF snap_to_increment

LEMMA SmallerIsBoth ==
  ASSUME NEW a \in Int, NEW b \in Int
  PROVE  smaller(a, b) \in Int /\ smaller(a, b) <= a /\ smaller(a, b) <= b
  BY DEF smaller

-----------------------------------------------------------------------------
(* Sums over the watchlist                                                 *)

\* A set of natural numbers has a least one.
LEMMA LeastNat ==
  ASSUME NEW T \in SUBSET Nat, T # {}
  PROVE  \E n \in T : \A m \in T : n <= m
<1>1. PICK n \in T : \A m \in T : ~ (<<m, n>> \in OpToRel(<, Nat))
  BY NatLessThanWellFounded, WFMin
<1>2. ASSUME NEW m \in T PROVE n <= m
  <2>1. ~(m < n)
    BY <1>1 DEF OpToRel
  <2> QED BY <2>1
<1> QED BY <1>2

\* The element that a fold takes out of a set of symbols first.
first_of(s) == CHOOSE x \in s : TRUE

\* The sets of at most n of the symbols S.
UpTo(S, n) == {s \in SUBSET S : Cardinality(s) <= n}

\* g has the partial sums of f over the sets of D.
Accumulates(g, f, D) ==
  \A s \in D : g[s] = IF s = {} THEN 0 ELSE f[first_of(s)] + g[s \ {first_of(s)}]

LEMMA FirstOf ==
  ASSUME NEW s, s # {}
  PROVE  first_of(s) \in s
BY DEF first_of

\* Without the first one, a set is one smaller.
LEMMA OneSmaller ==
  ASSUME NEW S, IsFiniteSet(S), NEW s \in SUBSET S, s # {}
  PROVE  /\ s \ {first_of(s)} \in SUBSET S
         /\ Cardinality(s) \in Nat \ {0}
         /\ Cardinality(s \ {first_of(s)}) = Cardinality(s) - 1
<1>1. IsFiniteSet(s)
  BY FS_Subset
<1>2. first_of(s) \in s
  BY FirstOf
<1>3. Cardinality(s) \in Nat /\ Cardinality(s) # 0
  BY <1>1, FS_CardinalityType, FS_EmptySet
<1>4. Cardinality(s \ {first_of(s)}) = Cardinality(s) - 1
  BY <1>1, <1>2, FS_RemoveElement
<1> QED BY <1>3, <1>4

\* Partial sums exist: those of larger sets from those of smaller ones.
LEMMA PartialSumsUpTo ==
  ASSUME NEW S, IsFiniteSet(S), NEW f \in [S -> Int], NEW n \in Nat
  PROVE  \E g \in [UpTo(S, n) -> Int] : Accumulates(g, f, UpTo(S, n))
<1> DEFINE Has(k) == \E g \in [UpTo(S, k) -> Int] : Accumulates(g, f, UpTo(S, k))
           T == {k \in Nat : ~Has(k)}
<1>1. Has(0)
  <2> DEFINE g == [s \in UpTo(S, 0) |-> 0]
  <2>1. g \in [UpTo(S, 0) -> Int]
    OBVIOUS
  <2>2. ASSUME NEW s \in UpTo(S, 0) PROVE s = {}
    <3>1. IsFiniteSet(s) /\ Cardinality(s) <= 0
      BY FS_Subset DEF UpTo
    <3>2. Cardinality(s) = 0
      BY <3>1, FS_CardinalityType
    <3> QED BY <3>1, <3>2, FS_EmptySet
  <2>3. Accumulates(g, f, UpTo(S, 0))
    BY <2>2 DEF Accumulates
  <2> QED BY <2>1, <2>3
<1>2. ASSUME NEW k \in Nat, Has(k) PROVE Has(k + 1)
  <2>1. PICK h \in [UpTo(S, k) -> Int] : Accumulates(h, f, UpTo(S, k))
    BY <1>2
  <2> DEFINE g == [s \in UpTo(S, k + 1) |->
                     IF s = {} THEN 0 ELSE f[first_of(s)] + h[s \ {first_of(s)}]]
  <2>2. ASSUME NEW s \in UpTo(S, k + 1), s # {}
        PROVE  /\ first_of(s) \in S
               /\ s \ {first_of(s)} \in UpTo(S, k)
               /\ s \ {first_of(s)} \in UpTo(S, k + 1)
    <3>1. s \in SUBSET S /\ Cardinality(s) <= k + 1
      BY DEF UpTo
    <3>2. /\ s \ {first_of(s)} \in SUBSET S /\ Cardinality(s) \in Nat
          /\ Cardinality(s \ {first_of(s)}) = Cardinality(s) - 1
      BY <2>2, <3>1, OneSmaller
    <3>3. first_of(s) \in S
      BY <2>2, <3>1, FirstOf
    <3> QED BY <3>1, <3>2, <3>3 DEF UpTo
  <2>3. ASSUME NEW s \in UpTo(S, k) PROVE g[s] = h[s]
    <3>1. s \in UpTo(S, k + 1)
      <4>1. s \in SUBSET S /\ Cardinality(s) <= k
        BY DEF UpTo
      <4>2. Cardinality(s) \in Nat
        BY <4>1, FS_Subset, FS_CardinalityType
      <4> QED BY <4>1, <4>2 DEF UpTo
    <3>2. g[s] = IF s = {} THEN 0 ELSE f[first_of(s)] + h[s \ {first_of(s)}]
      BY <3>1
    <3> QED BY <2>1, <3>2 DEF Accumulates
  <2>4. g \in [UpTo(S, k + 1) -> Int]
    BY <2>2
  <2>5. ASSUME NEW s \in UpTo(S, k + 1)
        PROVE  g[s] = IF s = {} THEN 0 ELSE f[first_of(s)] + g[s \ {first_of(s)}]
    <3>1. CASE s = {}
      BY <3>1
    <3>2. CASE s # {}
      <4>1. g[s] = f[first_of(s)] + h[s \ {first_of(s)}]
        BY <3>2
      <4>2. g[s \ {first_of(s)}] = h[s \ {first_of(s)}]
        <5> HIDE DEF g
        <5> QED BY <3>2, <2>2, <2>3
      <4> HIDE DEF g
      <4> QED BY <3>2, <4>1, <4>2
    <3> QED BY <3>1, <3>2
  <2> HIDE DEF g
  <2>6. Accumulates(g, f, UpTo(S, k + 1))
    BY <2>5 DEF Accumulates
  <2> QED BY <2>4, <2>6
<1>3. T = {}
  <2> SUFFICES ASSUME T # {} PROVE FALSE
    OBVIOUS
  <2>1. PICK k \in T : \A m \in T : k <= m
    <3>1. T \in SUBSET Nat
      OBVIOUS
    <3> HIDE DEF T
    <3> QED BY <3>1, LeastNat
  <2> HIDE DEF Has
  <2>2. k # 0 /\ k \in Nat /\ ~Has(k)
    BY <1>1
  <2>3. k - 1 \in Nat /\ k - 1 \notin T
    BY <2>1, <2>2
  <2>4. Has(k - 1)
    BY <2>3
  <2>5. Has((k - 1) + 1)
    BY <2>3, <2>4, <1>2
  <2> QED BY <2>2, <2>5
<1> HIDE DEF Has
<1>4. Has(n)
  BY <1>3
<1> QED BY <1>4 DEF Has

LEMMA PartialSums ==
  ASSUME NEW S, IsFiniteSet(S), NEW f \in [S -> Int]
  PROVE  \E g \in [SUBSET S -> Int] : Accumulates(g, f, SUBSET S)
<1>1. Cardinality(S) \in Nat
  BY FS_CardinalityType
<1>2. UpTo(S, Cardinality(S)) = SUBSET S
  BY FS_Subset DEF UpTo
<1>3. PICK n \in Nat : n = Cardinality(S)
  BY <1>1
<1>4. \E g \in [UpTo(S, n) -> Int] : Accumulates(g, f, UpTo(S, n))
  BY PartialSumsUpTo
<1> QED BY <1>2, <1>3, <1>4

\* What holds of the sums over the smaller subsets holds of all: whatever
\* fails, fails of some smallest subset.
LEMMA SmallestSubset ==
  ASSUME NEW S, IsFiniteSet(S), NEW B \in SUBSET (SUBSET S), B # {}
  PROVE  \E s \in B : s = {} \/ s \ {first_of(s)} \in (SUBSET S) \ B
<1>1. IsWellFoundedOn(StrictSubsetOrdering(S), FiniteSubsetsOf(S))
  BY FS_StrictSubsetOrderingWellFounded
<1>2. B \subseteq FiniteSubsetsOf(S)
  BY FS_Subset DEF FiniteSubsetsOf
<1>3. PICK s \in B : \A t \in B : ~(<<t, s>> \in StrictSubsetOrdering(S))
  BY <1>1, <1>2, WFMin
<1>4. ASSUME s # {} PROVE s \ {first_of(s)} \in (SUBSET S) \ B
  <2>1. first_of(s) \in s
    BY <1>4, FirstOf
  <2> DEFINE t == s \ {first_of(s)}
  <2>2. t \in SUBSET S /\ t \subseteq s /\ t # s
    BY <2>1
  <2> HIDE DEF t
  <2>3. <<t, s>> \in StrictSubsetOrdering(S)
    BY <2>2 DEF StrictSubsetOrdering
  <2>4. t \notin B
    BY <1>3, <2>3
  <2> QED BY <2>2, <2>4 DEF t
<1> QED BY <1>4

\* The total of integers is the last of their partial sums.
LEMMA TotalIsPartialSum ==
  ASSUME NEW f \in [Symbols -> Int]
  PROVE  \E g \in [SUBSET Symbols -> Int] :
           Accumulates(g, f, SUBSET Symbols) /\ total(f) = g[Symbols]
<1> DEFINE body(g, s) == IF s = {} THEN 0 ELSE f[CHOOSE x \in s : TRUE] + g[s \ {CHOOSE x \in s : TRUE}]
           g0 == CHOOSE g : g = [s \in SUBSET Symbols |-> body(g, s)]
<1>1. \E g : g = [s \in SUBSET Symbols |-> body(g, s)]
  <2>1. PICK g \in [SUBSET Symbols -> Int] : Accumulates(g, f, SUBSET Symbols)
    BY SymbolsAssumption, PartialSums
  <2>2. \A s \in SUBSET Symbols : g[s] = body(g, s)
    BY <2>1 DEF Accumulates, first_of
  <2> HIDE DEF body
  <2>3. g = [s \in SUBSET Symbols |-> body(g, s)]
    BY <2>2
  <2> QED BY <2>3
<1>2. g0 = [s \in SUBSET Symbols |-> body(g0, s)]
  <2> HIDE DEF body
  <2> QED BY <1>1
<1>3. DOMAIN f = Symbols
  OBVIOUS
<1>4. total(f) = g0[Symbols]
  BY <1>3 DEF total, FoldFunction, FoldFunctionOnSet, MapThenFoldSet
<1> HIDE DEF g0
<1>5. Accumulates(g0, f, SUBSET Symbols)
  BY <1>2 DEF Accumulates, first_of
<1>6. ASSUME NEW s \in SUBSET Symbols PROVE g0[s] \in Int
  <2> SUFFICES ASSUME g0[s] \notin Int PROVE FALSE
    OBVIOUS
  <2> DEFINE B == {t \in SUBSET Symbols : g0[t] \notin Int}
  <2>1. PICK t \in B : t = {} \/ t \ {first_of(t)} \in (SUBSET Symbols) \ B
    <3>1. B \in SUBSET (SUBSET Symbols) /\ B # {}
      OBVIOUS
    <3> HIDE DEF B
    <3> QED BY <3>1, SymbolsAssumption, SmallestSubset
  <2>2. CASE t = {}
    BY <2>2, <1>5 DEF Accumulates
  <2>3. CASE t # {}
    <3>1. first_of(t) \in Symbols
      BY <2>3, FirstOf
    <3>2. f[first_of(t)] \in Int /\ g0[t \ {first_of(t)}] \in Int
      BY <3>1, <2>1, <2>3
    <3>3. g0[t] = f[first_of(t)] + g0[t \ {first_of(t)}]
      BY <2>3, <1>5 DEF Accumulates
    <3> QED BY <3>2, <3>3
  <2> QED BY <2>2, <2>3
<1>7. g0 \in [SUBSET Symbols -> Int]
  BY <1>2, <1>6
<1> QED BY <1>4, <1>5, <1>7

LEMMA TotalType ==
  ASSUME NEW f \in [Symbols -> Int]
  PROVE  total(f) \in Int
BY TotalIsPartialSum

\* A total moves by what one of its numbers moves by.
LEMMA TotalMoves ==
  ASSUME NEW f \in [Symbols -> Int], NEW h \in [Symbols -> Int], NEW x \in Symbols,
         \A y \in Symbols \ {x} : h[y] = f[y]
  PROVE  total(h) = total(f) + (h[x] - f[x])
<1>1. PICK v \in Int : v = h[x]
  OBVIOUS
<1> DEFINE by(s) == IF x \in s THEN v - f[x] ELSE 0
<1>2. PICK a \in [SUBSET Symbols -> Int] :
        Accumulates(a, f, SUBSET Symbols) /\ total(f) = a[Symbols]
  BY TotalIsPartialSum
<1>3. PICK b \in [SUBSET Symbols -> Int] :
        Accumulates(b, h, SUBSET Symbols) /\ total(h) = b[Symbols]
  BY TotalIsPartialSum
<1>4. ASSUME NEW s \in SUBSET Symbols PROVE b[s] = a[s] + by(s)
  <2> SUFFICES ASSUME b[s] # a[s] + by(s) PROVE FALSE
    OBVIOUS
  <2> DEFINE B == {t \in SUBSET Symbols : b[t] # a[t] + by(t)}
  <2>1. PICK t \in B : t = {} \/ t \ {first_of(t)} \in (SUBSET Symbols) \ B
    <3>1. B \in SUBSET (SUBSET Symbols) /\ B # {}
      OBVIOUS
    <3> HIDE DEF B
    <3> QED BY <3>1, SymbolsAssumption, SmallestSubset
  <2>2. CASE t = {}
    <3>1. a[{}] = 0 /\ b[{}] = 0
      BY <1>2, <1>3 DEF Accumulates
    <3> QED BY <2>2, <3>1
  <2>3. CASE t # {}
    <3> DEFINE y == first_of(t)
               u == t \ {y}
    <3>1. y \in t /\ y \in Symbols /\ u \in SUBSET Symbols
      BY <2>3, FirstOf
    <3>2. a[t] = f[y] + a[u] /\ b[t] = h[y] + b[u]
      BY <1>2, <1>3, <2>3 DEF Accumulates
    <3>3. b[u] = a[u] + by(u)
      BY <2>1, <2>3
    <3>4. f[y] \in Int /\ a[u] \in Int /\ f[x] \in Int
      BY <3>1, <1>2
    <3>5. b[t] # a[t] + by(t)
      OBVIOUS
    <3>6. CASE y = x
      <4>1. x \notin u /\ x \in t
        BY <3>1, <3>6
      <4>2. by(u) = 0 /\ by(t) = v - f[x] /\ h[y] = v
        BY <4>1, <1>1, <3>6
      <4> HIDE DEF by, u, y
      <4> QED BY <3>2, <3>3, <3>4, <3>5, <3>6, <4>2
    <3>7. CASE y # x
      <4>1. by(u) = by(t) /\ h[y] = f[y] /\ by(t) \in Int
        BY <1>1, <3>1, <3>4, <3>7
      <4> HIDE DEF by, u, y
      <4> QED BY <3>2, <3>3, <3>4, <3>5, <4>1
    <3> QED BY <3>6, <3>7
  <2> QED BY <2>2, <2>3
<1>5. by(Symbols) = v - f[x]
  OBVIOUS
<1>6. b[Symbols] = a[Symbols] + by(Symbols)
  BY <1>4
<1> QED BY <1>1, <1>2, <1>3, <1>5, <1>6

LEMMA GrossType ==
  ASSUME NEW portfolio \in PortfolioState
  PROVE  gross_exposure(portfolio) \in Int
<1> DEFINE f == [s \in Symbols |-> magnitude(portfolio.positions[s].value)]
<1>1. f \in [Symbols -> Int]
  BY DEF PortfolioState, Position, magnitude
<1> HIDE DEF f
<1>2. total(f) \in Int
  BY <1>1, TotalType
<1> QED BY <1>2 DEF gross_exposure, f

-----------------------------------------------------------------------------
(* The risk engine                                                         *)

\* An exit is let through, or not, whatever the session says: neither the
\* kill-switch nor a cooldown ever holds one back (evaluate).
THEOREM ExitIgnoresSession ==
  ASSUME NEW p, NEW f, NEW portfolio, NEW asset, NEW news_risk,
         NEW session, NEW other, p.action = "SELL"
  PROVE  approved(p, f, portfolio, asset, news_risk, session)
           <=> approved(p, f, portfolio, asset, news_risk, other)
  BY DEF approved, gates_pass, session_allows

\* An exit never sells more than is held (evaluate).
THEOREM ExitWithinHolding ==
  ASSUME NEW p \in TradeProposal, NEW f, NEW portfolio \in PortfolioState,
         NEW asset \in AssetSpec, NEW news_risk, NEW session,
         p.action = "SELL", approved(p, f, portfolio, asset, news_risk, session)
  PROVE  approved_qty(p, f, portfolio, asset) \in 1..portfolio.positions[p.symbol].qty
<1>1. /\ portfolio.positions[p.symbol].qty \in Nat
      /\ asset.increment \in Nat
  BY DEF TradeProposal, PortfolioState, Position, AssetSpec
<1>2. exit_qty(p, portfolio, asset) > 0
  BY DEF approved, exit_allowed
<1>3. /\ exit_qty(p, portfolio, asset) \in Int
      /\ exit_qty(p, portfolio, asset) <= portfolio.positions[p.symbol].qty
  <2> DEFINE n == portfolio.positions[p.symbol].qty
             by == asset.increment
  <2>1. n \in Int /\ by \in Nat
    BY <1>1
  <2>2. exit_qty(p, portfolio, asset) = snap_to_increment(n, by)
    BY DEF exit_qty
  <2> HIDE DEF n, by
  <2>3. /\ snap_to_increment(n, by) \in Int
        /\ snap_to_increment(n, by) <= n
    BY <2>1, SnapTakes
  <2> QED BY <2>2, <2>3 DEF n
<1> QED BY <1>1, <1>2, <1>3 DEF approved_qty

\* The types of what the sizing of an entry reads.
LEMMA SizingTypes ==
  ASSUME NEW p \in TradeProposal, NEW f \in FeatureBundle, NEW portfolio \in PortfolioState,
         inputs_valid(f, portfolio)
  PROVE  /\ f.close \in Nat \ {0} /\ f.half_atr \in Nat \ {0}
         /\ stop_mult(p) \in Nat \ {0} /\ stop_distance(p, f) \in Nat \ {0}
         /\ portfolio.cash \in Int /\ portfolio.equity \in Nat
         /\ portfolio.positions[p.symbol].value \in Int
         /\ position_headroom(p, portfolio) \in Int
         /\ exposure_headroom(portfolio) \in Int
         /\ risk_budget(p, portfolio) \in Int
<1>1. f.close \in Nat \ {0} /\ f.half_atr \in Nat \ {0} /\ portfolio.equity \in Nat
  BY DEF FeatureBundle, PortfolioState, inputs_valid
<1>2. stop_mult(p) \in Nat \ {0}
  BY RiskLimitsAssumption DEF TradeProposal, stop_mult
<1>3. stop_distance(p, f) \in Nat \ {0}
  <2> DEFINE m == stop_mult(p)
             h == f.half_atr
  <2>1. m \in Nat \ {0} /\ h \in Nat \ {0}
    BY <1>1, <1>2
  <2>2. m * h \in Nat \ {0}
    <3> HIDE DEF m, h
    <3> QED BY <2>1
  <2> QED BY <2>2 DEF stop_distance
<1>4. portfolio.cash \in Int /\ portfolio.positions[p.symbol].value \in Int
  BY DEF PortfolioState, Position, TradeProposal
<1>5. position_headroom(p, portfolio) \in Int
  BY <1>1, <1>4, RiskLimitsAssumption DEF position_headroom
<1>6. exposure_headroom(portfolio) \in Int
  BY <1>1, GrossType, RiskLimitsAssumption DEF exposure_headroom
<1>7. risk_budget(p, portfolio) \in Int
  BY <1>1, RiskLimitsAssumption DEF risk_budget, TradeProposal, Percent
<1> QED BY <1>1, <1>2, <1>3, <1>4, <1>5, <1>6, <1>7

\* The four quantities of which an entry is the least.
LEMMA EntryIsLeast ==
  ASSUME NEW p \in TradeProposal, NEW f \in FeatureBundle, NEW portfolio \in PortfolioState,
         NEW asset \in AssetSpec, inputs_valid(f, portfolio)
  PROVE  LET qty == entry_qty(p, f, portfolio, asset)
         IN /\ qty \in Int
            /\ qty <= position_headroom(p, portfolio) \div (100 * f.close)
            /\ qty <= exposure_headroom(portfolio) \div (100 * f.close)
            /\ qty <= portfolio.cash \div f.close
            /\ qty <= risk_budget(p, portfolio) \div (10000 * stop_distance(p, f))
<1> DEFINE a == position_headroom(p, portfolio) \div (100 * f.close)
           b == exposure_headroom(portfolio) \div (100 * f.close)
           c == portfolio.cash \div f.close
           d == risk_budget(p, portfolio) \div (10000 * stop_distance(p, f))
<1>1. /\ f.close \in Nat \ {0} /\ 100 * f.close \in Nat \ {0}
      /\ 10000 * stop_distance(p, f) \in Nat \ {0}
      /\ portfolio.cash \in Int /\ position_headroom(p, portfolio) \in Int
      /\ exposure_headroom(portfolio) \in Int /\ risk_budget(p, portfolio) \in Int
  BY SizingTypes
<1>2. a \in Int /\ b \in Int /\ c \in Int /\ d \in Int
  BY <1>1, QuotientFits
<1>3. sized_qty(p, f, portfolio) = smaller(smaller(a, b), smaller(c, d))
  BY DEF sized_qty
<1> HIDE DEF a, b, c, d
<1>4. /\ sized_qty(p, f, portfolio) \in Int
      /\ sized_qty(p, f, portfolio) <= a /\ sized_qty(p, f, portfolio) <= b
      /\ sized_qty(p, f, portfolio) <= c /\ sized_qty(p, f, portfolio) <= d
  BY <1>2, <1>3 DEF smaller
<1>5. /\ entry_qty(p, f, portfolio, asset) \in Int
      /\ entry_qty(p, f, portfolio, asset) <= sized_qty(p, f, portfolio)
  BY <1>4, SnapTakes DEF entry_qty, AssetSpec
<1> QED BY <1>2, <1>4, <1>5 DEF a, b, c, d

\* An approved entry keeps the symbol and the whole book within their caps
\* and is paid for with the cash there is (evaluate): the caps are of the
\* portfolio it was given, which the loop read before the agents answered.
THEOREM EntryWithinCaps ==
  ASSUME NEW p \in TradeProposal, NEW f \in FeatureBundle, NEW portfolio \in PortfolioState,
         NEW asset \in AssetSpec, NEW news_risk, NEW session,
         p.action = "BUY",
         approved(p, f, portfolio, asset, news_risk, session)
  PROVE  LET qty == approved_qty(p, f, portfolio, asset)
         IN /\ qty \in Nat \ {0}
            /\ 100 * (portfolio.positions[p.symbol].value + qty * f.close)
                 <= MaxPositionPct * portfolio.equity
            /\ 100 * (gross_exposure(portfolio) + qty * f.close)
                 <= MaxExposurePct * portfolio.equity
            /\ qty * f.close <= portfolio.cash
<1> DEFINE qty == entry_qty(p, f, portfolio, asset)
           cl == f.close
           value == portfolio.positions[p.symbol].value
           gross == gross_exposure(portfolio)
<1>1. inputs_valid(f, portfolio) /\ qty > 0 /\ approved_qty(p, f, portfolio, asset) = qty
  BY DEF approved, gates_pass, entry_allowed, approved_qty
<1>2. /\ cl \in Nat \ {0} /\ 100 * cl \in Nat \ {0} /\ value \in Int
      /\ portfolio.cash \in Int /\ portfolio.equity \in Nat
      /\ position_headroom(p, portfolio) \in Int /\ exposure_headroom(portfolio) \in Int
  BY <1>1, SizingTypes
<1>3. /\ qty \in Int
      /\ qty <= position_headroom(p, portfolio) \div (100 * cl)
      /\ qty <= exposure_headroom(portfolio) \div (100 * cl)
      /\ qty <= portfolio.cash \div cl
  BY <1>1, EntryIsLeast
<1>4. /\ qty * (100 * cl) <= position_headroom(p, portfolio)
      /\ qty * (100 * cl) <= exposure_headroom(portfolio)
      /\ qty * cl <= portfolio.cash
  <2> HIDE DEF qty, cl
  <2> QED BY <1>2, <1>3, WithinQuotient
<1>5. qty * (100 * cl) = 100 * (qty * cl) /\ qty * cl \in Int
  <2> HIDE DEF qty, cl
  <2> QED BY <1>2, <1>3
<1>6. /\ position_headroom(p, portfolio) = MaxPositionPct * portfolio.equity - 100 * value
      /\ exposure_headroom(portfolio) = MaxExposurePct * portfolio.equity - 100 * gross
  BY DEF position_headroom, exposure_headroom
<1>7. MaxPositionPct * portfolio.equity \in Int /\ MaxExposurePct * portfolio.equity \in Int
  BY <1>2, RiskLimitsAssumption
<1> DEFINE spent == qty * cl
           most == MaxPositionPct * portfolio.equity
           allowed == MaxExposurePct * portfolio.equity
<1>8. /\ 100 * spent <= most - 100 * value /\ 100 * spent <= allowed - 100 * gross
      /\ spent \in Int /\ most \in Int /\ allowed \in Int
  BY <1>4, <1>5, <1>6, <1>7
<1>9. 100 * (value + spent) <= most /\ 100 * (gross + spent) <= allowed
  <2> HIDE DEF spent, most, allowed, value, gross
  <2>1. gross \in Int
    BY GrossType DEF gross
  <2> QED BY <1>2, <1>8, <2>1
<1> QED BY <1>1, <1>3, <1>4, <1>9

\* What an approved entry loses between its price and its stop is within the
\* risk budget of a trade, and the stop is below the price and above zero
\* (evaluate, MEASURE then size).
THEOREM StopLossWithinBudget ==
  ASSUME NEW p \in TradeProposal, NEW f \in FeatureBundle, NEW portfolio \in PortfolioState,
         NEW asset \in AssetSpec, NEW news_risk, NEW session,
         p.action = "BUY",
         approved(p, f, portfolio, asset, news_risk, session)
  PROVE  /\ 10000 * (approved_qty(p, f, portfolio, asset) * (f.close - stop_px(p, f)))
              <= portfolio.equity * RiskPct * p.size_multiplier
         /\ stop_px(p, f) \in 1..(f.close - 1)
<1> DEFINE qty == entry_qty(p, f, portfolio, asset)
           dist == stop_distance(p, f)
<1>1. /\ inputs_valid(f, portfolio) /\ approved_qty(p, f, portfolio, asset) = qty
      /\ stop_px(p, f) > 0
  BY DEF approved, gates_pass, entry_allowed, approved_qty
<1>2. /\ dist \in Nat \ {0} /\ 10000 * dist \in Nat \ {0} /\ risk_budget(p, portfolio) \in Int
      /\ f.close \in Nat
  BY <1>1, SizingTypes
<1>3. qty \in Int /\ qty <= risk_budget(p, portfolio) \div (10000 * dist)
  BY <1>1, EntryIsLeast
<1>4. f.close - stop_px(p, f) = dist /\ stop_px(p, f) \in 1..(f.close - 1)
  BY <1>1, <1>2 DEF stop_px
<1> HIDE DEF qty, dist
<1>5. qty * (10000 * dist) <= risk_budget(p, portfolio)
  BY <1>2, <1>3, WithinQuotient
<1>6. qty * (10000 * dist) = 10000 * (qty * dist)
  BY <1>2, <1>3
<1> QED BY <1>1, <1>4, <1>5, <1>6 DEF risk_budget

=============================================================================
