--------------------------- MODULE AgentBusProofs ---------------------------
(***************************************************************************)
(* What agents/arbiter.py promises of any opinions and any portfolio, and  *)
(* what run_bar does (AgentBus), for any watchlist, answers of the models, *)
(* caches, books and numbers of candidates.                                *)
(***************************************************************************)
EXTENDS AgentBus, FiniteSetTheorems, WellFoundedInduction, TLAPS

-----------------------------------------------------------------------------
(* The arbiter                                                             *)

\* A finite set with a strict order has an element that nothing precedes.
LEMMA FirstOfFinite ==
  ASSUME NEW S, IsFiniteSet(S), S # {}, NEW R,
         \A x \in S : <<x, x>> \notin R,
         \A x, y, z \in S : <<x, y>> \in R /\ <<y, z>> \in R => <<x, z>> \in R
  PROVE  \E x \in S : \A y \in S : <<y, x>> \notin R
<1> DEFINE Before(x) == {y \in S : <<y, x>> \in R}
           T == {Before(x) : x \in S}
<1>1. IsWellFoundedOn(StrictSubsetOrdering(S), FiniteSubsetsOf(S))
  BY FS_StrictSubsetOrderingWellFounded
<1>2. T \subseteq FiniteSubsetsOf(S) /\ T # {}
  <2>1. ASSUME NEW x \in S PROVE Before(x) \in FiniteSubsetsOf(S)
    <3>1. Before(x) \subseteq S
      OBVIOUS
    <3> QED BY <3>1, FS_Subset DEF FiniteSubsetsOf
  <2>2. PICK x \in S : TRUE
    OBVIOUS
  <2>3. Before(x) \in T
    OBVIOUS
  <2>4. ASSUME NEW B \in T PROVE B \in FiniteSubsetsOf(S)
    <3>1. PICK z \in S : B = Before(z)
      OBVIOUS
    <3> QED BY <2>1, <3>1
  <2> HIDE DEF T
  <2> QED BY <2>3, <2>4
<1>3. PICK B \in T : \A C \in T : ~(<<C, B>> \in StrictSubsetOrdering(S))
  <2> HIDE DEF T
  <2> QED BY <1>1, <1>2, WFMin
<1>4. PICK x \in S : B = Before(x)
  OBVIOUS
<1>5. ASSUME NEW y \in S, <<y, x>> \in R PROVE FALSE
  <2>1. Before(y) \subseteq Before(x)
    BY <1>5
  <2>2. y \in Before(x) /\ y \notin Before(y)
    BY <1>5
  <2>3. <<Before(y), Before(x)>> \in StrictSubsetOrdering(S)
    BY <2>1, <2>2 DEF StrictSubsetOrdering
  <2>4. Before(y) \in T
    OBVIOUS
  <2> QED BY <1>3, <1>4, <2>3, <2>4
<1> QED BY <1>5

LEMMA ScoreType ==
  ASSUME NEW op \in SymbolOpinions
  PROVE  score_opinion(op) \in Int
<1>1. /\ op.technical.conviction \in Int /\ op.news.sentiment \in Int
      /\ op.risk.size_multiplier \in Int
  BY DEF SymbolOpinions, TechnicalOutput, NewsOutput, RiskOutput, Percent
<1> DEFINE up == 100 * op.technical.conviction + 1 * SentimentWeight * op.news.sentiment
           down == 100 * op.technical.conviction + (-1) * SentimentWeight * op.news.sentiment
<1>2. up \in Int /\ down \in Int
  BY <1>1, WeightAssumption
<1> HIDE DEF up, down
<1>3. clamped(up) \in Int /\ clamped(down) \in Int
  BY <1>2 DEF clamped, smaller
<1>4. /\ clamped(up) * op.risk.size_multiplier \in Int
      /\ clamped(down) * op.risk.size_multiplier \in Int
  BY <1>1, <1>3
<1>5. /\ blended(op, 1) = clamped(up) * op.risk.size_multiplier
      /\ blended(op, -1) = clamped(down) * op.risk.size_multiplier
  BY DEF blended, up, down
<1> QED BY <1>4, <1>5 DEF score_opinion

\* There is a leader among some opinions, and it is one of them.
LEMMA LeaderIsOne ==
  ASSUME NEW ops \in Seq(SymbolOpinions), NEW S \in SUBSET (DOMAIN ops), S # {}
  PROVE  \E n \in S : leader(ops, S) = ops[n]
<1> DEFINE score(n) == score_opinion(ops[n])
           R == {e \in S \X S : \/ score(e[1]) > score(e[2])
                                \/ score(e[1]) = score(e[2]) /\ e[1] < e[2]}
<1>1. DOMAIN ops = 1..Len(ops) /\ Len(ops) \in Nat
  OBVIOUS
<1>2. IsFiniteSet(S)
  <2>1. IsFiniteSet(1..Len(ops))
    <3> DEFINE top == Len(ops)
    <3>1. top \in Int
      BY <1>1
    <3> HIDE DEF top
    <3>2. IsFiniteSet(1..top)
      BY <3>1, FS_Interval
    <3> QED BY <3>2 DEF top
  <2> QED BY <1>1, <2>1, FS_Subset
<1>3. \A n \in S : n \in Int /\ score(n) \in Int
  BY <1>1, ScoreType
<1>4. \A i, j \in S : <<i, j>> \in R <=> score(i) > score(j) \/ (score(i) = score(j) /\ i < j)
  <2> HIDE DEF score
  <2> QED OBVIOUS
<1> HIDE DEF R, score
<1>5. \A x \in S : <<x, x>> \notin R
  BY <1>3, <1>4
<1>6. ASSUME NEW x \in S, NEW y \in S, NEW z \in S, <<x, y>> \in R, <<y, z>> \in R
      PROVE  <<x, z>> \in R
  <2>1. /\ score(x) > score(y) \/ (score(x) = score(y) /\ x < y)
        /\ score(y) > score(z) \/ (score(y) = score(z) /\ y < z)
    BY <1>4, <1>6
  <2>2. \A k \in {x, y, z} : k \in Int /\ score(k) \in Int
    BY <1>3
  <2>3. score(x) > score(z) \/ (score(x) = score(z) /\ x < z)
    BY <2>1, <2>2
  <2> QED BY <1>4, <2>3
<1>7. PICK n \in S : \A m \in S : <<m, n>> \notin R
  BY <1>2, <1>5, <1>6, FirstOfFinite
<1>8. \A m \in S : score(n) > score(m) \/ (score(n) = score(m) /\ n <= m)
  <2> TAKE m \in S
  <2>1. <<m, n>> \notin R
    BY <1>7
  <2>2. ~(score(m) > score(n) \/ (score(m) = score(n) /\ m < n))
    BY <1>4, <2>1, Zenon
  <2>3. score(m) \in Int /\ score(n) \in Int /\ m \in Int /\ n \in Int
    BY <1>3
  <2> QED BY <2>2, <2>3
<1> QED BY <1>8 DEF leader, score

\* What the arbiter proposes in place of the model is not turned down for its
\* conviction, for CRITICAL news, or for a position that is full: the
\* degraded desk trades at most as boldly as the engine allows
\* (deterministic_arbitrate, evaluate).
THEOREM ArbiterStands ==
  ASSUME NEW ops \in Seq(SymbolOpinions), NEW portfolio \in PortfolioState,
         portfolio.equity > 0,
         \A s \in Symbols : ~holds(portfolio, s) => portfolio.positions[s].value = 0,
         deterministic_arbitrate(ops, portfolio).action # "HOLD"
  PROVE  LET p == deterministic_arbitrate(ops, portfolio)
         IN /\ p.conviction >= MinConviction
            /\ \E n \in DOMAIN ops : /\ ops[n].symbol = p.symbol
                                          /\ ops[n].news.news_risk # "CRITICAL"
            /\ p.action = "BUY" => position_headroom(p, portfolio) > 0
<1> DEFINE S == {n \in DOMAIN ops : has_headroom(ops[n], portfolio)}
           best == leader(ops, S)
           p == deterministic_arbitrate(ops, portfolio)
<1>1. /\ S # {} /\ p = proposal_of(best)
      /\ ~(score_opinion(best) < 10000 * MinConviction)
      /\ best.news.news_risk # "CRITICAL"
  <2>1. p = IF ops = <<>> THEN HOLD_about(NoSymbol, 0)
            ELSE IF S = {} THEN HOLD_about(ops[1].symbol, 0)
            ELSE IF best.technical.direction = "HOLD"
                      \/ score_opinion(best) < 10000 * MinConviction
                 THEN HOLD_about(best.symbol, rounded(score_opinion(best)))
            ELSE IF best.news.news_risk = "CRITICAL" THEN HOLD_about(best.symbol, 0)
            ELSE proposal_of(best)
    BY DEF deterministic_arbitrate
  <2>2. \A s, c : HOLD_about(s, c).action = "HOLD"
    BY DEF HOLD_about
  <2>3. p.action # "HOLD"
    OBVIOUS
  <2> HIDE DEF S, best, p
  <2> QED BY <2>1, <2>2, <2>3
<1>2. PICK n \in S : best = ops[n]
  <2>1. S \in SUBSET (DOMAIN ops)
    OBVIOUS
  <2> HIDE DEF S
  <2> QED BY <1>1, <2>1, LeaderIsOne
<1>3. /\ n \in DOMAIN ops /\ best \in SymbolOpinions /\ has_headroom(best, portfolio)
  <2> HIDE DEF best
  <2> QED BY <1>2
<1> HIDE DEF S, best, p
<1>4. /\ p.symbol = best.symbol /\ p.action = best.technical.direction
      /\ p.conviction = rounded(score_opinion(best))
  BY <1>1 DEF proposal_of
<1>5. p.conviction >= MinConviction
  <2>1. score_opinion(best) \in Int /\ MinConviction \in Nat
    BY <1>3, ScoreType, RiskLimitsAssumption
  <2>2. score_opinion(best) >= 10000 * MinConviction
    BY <1>1, <2>1
  <2> QED BY <1>4, <2>1, <2>2 DEF rounded
<1>6. ASSUME p.action = "BUY" PROVE position_headroom(p, portfolio) > 0
  <2> DEFINE value == portfolio.positions[best.symbol].value
             equity == portfolio.equity
  <2>1. value \in Int /\ equity \in Nat \ {0} /\ best.symbol \in Symbols
    <3>1. best.symbol \in Symbols
      BY <1>3 DEF SymbolOpinions
    <3>2. portfolio.equity \in Int /\ portfolio.positions \in [Symbols -> Position]
      BY DEF PortfolioState
    <3>3. portfolio.positions[best.symbol].value \in Int
      BY <3>1, <3>2 DEF Position
    <3> QED BY <3>1, <3>2, <3>3
  <2>2. ~holds(portfolio, best.symbol) \/ 1000 * value < (10 * MaxPositionPct - 5) * equity
    BY <1>3, <1>4, <1>6, <2>1 DEF has_headroom
  <2>3. position_headroom(p, portfolio) = MaxPositionPct * equity - 100 * value
    BY <1>4 DEF position_headroom
  <2>4. MaxPositionPct * equity \in Nat \ {0}
    <3> HIDE DEF equity
    <3> QED BY <2>1, RiskLimitsAssumption
  <2>5. ASSUME ~holds(portfolio, best.symbol) PROVE value = 0
    BY <2>1, <2>5
  <2>6. (10 * MaxPositionPct - 5) * equity = 10 * (MaxPositionPct * equity) - 5 * equity
    <3> HIDE DEF equity
    <3> QED BY <2>1, RiskLimitsAssumption
  <2> DEFINE cap == MaxPositionPct * equity
  <2>7. /\ cap \in Nat \ {0} /\ position_headroom(p, portfolio) = cap - 100 * value
        /\ value = 0 \/ 1000 * value < 10 * cap - 5 * equity
    BY <2>2, <2>3, <2>4, <2>5, <2>6
  <2> HIDE DEF cap, equity, value
  <2> QED BY <2>1, <2>7
<1>7. \E m \in DOMAIN ops : ops[m].symbol = p.symbol
                                /\ ops[m].news.news_risk # "CRITICAL"
  BY <1>1, <1>2, <1>3, <1>4
<1> QED BY <1>5, <1>6, <1>7 DEF p

-----------------------------------------------------------------------------
(* Shortlists                                                              *)

\* In a finite set with a strict order that is total, there is an element that
\* k - 1 others precede, for each k up to their number.
LEMMA Numbered ==
  ASSUME NEW S, IsFiniteSet(S), NEW R,
         \A x \in S : <<x, x>> \notin R,
         \A x, y, z \in S : <<x, y>> \in R /\ <<y, z>> \in R => <<x, z>> \in R,
         \A x, y \in S : x = y \/ <<x, y>> \in R \/ <<y, x>> \in R
  PROVE  \A k \in 1..Cardinality(S) :
           \E n \in S : Cardinality({m \in S : <<m, n>> \in R}) = k - 1
<1> DEFINE Before(x) == {m \in S : <<m, x>> \in R}
           T == 1..Cardinality(S)
           f == [x \in S |-> Cardinality(Before(x)) + 1]
<1>0. Cardinality(S) \in Nat
  BY FS_CardinalityType
<1>1. ASSUME NEW x \in S
      PROVE  /\ IsFiniteSet(Before(x)) /\ Cardinality(Before(x)) \in Nat
             /\ Cardinality(Before(x)) < Cardinality(S)
  <2>1. Before(x) \subseteq S /\ Before(x) # S
    OBVIOUS
  <2> HIDE DEF Before
  <2> QED BY <2>1, FS_Subset, FS_CardinalityType
<1>2. ASSUME NEW x \in S, NEW y \in S, <<x, y>> \in R
      PROVE  Cardinality(Before(x)) < Cardinality(Before(y))
  <2>1. Before(x) \subseteq Before(y) /\ x \in Before(y) /\ x \notin Before(x)
    BY <1>2
  <2>2. IsFiniteSet(Before(y)) /\ Before(x) # Before(y)
    BY <1>1, <2>1
  <2> HIDE DEF Before, f
  <2>3. /\ Cardinality(Before(x)) <= Cardinality(Before(y))
        /\ Cardinality(Before(x)) = Cardinality(Before(y)) => Before(x) = Before(y)
    BY <2>1, <2>2, FS_Subset
  <2>4. Cardinality(Before(x)) \in Nat /\ Cardinality(Before(y)) \in Nat
    BY <1>1
  <2> QED BY <2>2, <2>3, <2>4
<1>3. \A x, y \in S : x # y => Cardinality(Before(x)) # Cardinality(Before(y))
  <2> SUFFICES ASSUME NEW x \in S, NEW y \in S, x # y
               PROVE  Cardinality(Before(x)) # Cardinality(Before(y))
    OBVIOUS
  <2>1. <<x, y>> \in R \/ <<y, x>> \in R
    OBVIOUS
  <2>2. Cardinality(Before(x)) \in Nat /\ Cardinality(Before(y)) \in Nat
    BY <1>1
  <2>3. \/ Cardinality(Before(x)) < Cardinality(Before(y))
        \/ Cardinality(Before(y)) < Cardinality(Before(x))
    BY <1>2, <2>1
  <2> HIDE DEF Before
  <2> QED BY <2>2, <2>3
<1>4. f \in Injection(S, T)
  <2> HIDE DEF Before
  <2>1. \A x \in S : f[x] \in T
    BY <1>0, <1>1
  <2>2. \A x, y \in S : f[x] = f[y] => x = y
    BY <1>1, <1>3
  <2> QED BY <2>1, <2>2 DEF Injection, IsInjective
<1>5. f \in Surjection(S, T)
  <2>1. IsFiniteSet(T) /\ Cardinality(T) = Cardinality(S)
    BY <1>0, FS_Interval
  <2> HIDE DEF f, T
  <2> QED BY <1>4, <2>1, FS_Injection
<1>6. ASSUME NEW k \in T PROVE \E n \in S : Cardinality(Before(n)) = k - 1
  <2>1. PICK n \in S : f[n] = k
    BY <1>5, <1>6 DEF Surjection
  <2>2. Cardinality(Before(n)) + 1 = k /\ Cardinality(Before(n)) \in Nat
    BY <1>1, <2>1
  <2> HIDE DEF Before
  <2> QED BY <2>2
<1> QED BY <1>6

\* A shortlist of places has no more than MaxCandidates of them, each one
\* once (first_few).
LEMMA FirstFew ==
  ASSUME NEW S, IsFiniteSet(S), NEW R,
         \A x \in S : <<x, x>> \notin R,
         \A x, y, z \in S : <<x, y>> \in R /\ <<y, z>> \in R => <<x, z>> \in R,
         \A x, y \in S : x = y \/ <<x, y>> \in R \/ <<y, x>> \in R
  PROVE  LET few == first_few(S, R)
         IN /\ few \in Seq(S) /\ IsInjective(few)
            /\ Len(few) <= MaxCandidates
<1> DEFINE top == smaller(Cardinality(S), MaxCandidates)
           at(k) == CHOOSE n \in S : Cardinality({m \in S : <<m, n>> \in R}) = k - 1
           few == [k \in 1..top |-> at(k)]
<1>0. \A k \in 1..Cardinality(S) :
        \E n \in S : Cardinality({m \in S : <<m, n>> \in R}) = k - 1
  BY Numbered, ZenonT(40)
<1>1. first_few(S, R) = few
  BY DEF first_few
<1>2. top \in Nat /\ top <= Cardinality(S) /\ top <= MaxCandidates /\ Cardinality(S) \in Nat
  BY FS_CardinalityType, WeightAssumption DEF smaller
<1> HIDE DEF top
<1>3. ASSUME NEW k \in 1..top
      PROVE  at(k) \in S /\ Cardinality({m \in S : <<m, at(k)>> \in R}) = k - 1
  <2>1. k \in 1..Cardinality(S)
    BY <1>2
  <2>2. \E n \in S : Cardinality({m \in S : <<m, n>> \in R}) = k - 1
    BY <1>0, <2>1, Zenon
  <2> QED BY <2>2
<1>4. few \in [1..top -> S] /\ few \in Seq(S) /\ Len(few) = top
  <2> HIDE DEF at
  <2>1. few \in [1..top -> S]
    BY <1>3
  <2> HIDE DEF few
  <2> QED BY <1>2, <2>1
<1>5. ASSUME NEW i \in 1..top, NEW j \in 1..top, at(i) = at(j) PROVE i = j
  <2>1. i - 1 = j - 1
    <3> HIDE DEF at
    <3> QED BY <1>3, <1>5
  <2> QED BY <2>1
<1>6. IsInjective(few)
  <2> HIDE DEF at
  <2> QED BY <1>5 DEF IsInjective
<1> QED BY <1>1, <1>2, <1>4, <1>6
\* The stub's ranking names symbols of the watchlist, each one once
\* (rank_symbols).
LEMMA RankingIsOfSymbols ==
  ASSUME NEW charts \in [Symbols -> Chart]
  PROVE  LET ranked == rank_symbols(charts, Watchlist)
         IN ranked \in Seq(Symbols) /\ IsInjective(ranked)
<1> DEFINE S == {n \in DOMAIN Watchlist : charts[Watchlist[n]].tradeable}
           R == {e \in S \X S : Outranks(charts, Watchlist, e[1], e[2])}
           few == first_few(S, R)
           ranked == rank_symbols(charts, Watchlist)
           score(n) == charts[Watchlist[n]].trend_score
<1>1. Watchlist \in Seq(Symbols) /\ IsInjective(Watchlist)
  BY BusAssumption
<1>2. DOMAIN Watchlist = 1..Len(Watchlist) /\ Len(Watchlist) \in Nat
  BY <1>1
<1>3. \A n \in S : n \in Int /\ score(n) \in Int /\ n \in DOMAIN Watchlist
  BY <1>1, <1>2 DEF Chart
<1>4. IsFiniteSet(S)
  <2>1. S \subseteq 1..Len(Watchlist)
    BY <1>2
  <2>2. IsFiniteSet(1..Len(Watchlist))
    BY <1>2, FS_Interval
  <2> HIDE DEF S
  <2> QED BY <2>1, <2>2, FS_Subset
<1>5. \A i, j \in S : <<i, j>> \in R <=> score(i) > score(j) \/ (score(i) = score(j) /\ i < j)
  BY DEF Outranks
<1>6. few \in Seq(S) /\ IsInjective(few)
  <2> HIDE DEF R, S, score
  <2>1. \A x \in S : <<x, x>> \notin R
    BY <1>3, <1>5
  <2>2. \A x, y, z \in S : <<x, y>> \in R /\ <<y, z>> \in R => <<x, z>> \in R
    BY <1>3, <1>5
  <2>3. ASSUME NEW x \in S, NEW y \in S PROVE x = y \/ <<x, y>> \in R \/ <<y, x>> \in R
    <3>1. x \in Int /\ y \in Int /\ score(x) \in Int /\ score(y) \in Int
      BY <1>3
    <3>2. /\ <<x, y>> \in R <=> score(x) > score(y) \/ (score(x) = score(y) /\ x < y)
          /\ <<y, x>> \in R <=> score(y) > score(x) \/ (score(y) = score(x) /\ y < x)
      BY <1>5
    <3> QED BY <3>1, <3>2
  <2> QED BY <1>4, <2>1, <2>2, <2>3, FirstFew
<1>7. ranked = [k \in DOMAIN few |-> Watchlist[few[k]]]
  BY DEF rank_symbols
<1> HIDE DEF few, ranked, S, R
<1>8. DOMAIN few = 1..Len(few) /\ Len(few) \in Nat /\ \A k \in DOMAIN few : few[k] \in S
  BY <1>6
<1>9. \A k \in DOMAIN few : Watchlist[few[k]] \in Symbols
  BY <1>1, <1>3, <1>8
<1>10. ranked \in Seq(Symbols)
  BY <1>7, <1>8, <1>9
<1>11. IsInjective(ranked)
  BY <1>1, <1>3, <1>6, <1>7, <1>8 DEF IsInjective
<1> QED BY <1>10, <1>11 DEF ranked

\* The shortlist names symbols, and names one twice only if the scout did
\* (run_bar).
LEMMA ShortlistIsOfSymbols ==
  ASSUME NEW b, NEW named \in Seq(Symbols)
  PROVE  /\ shortlisted(b, named) \in Seq(Symbols)
         /\ IsInjective(named) => IsInjective(shortlisted(b, named))
<1> DEFINE S == {n \in DOMAIN named : b.market.charts[named[n]].tradeable}
           R == {e \in S \X S : e[1] < e[2]}
           few == first_few(S, R)
           short == shortlisted(b, named)
<1>1. DOMAIN named = 1..Len(named) /\ Len(named) \in Nat
  OBVIOUS
<1>2. S \subseteq DOMAIN named /\ \A i, j \in S : <<i, j>> \in R <=> i < j
  OBVIOUS
<1>3. short = [k \in DOMAIN few |-> named[few[k]]]
  BY DEF shortlisted
<1> HIDE DEF S, R, short
<1>4. few \in Seq(S) /\ IsInjective(few)
  <2>1. IsFiniteSet(S)
    <3>1. IsFiniteSet(1..Len(named))
      BY <1>1, FS_Interval
    <3> QED BY <1>1, <1>2, <3>1, FS_Subset
  <2>2. \A x \in S : <<x, x>> \notin R
    BY <1>1, <1>2
  <2>3. \A x, y, z \in S : <<x, y>> \in R /\ <<y, z>> \in R => <<x, z>> \in R
    BY <1>1, <1>2
  <2>4. ASSUME NEW x \in S, NEW y \in S PROVE x = y \/ <<x, y>> \in R \/ <<y, x>> \in R
    <3>1. x \in Int /\ y \in Int
      BY <1>1, <1>2
    <3>2. (<<x, y>> \in R <=> x < y) /\ (<<y, x>> \in R <=> y < x)
      BY <1>2
    <3> QED BY <3>1, <3>2
  <2> QED BY <2>1, <2>2, <2>3, <2>4, FirstFew
<1> HIDE DEF few
<1>5. DOMAIN few = 1..Len(few) /\ Len(few) \in Nat /\ \A k \in DOMAIN few : few[k] \in DOMAIN named
  BY <1>2, <1>4
<1>6. \A k \in DOMAIN few : named[few[k]] \in Symbols
  BY <1>5
<1>7. short \in Seq(Symbols)
  BY <1>3, <1>5, <1>6
<1>8. IsInjective(named) => IsInjective(short)
  BY <1>3, <1>4, <1>5 DEF IsInjective
<1> QED BY <1>7, <1>8 DEF short

-----------------------------------------------------------------------------
(* The inductive invariant                                                 *)

\* The scout names no symbol twice, as it is told to (scout.py:66).  Nothing
\* in run_bar() sees to it.
NamedOnce == \A named \in ScoutAnswers : IsInjective(named)

\* The agents that a wave calls, and those that may have been asked by then.
CallsOf(wave) ==
  CASE wave \in {"regime", "scout", "pm"} -> {wave}
    [] wave = "specialists" -> {"technical", "headline_scorer", "news"}
    [] wave = "risk" -> {"risk_analyst"}
    [] wave = "debate" -> {"bull", "bear", "bull_rebuttal", "bear_rebuttal"}
    [] OTHER -> {}
SoFar(wave) ==
  CASE wave = "regime" -> {"regime"}
    [] wave = "scout" -> {"regime", "scout"}
    [] wave = "specialists" -> {"regime", "scout", "technical", "headline_scorer", "news"}
    [] wave = "risk" -> {"regime", "scout", "technical", "headline_scorer", "news", "risk_analyst"}
    [] wave = "debate" -> Agent \ {"pm"}
    [] wave \in {"pm", "decided"} -> Agent
    [] OTHER -> {}
Wave == {"idle", "regime", "scout", "specialists", "risk", "debate", "pm", "decided"}

\* The rows of calls that are over, or not, and are listed when the wave is.
Held(b) == IF b.wave = "specialists" THEN rows_of("technical", b)
           ELSE IF b.wave = "risk" THEN rows_of("risk_analyst", b) ELSE {}

\* What is asked of a set of calls beside those of A: one for a row, and none
\* that comes before one in A.
InOrder(calls, A) ==
  /\ \A c, d \in calls : c.agent = d.agent /\ c.n = d.n => c = d
  /\ \A c \in calls :
       /\ c.agent = "headline_scorer" => Row("news", c.n) \notin A
       /\ c.agent \in {"bull", "bear"} =>
            Row("bull_rebuttal", c.n) \notin A /\ Row("bear_rebuttal", c.n) \notin A

\* A bar b that asked A has listed what is over, each row once.
Ledger(b, A) ==
  /\ \A c \in b.calls : /\ c \in Call /\ c.agent \in CallsOf(b.wave)
                        /\ c.n \in IF c.agent \in PerSymbol THEN DOMAIN b.candidates ELSE {0}
  /\ InOrder(b.calls, A)
  /\ \A r \in A : r \in [agent: Agent, n: Nat] /\ r.agent \in SoFar(b.wave)
  /\ Rows(b.calls) \cup Held(b) \subseteq A
  /\ b.results = SetToBag(A \ (Rows(b.calls) \cup Held(b)))

Pending(b, agents, n) == \E c \in b.calls : c.agent \in agents /\ c.n = n

\* An answer is missing only while its call is under way, or not made yet.
Answering(b) ==
  /\ b.candidates \in Seq(Symbols)
  /\ b.technical \in [DOMAIN b.candidates -> TechnicalOutput \cup {Nothing}]
  /\ b.news \in [DOMAIN b.candidates -> NewsOutput \cup {Nothing}]
  /\ b.risk \in [DOMAIN b.candidates -> RiskOutput \cup {Nothing}]
  /\ \A n \in DOMAIN b.candidates :
       /\ b.technical[n] = Nothing => Pending(b, {"technical"}, n)
       /\ b.news[n] = Nothing => Pending(b, {"news", "headline_scorer"}, n)
       /\ b.risk[n] = Nothing => b.wave = "specialists" \/ Pending(b, {"risk_analyst"}, n)

\* A proposal may be about no symbol.
Proposal == [symbol: Symbols \cup {NoSymbol}, action: Action, conviction: Percent,
             size_multiplier: Percent, stop_atr: Nat]

\* What a bar has, and what was decided in the portfolio manager's place.
Decision(b) ==
  /\ b.wave \in Wave /\ DOMAIN b = DOMAIN Idle
  /\ b.wave # "idle" => b.market \in Markets /\ b.portfolio \in Books
  /\ b.wave \in {"regime", "scout"} => b.candidates = <<>>
  /\ b.pm_status \in {"ok", "stub", "fallback", Nothing}
  /\ b.wave = "decided" =>
       /\ b.proposal \in Proposal
       /\ b.pm_status \in {"stub", "fallback"} =>
            b.proposal = deterministic_arbitrate(opinions(b), b.portfolio)

\* If no symbol is named twice, a veto is in the cache for as long as it is
\* remembered, and in the opinions of the bar.
Vetoes(b, cache, since) ==
  NamedOnce =>
    /\ IsInjective(b.candidates)
    /\ \A s \in Symbols :
         since[s] # Nothing => /\ cache[s] # Nothing
                               /\ cache[s].age = since[s]
                               /\ cache[s].news.news_risk = "CRITICAL"
    /\ \A n \in DOMAIN b.candidates :
         since[b.candidates[n]] # Nothing =>
           /\ b.news[n] # Nothing /\ b.news[n].news_risk = "CRITICAL"
           /\ ~Pending(b, {"news", "headline_scorer"}, n)

Store ==
  /\ mode \in [offline: BOOLEAN, fallback: BOOLEAN]
  /\ regime_cache \in 0..RegimeTTL \cup {Nothing}
  /\ news_cache \in [Symbols -> News \cup {Nothing}]
  /\ alarm \in [Symbols -> 0..NewsTTL \cup {Nothing}]
  /\ order # Nothing => order \in TradeProposal

Kept(b, A, cache, since) ==
  Ledger(b, A) /\ Answering(b) /\ Decision(b) /\ Vetoes(b, cache, since)

IInv == Store /\ Kept(bar, asked, news_cache, alarm)

-----------------------------------------------------------------------------
(* The ledger                                                              *)

\* Two sets that share nothing, as bags, make the bag of their union.
LEMMA BagOfUnion ==
  ASSUME NEW S, NEW T, S \cap T = {}
  PROVE  SetToBag(S) (+) SetToBag(T) = SetToBag(S \cup T)
<1>1. \A e \in S \cup T : (IF e \in S THEN 1 ELSE 0) + (IF e \in T THEN 1 ELSE 0) = 1
  OBVIOUS
<1> QED BY <1>1 DEF SetToBag, (+)

LEMMA RowsOfPart ==
  ASSUME NEW calls, NEW c \in calls,
         \A x, y \in calls : x.agent = y.agent /\ x.n = y.n => x = y
  PROVE  /\ Rows(calls \ {c}) \subseteq Rows(calls)
         /\ Rows(calls \ {c}) = Rows(calls) \ {Row(c.agent, c.n)}
<1>1. ASSUME NEW d \in calls \ {c} PROVE Row(d.agent, d.n) # Row(c.agent, c.n)
  <2>1. d.agent # c.agent \/ d.n # c.n
    OBVIOUS
  <2> QED BY <2>1 DEF Row
<1> QED BY <1>1 DEF Rows

\* A call that ends is listed at once, or is held until its wave is over.
LEMMA CallLeaves ==
  ASSUME NEW b, NEW A, Ledger(b, A), NEW c \in b.calls, NEW b2,
         b2.wave = b.wave, b2.candidates = b.candidates, b2.calls = b.calls \ {c},
         \/ Row(c.agent, c.n) \in Held(b) /\ b2.results = b.results
         \/ /\ Row(c.agent, c.n) \notin Held(b)
            /\ b2.results = b.results (+) SetToBag({Row(c.agent, c.n)})
  PROVE  Ledger(b2, A)
<1> DEFINE r == Row(c.agent, c.n)
           open == Rows(b.calls) \cup Held(b)
           open2 == Rows(b2.calls) \cup Held(b2)
<1>1. Held(b2) = Held(b)
  BY DEF Held, rows_of
<1>2. Rows(b2.calls) = Rows(b.calls) \ {r} /\ r \in Rows(b.calls)
  BY RowsOfPart DEF Ledger, InOrder, Rows
<1>3. open \subseteq A /\ b.results = SetToBag(A \ open)
  BY DEF Ledger
<1>4. b2.results = SetToBag(A \ open2)
  <2>1. CASE r \in Held(b) /\ b2.results = b.results
    BY <1>1, <1>2, <1>3, <2>1
  <2>2. CASE r \notin Held(b) /\ b2.results = b.results (+) SetToBag({r})
    <3>1. A \ open2 = (A \ open) \cup {r} /\ (A \ open) \cap {r} = {}
      BY <1>1, <1>2, <1>3, <2>2
    <3> HIDE DEF open, open2, r
    <3> QED BY <1>3, <2>2, <3>1, BagOfUnion
  <2> QED BY <2>1, <2>2
<1>5. open2 \subseteq A
  BY <1>1, <1>2, <1>3
<1>6. InOrder(b2.calls, A)
  BY DEF Ledger, InOrder
<1> QED BY <1>4, <1>5, <1>6 DEF Ledger

\* A call that is given to another vendor stays one call.
LEMMA CallMoves ==
  ASSUME NEW b, NEW A, Ledger(b, A), NEW c \in b.calls, NEW d \in Call,
         d.agent = c.agent, d.n = c.n, NEW b2,
         b2.wave = b.wave, b2.candidates = b.candidates, b2.results = b.results,
         b2.calls = (b.calls \ {c}) \cup {d}
  PROVE  Ledger(b2, A)
<1>1. Held(b2) = Held(b)
  BY DEF Held, rows_of
<1>2. Rows(b2.calls) = Rows(b.calls)
  BY DEF Rows
<1>3. InOrder(b2.calls, A)
  BY DEF Ledger, InOrder
<1> QED BY <1>1, <1>2, <1>3 DEF Ledger

\* Calls that none of A is, and that it does not come after, are made.
LEMMA CallsJoin ==
  ASSUME NEW b, NEW A, Ledger(b, A), NEW new \in SUBSET Call, NEW b2,
         b2.wave = b.wave, b2.candidates = b.candidates, b2.results = b.results,
         b2.calls = b.calls \cup new,
         \A c \in new : c.agent \in CallsOf(b.wave) \cap SoFar(b.wave) \cap PerSymbol
                         /\ c.n \in DOMAIN b.candidates,
         Rows(new) \cap A = {},
         InOrder(b.calls \cup new, A \cup Rows(new))
  PROVE  Ledger(b2, A \cup Rows(new))
<1>1. Held(b2) = Held(b)
  BY DEF Held, rows_of
<1>2. Rows(b2.calls) = Rows(b.calls) \cup Rows(new)
  BY DEF Rows
<1>3. \A r \in Rows(new) : r \in [agent: Agent, n: Nat] /\ r.agent \in SoFar(b.wave)
  BY DEF Rows, Row, Call
<1>4. (A \cup Rows(new)) \ (Rows(b2.calls) \cup Held(b2)) = A \ (Rows(b.calls) \cup Held(b))
  BY <1>1, <1>2 DEF Ledger
<1> QED BY <1>1, <1>2, <1>3, <1>4 DEF Ledger

\* When no call is left, what was held is listed, and another wave begins.
LEMMA WaveBegins ==
  ASSUME NEW b, NEW A, Ledger(b, A), b.calls = {}, NEW new \in SUBSET Call, NEW b2,
         b2.calls = new,
         \/ b2.results = b.results (+) SetToBag(Held(b))
         \/ Held(b) = {} /\ b2.results = b.results,
         \A c \in new : /\ c.agent \in CallsOf(b2.wave) \ SoFar(b.wave)
                         /\ c.n \in IF c.agent \in PerSymbol THEN DOMAIN b2.candidates ELSE {0},
         SoFar(b.wave) \cup CallsOf(b2.wave) \subseteq SoFar(b2.wave),
         Held(b2) \subseteq Rows(new),
         InOrder(new, A \cup Rows(new))
  PROVE  Ledger(b2, A \cup Rows(new))
<1>1. \A r \in Rows(new) : /\ r \in [agent: Agent, n: Nat]
                            /\ r.agent \in SoFar(b2.wave) /\ r.agent \notin SoFar(b.wave)
  BY DEF Rows, Row, Call
<1>2. Rows(new) \cap A = {}
  BY <1>1 DEF Ledger
<1>3. Rows(b.calls) = {}
  BY DEF Rows
<1>4. Held(b) \subseteq A /\ b.results = SetToBag(A \ Held(b))
  BY <1>3 DEF Ledger
<1>5. b2.results = SetToBag(A)
  <2>1. (A \ Held(b)) \cup Held(b) = A /\ (A \ Held(b)) \cap Held(b) = {}
    BY <1>4
  <2>2. SetToBag(A \ Held(b)) (+) SetToBag(Held(b)) = SetToBag(A)
    BY <2>1, BagOfUnion
  <2> QED BY <1>4, <2>2
<1>6. (A \cup Rows(new)) \ (Rows(b2.calls) \cup Held(b2)) = A
  BY <1>2
<1>7. \A r \in A \cup Rows(new) : r \in [agent: Agent, n: Nat] /\ r.agent \in SoFar(b2.wave)
  BY <1>1 DEF Ledger
<1> QED BY <1>5, <1>6, <1>7 DEF Ledger

\* No wave calls who may have been asked before it.
LEMMA WaveOrder ==
  \A e \in {<<"idle", "regime">>, <<"idle", "scout">>, <<"regime", "scout">>,
            <<"scout", "specialists">>, <<"scout", "decided">>, <<"specialists", "risk">>,
            <<"risk", "debate">>, <<"risk", "pm">>, <<"debate", "pm">>, <<"pm", "decided">>} :
    /\ CallsOf(e[2]) \cap SoFar(e[1]) = {}
    /\ SoFar(e[1]) \cup CallsOf(e[2]) \subseteq SoFar(e[2])
<1>1. /\ CallsOf("idle") = {} /\ CallsOf("decided") = {} /\ CallsOf("regime") = {"regime"}
      /\ CallsOf("scout") = {"scout"} /\ CallsOf("pm") = {"pm"}
      /\ CallsOf("specialists") = {"technical", "headline_scorer", "news"}
      /\ CallsOf("risk") = {"risk_analyst"}
      /\ CallsOf("debate") = {"bull", "bear", "bull_rebuttal", "bear_rebuttal"}
  BY DEF CallsOf
<1>2. /\ SoFar("idle") = {} /\ SoFar("regime") = {"regime"}
      /\ SoFar("scout") = {"regime", "scout"}
      /\ SoFar("specialists") = {"regime", "scout", "technical", "headline_scorer", "news"}
      /\ SoFar("risk") = {"regime", "scout", "technical", "headline_scorer", "news", "risk_analyst"}
      /\ SoFar("debate") = Agent \ {"pm"} /\ SoFar("pm") = Agent /\ SoFar("decided") = Agent
  BY DEF SoFar
<1> QED BY <1>1, <1>2 DEF Agent, PerSymbol

-----------------------------------------------------------------------------
(* What the agents answer                                                  *)

LEMMA HoldIsProposal ==
  ASSUME NEW s \in Symbols \cup {NoSymbol}, NEW n \in Percent
  PROVE  HOLD_about(s, n) \in Proposal
  BY RiskLimitsAssumption DEF HOLD_about, Proposal, Percent, Action

\* A score is a fraction of one, and so is the conviction it is rounded to.
LEMMA RoundedRange ==
  ASSUME NEW s \in Int, 0 <= s, s <= 10000 * 100
  PROVE  rounded(s) \in Percent
<1>1. rounded(s) = (s + 5000) \div 10000
  BY DEF rounded
<1>2. (s + 5000) \div 10000 >= 0 /\ (s + 5000) \div 10000 <= 100 /\ (s + 5000) \div 10000 \in Int
  BY SMT
<1> QED BY <1>1, <1>2 DEF Percent

LEMMA ScaledRange ==
  ASSUME NEW x \in Int, NEW m \in 0..100
  PROVE  rounded(clamped(x) * m) \in Percent
<1> DEFINE y == clamped(x)
<1>1. y \in Int /\ 0 <= y /\ y <= 10000
  BY DEF clamped, smaller
<1> HIDE DEF y
<1>2. y * m <= 10000 * m /\ 0 <= y * m /\ y * m \in Int
  BY <1>1
<1>3. 10000 * m <= 10000 * 100 /\ 10000 * m \in Int
  OBVIOUS
<1>4. y * m <= 10000 * 100
  BY <1>2, <1>3
<1>5. rounded(y * m) \in Percent
  BY <1>2, <1>4, RoundedRange
<1> QED BY <1>5 DEF y

LEMMA ScoreRange ==
  ASSUME NEW op \in SymbolOpinions
  PROVE  rounded(score_opinion(op)) \in Percent
<1>1. /\ op.technical.conviction \in Int /\ op.news.sentiment \in Int
      /\ op.risk.size_multiplier \in 0..100
  BY DEF SymbolOpinions, TechnicalOutput, NewsOutput, RiskOutput, Percent
<1> DEFINE up == 100 * op.technical.conviction + 1 * SentimentWeight * op.news.sentiment
           down == 100 * op.technical.conviction + (-1) * SentimentWeight * op.news.sentiment
<1>2. up \in Int /\ down \in Int
  BY <1>1, WeightAssumption
<1>3. /\ blended(op, 1) = clamped(up) * op.risk.size_multiplier
      /\ blended(op, -1) = clamped(down) * op.risk.size_multiplier
  BY DEF blended
<1> HIDE DEF up, down
<1>4. rounded(blended(op, 1)) \in Percent
  <2>1. rounded(clamped(up) * op.risk.size_multiplier) \in Percent
    BY <1>1, <1>2, ScaledRange
  <2> QED BY <1>3, <2>1
<1>5. rounded(blended(op, -1)) \in Percent
  <2>1. rounded(clamped(down) * op.risk.size_multiplier) \in Percent
    BY <1>1, <1>2, ScaledRange
  <2> QED BY <1>3, <2>1
<1>6. rounded(0) \in Percent
  BY RoundedRange
<1> QED BY <1>4, <1>5, <1>6 DEF score_opinion

LEMMA ArbiterProposes ==
  ASSUME NEW ops \in Seq(SymbolOpinions), NEW portfolio
  PROVE  deterministic_arbitrate(ops, portfolio) \in Proposal
<1> DEFINE S == {n \in DOMAIN ops : has_headroom(ops[n], portfolio)}
           best == leader(ops, S)
<1>1. CASE ops = <<>>
  BY <1>1, HoldIsProposal DEF deterministic_arbitrate, Percent
<1>2. CASE ops # <<>> /\ S = {}
  <2>1. ops[1] \in SymbolOpinions
    BY <1>2
  <2>2. deterministic_arbitrate(ops, portfolio) = HOLD_about(ops[1].symbol, 0)
    BY <1>2 DEF deterministic_arbitrate
  <2> QED BY <2>1, <2>2, HoldIsProposal DEF SymbolOpinions, Percent
<1>3. CASE ops # <<>> /\ S # {}
  <2>1. best \in SymbolOpinions
    <3>1. S \in SUBSET (DOMAIN ops)
      OBVIOUS
    <3> HIDE DEF S
    <3>2. PICK n \in S : leader(ops, S) = ops[n]
      BY <1>3, <3>1, LeaderIsOne
    <3> QED BY <3>1, <3>2
  <2>2. \/ deterministic_arbitrate(ops, portfolio) = HOLD_about(best.symbol, rounded(score_opinion(best)))
        \/ deterministic_arbitrate(ops, portfolio) = HOLD_about(best.symbol, 0)
        \/ deterministic_arbitrate(ops, portfolio) = proposal_of(best)
    BY <1>3 DEF deterministic_arbitrate
  <2> HIDE DEF best
  <2>3. rounded(score_opinion(best)) \in Percent /\ 0 \in Percent
    BY <2>1, ScoreRange DEF Percent
  <2>4. best.symbol \in Symbols
    BY <2>1 DEF SymbolOpinions
  <2>5. proposal_of(best) \in Proposal
    BY <2>1, <2>3
       DEF proposal_of, Proposal, SymbolOpinions, TechnicalOutput, RiskOutput
  <2> QED BY <2>2, <2>3, <2>4, <2>5, HoldIsProposal
<1> QED BY <1>1, <1>2, <1>3

\* The stubs' answers have the types of the models'.
LEMMA StubTypes ==
  ASSUME NEW chart \in Chart
  PROVE  /\ \A held : technical_stub(chart, held) \in TechnicalOutput
         /\ \A x \in Int : news_stub(x) \in NewsOutput
         /\ \A news, portfolio : risk_stub(chart, news, portfolio) \in RiskOutput
<1>1. chart.trend_score \in Int
  BY DEF Chart
<1>2. smaller(50 + magnitude(chart.trend_score) \div 4, 80) \in Percent
  BY <1>1 DEF smaller, magnitude, Percent
<1>3. 50 \in Percent /\ 100 \in Percent /\ \A x \in Percent : x \div 2 \in Percent
  BY DEF Percent
<1>4. ASSUME NEW held PROVE technical_stub(chart, held) \in TechnicalOutput
  BY <1>2, <1>3 DEF technical_stub, TechnicalOutput, Action
<1>5. ASSUME NEW x \in Int PROVE news_stub(x) \in NewsOutput
  BY <1>5 DEF news_stub, NewsOutput, NewsRisk
<1>6. ASSUME NEW news, NEW portfolio PROVE risk_stub(chart, news, portfolio) \in RiskOutput
  <2>1. 100 \div 2 = 50 /\ 50 \div 2 = 25 /\ 25 \div 2 = 12 /\ {100, 50, 25, 12} \subseteq Percent
    BY DEF Percent
  <2>2. {4, 5} \subseteq Nat
    OBVIOUS
  <2>3. /\ risk_stub(chart, news, portfolio).size_multiplier \in {100, 50, 25, 12}
        /\ risk_stub(chart, news, portfolio).suggested_stop_atr \in {4, 5}
        /\ risk_stub(chart, news, portfolio)
             = [size_multiplier |-> risk_stub(chart, news, portfolio).size_multiplier,
                suggested_stop_atr |-> risk_stub(chart, news, portfolio).suggested_stop_atr]
    BY <2>1 DEF risk_stub
  <2> QED BY <2>1, <2>2, <2>3 DEF RiskOutput
<1> QED BY <1>4, <1>5, <1>6

-----------------------------------------------------------------------------
(* The waves                                                               *)

LEMMA FieldNames ==
  DOMAIN Idle = {"wave", "market", "portfolio", "candidates", "calls", "technical", "news",
                 "risk", "results", "proposal", "pm_status"}
  BY DEF Idle

LEMMA CallsChange ==
  ASSUME NEW b, DOMAIN b = DOMAIN Idle, NEW wave, NEW calls
  PROVE  LET b2 == with_calls(b, wave, calls)
         IN /\ DOMAIN b2 = DOMAIN Idle /\ b2.wave = wave /\ b2.calls = calls
            /\ b2.market = b.market /\ b2.portfolio = b.portfolio
            /\ b2.candidates = b.candidates /\ b2.technical = b.technical
            /\ b2.news = b.news /\ b2.risk = b.risk /\ b2.results = b.results
            /\ b2.proposal = b.proposal /\ b2.pm_status = b.pm_status
  BY FieldNames DEF with_calls

LEMMA ResultsGrow ==
  ASSUME NEW b, DOMAIN b = DOMAIN Idle, NEW rows
  PROVE  LET b2 == listed(b, rows)
         IN /\ DOMAIN b2 = DOMAIN Idle /\ b2.results = b.results (+) SetToBag(rows)
            /\ b2.wave = b.wave /\ b2.calls = b.calls
            /\ b2.market = b.market /\ b2.portfolio = b.portfolio
            /\ b2.candidates = b.candidates /\ b2.technical = b.technical
            /\ b2.news = b.news /\ b2.risk = b.risk
            /\ b2.proposal = b.proposal /\ b2.pm_status = b.pm_status
  BY FieldNames DEF listed

\* What each candidate is asked, as calls and as rows.
LEMMA AskedEach ==
  ASSUME NEW agent \in PerSymbol, NEW candidates \in Seq(Symbols)
  PROVE  LET calls == AskEach(agent, candidates)
         IN /\ calls \in SUBSET Call
            /\ \A c \in calls : c.agent = agent /\ c.n \in DOMAIN candidates
            /\ \A c, d \in calls : c.agent = d.agent /\ c.n = d.n => c = d
            /\ Rows(calls) = {Row(agent, n) : n \in DOMAIN candidates}
            /\ \A n \in DOMAIN candidates : \E c \in calls : c.agent = agent /\ c.n = n
<1>1. DOMAIN candidates = 1..Len(candidates) /\ Len(candidates) \in Nat /\ agent \in Agent
  BY DEF Agent
<1>2. ASSUME NEW n \in DOMAIN candidates
      PROVE  /\ Ask(agent, n) \in Call /\ Ask(agent, n).agent = agent /\ Ask(agent, n).n = n
             /\ Ask(agent, n) \in AskEach(agent, candidates)
  BY <1>1 DEF Ask, Call, AskEach
<1>3. \A c \in AskEach(agent, candidates) : \E n \in DOMAIN candidates : c = Ask(agent, n)
  BY DEF AskEach
<1>4. Rows(AskEach(agent, candidates)) = {Row(agent, n) : n \in DOMAIN candidates}
  BY <1>2, <1>3 DEF Rows
<1> QED BY <1>2, <1>3, <1>4

\* When a wave is over no answer of it is missing, and the next one changes
\* none.
LEMMA AnswersStay ==
  ASSUME NEW b, NEW cache, NEW since, b.wave \in {"specialists", "risk", "debate"},
         b.calls = {}, Answering(b), Decision(b), Vetoes(b, cache, since), NEW b2,
         DOMAIN b2 = DOMAIN Idle, b2.market = b.market, b2.portfolio = b.portfolio,
         b2.candidates = b.candidates, b2.technical = b.technical, b2.news = b.news,
         b2.risk = b.risk, b2.pm_status = b.pm_status, b2.wave \in {"risk", "debate", "pm"},
         \A c \in b2.calls : c.agent \notin {"news", "headline_scorer"},
         b.wave = "specialists" => \A n \in DOMAIN b.candidates : Pending(b2, {"risk_analyst"}, n)
  PROVE  Answering(b2) /\ Decision(b2) /\ Vetoes(b2, cache, since)
<1>1. \A agents, n : ~Pending(b, agents, n)
  BY DEF Pending
<1>2. Answering(b2)
  BY <1>1 DEF Answering
<1>3. \A n : ~Pending(b2, {"news", "headline_scorer"}, n)
  BY DEF Pending
<1>4. Vetoes(b2, cache, since)
  BY <1>3 DEF Vetoes
<1>5. Decision(b2)
  BY DEF Decision, Wave
<1> QED BY <1>2, <1>4, <1>5

LEMMA WaveEnds ==
  ASSUME NEW b, NEW A, NEW cache, NEW since, Kept(b, A, cache, since),
         b.wave \in {"specialists", "risk", "debate"}
  PROVE  LET b2 == after_wave(b) IN Kept(b2, A \cup Rows(b2.calls), cache, since)
<1> DEFINE b2 == after_wave(b)
           each(agent) == AskEach(agent, b.candidates)
<1>1. /\ Ledger(b, A) /\ Answering(b) /\ Decision(b) /\ Vetoes(b, cache, since)
      /\ DOMAIN b = DOMAIN Idle /\ b.candidates \in Seq(Symbols)
  BY DEF Kept, Answering, Decision
<1>2. CASE b.calls # {}
  <2>1. b2 = b
    BY <1>2 DEF after_wave
  <2>2. A \cup Rows(b.calls) = A
    BY <1>1 DEF Ledger
  <2> QED BY <2>1, <2>2
<1>3. CASE b.calls = {} /\ b.wave = "specialists"
  <2> DEFINE new == each("risk_analyst")
             w == with_calls(b, "risk", new)
  <2>1. b2 = listed(w, rows_of("technical", b))
    BY <1>3 DEF after_wave
  <2> HIDE DEF b2
  <2>2. /\ new \in SUBSET Call /\ \A c \in new : c.agent = "risk_analyst" /\ c.n \in DOMAIN b.candidates
        /\ \A c, d \in new : c.agent = d.agent /\ c.n = d.n => c = d
        /\ Rows(new) = rows_of("risk_analyst", b)
        /\ \A n \in DOMAIN b.candidates : \E c \in new : c.agent = "risk_analyst" /\ c.n = n
    <3>1. "risk_analyst" \in PerSymbol
      BY DEF PerSymbol
    <3> QED BY <1>1, <3>1, AskedEach DEF rows_of
  <2> HIDE DEF new
  <2>3. /\ DOMAIN b2 = DOMAIN Idle /\ b2.wave = "risk" /\ b2.calls = new
        /\ b2.market = b.market /\ b2.portfolio = b.portfolio
        /\ b2.candidates = b.candidates /\ b2.technical = b.technical
        /\ b2.news = b.news /\ b2.risk = b.risk /\ b2.pm_status = b.pm_status
        /\ b2.results = b.results (+) SetToBag(rows_of("technical", b))
    <3> HIDE DEF w
    <3>1. /\ DOMAIN w = DOMAIN Idle /\ w.wave = "risk" /\ w.calls = new
          /\ w.market = b.market /\ w.portfolio = b.portfolio
          /\ w.candidates = b.candidates /\ w.technical = b.technical
          /\ w.news = b.news /\ w.risk = b.risk /\ w.pm_status = b.pm_status
          /\ w.results = b.results
      BY <1>1, CallsChange DEF w
    <3> QED BY <2>1, <3>1, ResultsGrow
  <2>4. Held(b) = rows_of("technical", b) /\ Held(b2) = rows_of("risk_analyst", b)
    BY <1>3, <2>3 DEF Held, rows_of
  <2>5. CallsOf("risk") = {"risk_analyst"} /\ CallsOf("risk") \cap SoFar("specialists") = {}
        /\ SoFar("specialists") \cup CallsOf("risk") \subseteq SoFar("risk")
    BY WaveOrder DEF CallsOf
  <2>6. InOrder(new, A \cup Rows(new))
    BY <2>2 DEF InOrder
  <2>7. Ledger(b2, A \cup Rows(new))
    <3>1. \A c \in new : c.agent \in CallsOf(b2.wave) \ SoFar(b.wave)
                         /\ c.n \in IF c.agent \in PerSymbol THEN DOMAIN b2.candidates ELSE {0}
      BY <1>3, <2>2, <2>3, <2>5 DEF PerSymbol
    <3> QED BY <1>1, <1>3, <2>2, <2>3, <2>4, <2>5, <2>6, <3>1, WaveBegins
  <2>8. \A n \in DOMAIN b.candidates : Pending(b2, {"risk_analyst"}, n)
    BY <2>2, <2>3 DEF Pending
  <2>9. Answering(b2) /\ Decision(b2) /\ Vetoes(b2, cache, since)
    BY <1>1, <1>3, <2>2, <2>3, <2>8, AnswersStay
  <2> QED BY <2>3, <2>7, <2>9 DEF Kept, b2
<1>4. CASE b.calls = {} /\ b.wave = "risk"
  <2> DEFINE new == IF EnableDebate THEN each("bull") \cup each("bear") ELSE {Ask("pm", 0)}
             to == IF EnableDebate THEN "debate" ELSE "pm"
             w == with_calls(b, to, new)
  <2>1. b2 = listed(w, rows_of("risk_analyst", b))
    BY <1>4 DEF after_wave
  <2> HIDE DEF b2
  <2>2. /\ new \in SUBSET Call
        /\ \A c \in new : /\ c.agent \in IF EnableDebate THEN {"bull", "bear"} ELSE {"pm"}
                         /\ c.n \in IF EnableDebate THEN DOMAIN b.candidates ELSE {0}
        /\ \A c, d \in new : c.agent = d.agent /\ c.n = d.n => c = d
    <3>1. "bull" \in PerSymbol /\ "bear" \in PerSymbol
      BY DEF PerSymbol
    <3>2. CASE EnableDebate
      BY <1>1, <3>1, <3>2, AskedEach
    <3>3. CASE ~EnableDebate
      BY <3>3 DEF Ask, Call, Agent
    <3> QED BY <3>2, <3>3
  <2> HIDE DEF new
  <2>3. /\ DOMAIN b2 = DOMAIN Idle /\ b2.wave = to /\ b2.calls = new
        /\ b2.market = b.market /\ b2.portfolio = b.portfolio
        /\ b2.candidates = b.candidates /\ b2.technical = b.technical
        /\ b2.news = b.news /\ b2.risk = b.risk /\ b2.pm_status = b.pm_status
        /\ b2.results = b.results (+) SetToBag(rows_of("risk_analyst", b))
    <3> HIDE DEF w, to
    <3>1. /\ DOMAIN w = DOMAIN Idle /\ w.wave = to /\ w.calls = new
          /\ w.market = b.market /\ w.portfolio = b.portfolio
          /\ w.candidates = b.candidates /\ w.technical = b.technical
          /\ w.news = b.news /\ w.risk = b.risk /\ w.pm_status = b.pm_status
          /\ w.results = b.results
      BY <1>1, CallsChange DEF w
    <3> QED BY <2>1, <3>1, ResultsGrow
  <2>4. Held(b) = rows_of("risk_analyst", b) /\ Held(b2) = {}
    BY <1>4, <2>3 DEF Held
  <2>5. /\ CallsOf("debate") = {"bull", "bear", "bull_rebuttal", "bear_rebuttal"}
        /\ CallsOf("pm") = {"pm"} /\ CallsOf(to) \cap SoFar("risk") = {}
        /\ SoFar("risk") \cup CallsOf(to) \subseteq SoFar(to)
    BY WaveOrder DEF CallsOf
  <2>6. InOrder(new, A \cup Rows(new))
    <3>1. \A r \in A \cup Rows(new) : r.agent \notin {"bull_rebuttal", "bear_rebuttal"}
      <4>1. \A r \in A : r.agent \in SoFar("risk")
        BY <1>1, <1>4 DEF Ledger
      <4>2. \A r \in Rows(new) : r.agent \in {"bull", "bear", "pm"}
        BY <2>2 DEF Rows, Row
      <4> QED BY <4>1, <4>2 DEF SoFar
    <3>2. \A n : Row("bull_rebuttal", n) \notin A \cup Rows(new) /\ Row("bear_rebuttal", n) \notin A \cup Rows(new)
      BY <3>1 DEF Row
    <3> QED BY <2>2, <3>2 DEF InOrder
  <2>7. Ledger(b2, A \cup Rows(new))
    <3>1. \A c \in new : c.agent \in CallsOf(b2.wave) \ SoFar(b.wave)
                         /\ c.n \in IF c.agent \in PerSymbol THEN DOMAIN b2.candidates ELSE {0}
      BY <1>4, <2>2, <2>3, <2>5 DEF PerSymbol
    <3> QED BY <1>1, <1>4, <2>2, <2>3, <2>4, <2>5, <2>6, <3>1, WaveBegins
  <2>8. \A c \in b2.calls : c.agent \notin {"news", "headline_scorer"}
    BY <2>2, <2>3
  <2>9. Answering(b2) /\ Decision(b2) /\ Vetoes(b2, cache, since)
    BY <1>1, <1>4, <2>3, <2>8, AnswersStay
  <2> QED BY <2>3, <2>7, <2>9 DEF Kept, b2
<1>5. CASE b.calls = {} /\ b.wave = "debate"
  <2> DEFINE new == {Ask("pm", 0)}
  <2>1. b2 = with_calls(b, "pm", new)
    BY <1>5 DEF after_wave
  <2> HIDE DEF b2
  <2>2. new \in SUBSET Call /\ \A c \in new : c.agent = "pm" /\ c.n = 0
    BY DEF Ask, Call, Agent
  <2>3. /\ DOMAIN b2 = DOMAIN Idle /\ b2.wave = "pm" /\ b2.calls = new
        /\ b2.market = b.market /\ b2.portfolio = b.portfolio
        /\ b2.candidates = b.candidates /\ b2.technical = b.technical
        /\ b2.news = b.news /\ b2.risk = b.risk /\ b2.pm_status = b.pm_status
        /\ b2.results = b.results
    BY <1>1, <2>1, CallsChange
  <2>4. Held(b) = {} /\ Held(b2) = {}
    BY <1>5, <2>3 DEF Held
  <2>5. /\ CallsOf("pm") = {"pm"} /\ CallsOf("pm") \cap SoFar("debate") = {}
        /\ SoFar("debate") \cup CallsOf("pm") \subseteq SoFar("pm")
    BY WaveOrder DEF CallsOf
  <2>6. InOrder(new, A \cup Rows(new))
    BY <2>2 DEF InOrder
  <2>7. Ledger(b2, A \cup Rows(new))
    <3>1. \A c \in new : c.agent \in CallsOf(b2.wave) \ SoFar(b.wave)
                         /\ c.n \in IF c.agent \in PerSymbol THEN DOMAIN b2.candidates ELSE {0}
      BY <1>5, <2>2, <2>3, <2>5 DEF PerSymbol
    <3> HIDE DEF new
    <3> QED BY <1>1, <1>5, <2>2, <2>3, <2>4, <2>5, <2>6, <3>1, WaveBegins
  <2>8. Answering(b2) /\ Decision(b2) /\ Vetoes(b2, cache, since)
    BY <1>1, <1>5, <2>2, <2>3, AnswersStay
  <2> QED BY <2>3, <2>7, <2>8 DEF Kept, b2
<1> QED BY <1>2, <1>3, <1>4, <1>5

-----------------------------------------------------------------------------
(* A call that ends                                                        *)

Rest(b, c) == [b EXCEPT !.calls = @ \ {c}]
Noted(b, c) == listed(Rest(b, c), {Row(c.agent, c.n)})

LEMMA RestFields ==
  ASSUME NEW b, DOMAIN b = DOMAIN Idle, NEW c
  PROVE  LET b2 == Rest(b, c)
         IN /\ DOMAIN b2 = DOMAIN Idle /\ b2.calls = b.calls \ {c} /\ b2.wave = b.wave
            /\ b2.market = b.market /\ b2.portfolio = b.portfolio
            /\ b2.candidates = b.candidates /\ b2.technical = b.technical
            /\ b2.news = b.news /\ b2.risk = b.risk /\ b2.results = b.results
            /\ b2.proposal = b.proposal /\ b2.pm_status = b.pm_status
  BY FieldNames DEF Rest

LEMMA NotedFields ==
  ASSUME NEW b, DOMAIN b = DOMAIN Idle, NEW c
  PROVE  LET b2 == Noted(b, c)
         IN /\ DOMAIN b2 = DOMAIN Idle /\ b2.calls = b.calls \ {c} /\ b2.wave = b.wave
            /\ b2.market = b.market /\ b2.portfolio = b.portfolio
            /\ b2.candidates = b.candidates /\ b2.technical = b.technical
            /\ b2.news = b.news /\ b2.risk = b.risk
            /\ b2.results = b.results (+) SetToBag({Row(c.agent, c.n)})
            /\ b2.proposal = b.proposal /\ b2.pm_status = b.pm_status
<1> DEFINE r == Rest(b, c)
<1>1. /\ DOMAIN r = DOMAIN Idle /\ r.calls = b.calls \ {c} /\ r.wave = b.wave
      /\ r.market = b.market /\ r.portfolio = b.portfolio
      /\ r.candidates = b.candidates /\ r.technical = b.technical
      /\ r.news = b.news /\ r.risk = b.risk /\ r.results = b.results
      /\ r.proposal = b.proposal /\ r.pm_status = b.pm_status
  BY RestFields
<1> HIDE DEF r
<1>2. Noted(b, c) = listed(r, {Row(c.agent, c.n)})
  BY DEF Noted, r
<1> QED BY <1>1, <1>2, ResultsGrow

\* The wave of a call, and which of its candidates it is about.
LEMMA CallsPlace ==
  ASSUME NEW b, NEW A, Ledger(b, A), Decision(b), NEW c \in b.calls
  PROVE  /\ c \in Call
         /\ c.agent \in {"technical", "headline_scorer", "news"} <=> b.wave = "specialists"
         /\ c.agent = "risk_analyst" <=> b.wave = "risk"
         /\ c.agent \in {"bull", "bear", "bull_rebuttal", "bear_rebuttal"} <=> b.wave = "debate"
         /\ c.agent \in {"regime", "scout", "pm"} =>
              b.wave = c.agent /\ c.n = 0 /\ b.calls = {c} /\ Row(c.agent, c.n) \notin Held(b)
         /\ c.agent \in PerSymbol => c.n \in DOMAIN b.candidates
<1>1. /\ c \in Call /\ c.agent \in CallsOf(b.wave) /\ b.wave \in Wave
      /\ c.n \in IF c.agent \in PerSymbol THEN DOMAIN b.candidates ELSE {0}
      /\ \A d \in b.calls : /\ d.agent \in CallsOf(b.wave)
                            /\ d.n \in IF d.agent \in PerSymbol THEN DOMAIN b.candidates ELSE {0}
      /\ \A d \in b.calls : c.agent = d.agent /\ c.n = d.n => c = d
  BY DEF Ledger, InOrder, Decision
<1>2. /\ CallsOf("idle") = {} /\ CallsOf("decided") = {} /\ CallsOf("regime") = {"regime"}
      /\ CallsOf("scout") = {"scout"} /\ CallsOf("pm") = {"pm"}
      /\ CallsOf("specialists") = {"technical", "headline_scorer", "news"}
      /\ CallsOf("risk") = {"risk_analyst"}
      /\ CallsOf("debate") = {"bull", "bear", "bull_rebuttal", "bear_rebuttal"}
  BY DEF CallsOf
<1>3. ASSUME c.agent \in {"regime", "scout", "pm"}
      PROVE  b.wave = c.agent /\ c.n = 0 /\ b.calls = {c} /\ Row(c.agent, c.n) \notin Held(b)
  <2>1. b.wave = c.agent /\ c.n = 0
    BY <1>1, <1>2, <1>3 DEF Wave, PerSymbol
  <2>2. \A d \in b.calls : d.agent = c.agent /\ d.n = 0
    BY <1>1, <1>2, <1>3, <2>1 DEF PerSymbol
  <2>3. b.calls = {c}
    BY <1>1, <2>1, <2>2
  <2>4. Held(b) = {}
    BY <1>3, <2>1 DEF Held
  <2> QED BY <2>1, <2>3, <2>4
<1> QED BY <1>1, <1>2, <1>3 DEF Wave

LEMMA RegimeEnds ==
  ASSUME NEW b, NEW A, NEW cache, NEW since, Kept(b, A, cache, since),
         NEW c \in b.calls, c.agent = "regime"
  PROVE  LET b2 == with_calls(Noted(b, c), "scout", {Ask("scout", 0)})
         IN Kept(b2, A \cup Rows(b2.calls), cache, since)
<1> DEFINE m == Noted(b, c)
           new == {Ask("scout", 0)}
           b2 == with_calls(m, "scout", new)
<1>1. Ledger(b, A) /\ Answering(b) /\ Decision(b) /\ Vetoes(b, cache, since) /\ DOMAIN b = DOMAIN Idle
  BY DEF Kept, Decision
<1>2. b.wave = "regime" /\ b.calls = {c} /\ Row(c.agent, c.n) \notin Held(b)
  BY <1>1, CallsPlace
<1>3. /\ DOMAIN m = DOMAIN Idle /\ m.calls = b.calls \ {c} /\ m.wave = b.wave
      /\ m.market = b.market /\ m.portfolio = b.portfolio
      /\ m.candidates = b.candidates /\ m.technical = b.technical
      /\ m.news = b.news /\ m.risk = b.risk
      /\ m.results = b.results (+) SetToBag({Row(c.agent, c.n)})
      /\ m.proposal = b.proposal /\ m.pm_status = b.pm_status
  BY <1>1, NotedFields
<1> HIDE DEF m
<1>0. m.calls = {} /\ m.wave = "regime"
  BY <1>1, <1>2, <1>3
<1>4. Ledger(m, A)
  BY <1>1, <1>2, <1>3, CallLeaves
<1>5. /\ DOMAIN b2 = DOMAIN Idle /\ b2.wave = "scout" /\ b2.calls = new
      /\ b2.market = b.market /\ b2.portfolio = b.portfolio
      /\ b2.candidates = b.candidates /\ b2.technical = b.technical
      /\ b2.news = b.news /\ b2.risk = b.risk
      /\ b2.results = m.results /\ b2.pm_status = b.pm_status
  BY <1>3, CallsChange
<1> HIDE DEF b2
<1>6. new \in SUBSET Call /\ \A x \in new : x.agent = "scout" /\ x.n = 0
  BY DEF Ask, Call, Agent
<1> HIDE DEF new
<1>7. Ledger(b2, A \cup Rows(new))
  <2>1. Held(m) = {} /\ Held(b2) = {}
    BY <1>0, <1>5 DEF Held
  <2>2. /\ CallsOf("scout") = {"scout"} /\ CallsOf("scout") \cap SoFar("regime") = {}
        /\ SoFar("regime") \cup CallsOf("scout") \subseteq SoFar("scout")
    BY WaveOrder DEF CallsOf
  <2>3. InOrder(new, A \cup Rows(new))
    <3>1. \A x, y \in new : x.agent = y.agent /\ x.n = y.n => x = y
      BY DEF new
    <3> QED BY <1>6, <3>1 DEF InOrder
  <2>4. \A x \in new : x.agent \in CallsOf(b2.wave) \ SoFar(m.wave)
                       /\ x.n \in IF x.agent \in PerSymbol THEN DOMAIN b2.candidates ELSE {0}
    BY <1>0, <1>5, <1>6, <2>2 DEF PerSymbol
  <2> QED BY <1>0, <1>4, <1>5, <1>6, <2>1, <2>2, <2>3, <2>4, WaveBegins
<1>8. b.candidates = <<>>
  BY <1>1, <1>2 DEF Decision
<1>9. Answering(b2) /\ Vetoes(b2, cache, since)
  BY <1>1, <1>5, <1>8 DEF Answering, Vetoes
<1>10. Decision(b2)
  BY <1>1, <1>2, <1>5, <1>8 DEF Decision, Wave
<1>11. Kept(b2, A \cup Rows(b2.calls), cache, since)
  BY <1>5, <1>7, <1>9, <1>10 DEF Kept
<1> QED BY <1>11 DEF b2, m, new

\* The technical analyst's and the risk analyst's answers are listed later.
LEMMA AnalystEnds ==
  ASSUME NEW b, NEW A, NEW cache, NEW since, Kept(b, A, cache, since),
         NEW c \in b.calls, NEW out, NEW m,
         \/ /\ c.agent = "technical" /\ out \in TechnicalOutput
            /\ m = [Rest(b, c) EXCEPT !.technical[c.n] = out]
         \/ /\ c.agent = "risk_analyst" /\ out \in RiskOutput
            /\ m = [Rest(b, c) EXCEPT !.risk[c.n] = out]
  PROVE  Kept(m, A, cache, since) /\ m.wave \in {"specialists", "risk"}
<1> DEFINE r == Rest(b, c)
<1>1. Ledger(b, A) /\ Answering(b) /\ Decision(b) /\ Vetoes(b, cache, since) /\ DOMAIN b = DOMAIN Idle
  BY DEF Kept, Decision
<1>2. /\ c.n \in DOMAIN b.candidates
      /\ c.agent = "technical" => b.wave = "specialists"
      /\ c.agent = "risk_analyst" => b.wave = "risk"
  BY <1>1, CallsPlace DEF PerSymbol
<1>3. /\ DOMAIN r = DOMAIN Idle /\ r.calls = b.calls \ {c} /\ r.wave = b.wave
      /\ r.market = b.market /\ r.portfolio = b.portfolio
      /\ r.candidates = b.candidates /\ r.technical = b.technical
      /\ r.news = b.news /\ r.risk = b.risk /\ r.results = b.results
      /\ r.proposal = b.proposal /\ r.pm_status = b.pm_status
  BY <1>1, RestFields
<1>4. /\ DOMAIN m = DOMAIN Idle /\ m.calls = b.calls \ {c} /\ m.wave = b.wave
      /\ m.market = b.market /\ m.portfolio = b.portfolio
      /\ m.candidates = b.candidates /\ m.news = b.news /\ m.results = b.results
      /\ m.proposal = b.proposal /\ m.pm_status = b.pm_status
      /\ \/ /\ c.agent = "technical" /\ out \in TechnicalOutput
            /\ m.technical = [b.technical EXCEPT ![c.n] = out] /\ m.risk = b.risk
         \/ /\ c.agent = "risk_analyst" /\ out \in RiskOutput
            /\ m.risk = [b.risk EXCEPT ![c.n] = out] /\ m.technical = b.technical
  <2> HIDE DEF r
  <2>1. CASE c.agent = "technical" /\ out \in TechnicalOutput /\ m = [r EXCEPT !.technical[c.n] = out]
    BY <1>3, <2>1, FieldNames
  <2>2. CASE c.agent = "risk_analyst" /\ out \in RiskOutput /\ m = [r EXCEPT !.risk[c.n] = out]
    BY <1>3, <2>2, FieldNames
  <2> QED BY <2>1, <2>2 DEF r
<1>5. Ledger(m, A)
  <2>1. Row(c.agent, c.n) \in Held(b)
    BY <1>2, <1>4 DEF Held, rows_of
  <2> QED BY <1>1, <1>4, <2>1, CallLeaves
<1>6. Nothing \notin TechnicalOutput \cup RiskOutput
  BY BusAssumption
<1>7. \A agents, n : Pending(b, agents, n) /\ ~Pending(m, agents, n) => c.agent \in agents /\ n = c.n
  BY <1>4 DEF Pending
<1>8. Answering(m)
  <2>1. CASE c.agent = "technical" /\ out \in TechnicalOutput
             /\ m.technical = [b.technical EXCEPT ![c.n] = out] /\ m.risk = b.risk
    <3>1. ASSUME NEW n \in DOMAIN b.candidates
          PROVE  /\ m.technical[n] = Nothing => Pending(m, {"technical"}, n)
                 /\ m.news[n] = Nothing => Pending(m, {"news", "headline_scorer"}, n)
                 /\ m.risk[n] = Nothing => m.wave = "specialists" \/ Pending(m, {"risk_analyst"}, n)
      <4>1. /\ b.technical[n] = Nothing => Pending(b, {"technical"}, n)
            /\ b.news[n] = Nothing => Pending(b, {"news", "headline_scorer"}, n)
            /\ b.risk[n] = Nothing => b.wave = "specialists" \/ Pending(b, {"risk_analyst"}, n)
            /\ n \in DOMAIN b.technical /\ n \in DOMAIN b.risk
        BY <1>1 DEF Answering
      <4>2. m.technical[n] = Nothing => n # c.n /\ b.technical[n] = Nothing
        BY <1>6, <2>1, <4>1
      <4> QED BY <1>4, <1>7, <2>1, <4>1, <4>2
    <3> QED BY <1>1, <1>2, <1>4, <2>1, <3>1 DEF Answering
  <2>2. CASE c.agent = "risk_analyst" /\ out \in RiskOutput
             /\ m.risk = [b.risk EXCEPT ![c.n] = out] /\ m.technical = b.technical
    <3>1. ASSUME NEW n \in DOMAIN b.candidates
          PROVE  /\ m.technical[n] = Nothing => Pending(m, {"technical"}, n)
                 /\ m.news[n] = Nothing => Pending(m, {"news", "headline_scorer"}, n)
                 /\ m.risk[n] = Nothing => m.wave = "specialists" \/ Pending(m, {"risk_analyst"}, n)
      <4>1. /\ b.technical[n] = Nothing => Pending(b, {"technical"}, n)
            /\ b.news[n] = Nothing => Pending(b, {"news", "headline_scorer"}, n)
            /\ b.risk[n] = Nothing => b.wave = "specialists" \/ Pending(b, {"risk_analyst"}, n)
            /\ n \in DOMAIN b.technical /\ n \in DOMAIN b.risk
        BY <1>1 DEF Answering
      <4>2. m.risk[n] = Nothing => n # c.n /\ b.risk[n] = Nothing
        BY <1>6, <2>2, <4>1
      <4> QED BY <1>4, <1>7, <2>2, <4>1, <4>2
    <3> QED BY <1>1, <1>2, <1>4, <2>2, <3>1 DEF Answering
  <2> QED BY <1>4, <2>1, <2>2
<1>9. Vetoes(m, cache, since)
  <2>1. \A n : Pending(m, {"news", "headline_scorer"}, n) => Pending(b, {"news", "headline_scorer"}, n)
    BY <1>4 DEF Pending
  <2> QED BY <1>1, <1>4, <2>1 DEF Vetoes
<1>10. Decision(m)
  BY <1>1, <1>2, <1>4 DEF Decision
<1> QED BY <1>2, <1>4, <1>5, <1>8, <1>9, <1>10 DEF Kept

\* An advocate's answer, or a rebuttal's, changes no answer that decides.
LEMMA AdvocateEnds ==
  ASSUME NEW b, NEW A, NEW cache, NEW since, Kept(b, A, cache, since),
         NEW c \in b.calls, c.agent \in {"bull", "bear", "bull_rebuttal", "bear_rebuttal"}
  PROVE  Kept(Noted(b, c), A, cache, since) /\ Noted(b, c).wave = "debate"
<1> DEFINE m == Noted(b, c)
<1>1. Ledger(b, A) /\ Answering(b) /\ Decision(b) /\ Vetoes(b, cache, since) /\ DOMAIN b = DOMAIN Idle
  BY DEF Kept, Decision
<1>2. b.wave = "debate" /\ Held(b) = {}
  BY <1>1, CallsPlace DEF Held
<1>3. /\ DOMAIN m = DOMAIN Idle /\ m.calls = b.calls \ {c} /\ m.wave = b.wave
      /\ m.market = b.market /\ m.portfolio = b.portfolio
      /\ m.candidates = b.candidates /\ m.technical = b.technical
      /\ m.news = b.news /\ m.risk = b.risk
      /\ m.results = b.results (+) SetToBag({Row(c.agent, c.n)})
      /\ m.proposal = b.proposal /\ m.pm_status = b.pm_status
  BY <1>1, NotedFields
<1> HIDE DEF m
<1>4. Ledger(m, A)
  BY <1>1, <1>2, <1>3, CallLeaves
<1>5. \A agents, n : Pending(b, agents, n) /\ ~Pending(m, agents, n) => c.agent \in agents /\ n = c.n
  BY <1>3 DEF Pending
<1>6. \A n : Pending(m, {"news", "headline_scorer"}, n) => Pending(b, {"news", "headline_scorer"}, n)
  BY <1>3 DEF Pending
<1>7. Answering(m)
  <2>1. /\ m.candidates \in Seq(Symbols)
        /\ m.technical \in [DOMAIN m.candidates -> TechnicalOutput \cup {Nothing}]
        /\ m.news \in [DOMAIN m.candidates -> NewsOutput \cup {Nothing}]
        /\ m.risk \in [DOMAIN m.candidates -> RiskOutput \cup {Nothing}]
    BY <1>1, <1>3 DEF Answering
  <2>2. ASSUME NEW n \in DOMAIN b.candidates
        PROVE  /\ b.technical[n] = Nothing => Pending(m, {"technical"}, n)
               /\ b.news[n] = Nothing => Pending(m, {"news", "headline_scorer"}, n)
               /\ b.risk[n] = Nothing => b.wave = "specialists" \/ Pending(m, {"risk_analyst"}, n)
    BY <1>1, <1>5 DEF Answering
  <2> QED BY <1>3, <2>1, <2>2 DEF Answering
<1>8. Vetoes(m, cache, since)
  BY <1>1, <1>3, <1>6 DEF Vetoes
<1>9. Decision(m)
  BY <1>1, <1>2, <1>3 DEF Decision
<1> QED BY <1>2, <1>3, <1>4, <1>7, <1>8, <1>9 DEF Kept, m

\* More calls of the wave that is under way.
Joined(b, calls) == [b EXCEPT !.calls = @ \cup calls]

LEMMA JoinedFields ==
  ASSUME NEW b, DOMAIN b = DOMAIN Idle, NEW calls
  PROVE  LET b2 == Joined(b, calls)
         IN /\ DOMAIN b2 = DOMAIN Idle /\ b2.calls = b.calls \cup calls /\ b2.wave = b.wave
            /\ b2.market = b.market /\ b2.portfolio = b.portfolio
            /\ b2.candidates = b.candidates /\ b2.technical = b.technical
            /\ b2.news = b.news /\ b2.risk = b.risk /\ b2.results = b.results
            /\ b2.proposal = b.proposal /\ b2.pm_status = b.pm_status
  BY FieldNames DEF Joined

\* The scored headlines are for the news agent, who was not asked about them
\* before.
LEMMA ScorerEnds ==
  ASSUME NEW b, NEW A, NEW cache, NEW since, Kept(b, A, cache, since),
         NEW c \in b.calls, c.agent = "headline_scorer"
  PROVE  LET b2 == Joined(Noted(b, c), {Ask("news", c.n)})
         IN Kept(b2, A \cup Rows(b2.calls), cache, since)
<1> DEFINE m == Noted(b, c)
           new == {Ask("news", c.n)}
           b2 == Joined(m, new)
<1>1. Ledger(b, A) /\ Answering(b) /\ Decision(b) /\ Vetoes(b, cache, since) /\ DOMAIN b = DOMAIN Idle
  BY DEF Kept, Decision
<1>2. b.wave = "specialists" /\ c.n \in DOMAIN b.candidates /\ c.n \in Nat
  BY <1>1, CallsPlace DEF PerSymbol, Call
<1>3. /\ DOMAIN m = DOMAIN Idle /\ m.calls = b.calls \ {c} /\ m.wave = b.wave
      /\ m.market = b.market /\ m.portfolio = b.portfolio
      /\ m.candidates = b.candidates /\ m.technical = b.technical
      /\ m.news = b.news /\ m.risk = b.risk
      /\ m.results = b.results (+) SetToBag({Row(c.agent, c.n)})
      /\ m.proposal = b.proposal /\ m.pm_status = b.pm_status
  BY <1>1, NotedFields
<1> HIDE DEF m
<1>4. Ledger(m, A)
  <2>1. Row(c.agent, c.n) \notin Held(b)
    BY <1>2 DEF Held, rows_of, Row
  <2> QED BY <1>1, <1>3, <2>1, CallLeaves
<1>5. /\ DOMAIN b2 = DOMAIN Idle /\ b2.calls = m.calls \cup new /\ b2.wave = b.wave
      /\ b2.market = b.market /\ b2.portfolio = b.portfolio
      /\ b2.candidates = b.candidates /\ b2.technical = b.technical
      /\ b2.news = b.news /\ b2.risk = b.risk /\ b2.results = m.results
      /\ b2.proposal = b.proposal /\ b2.pm_status = b.pm_status
  BY <1>3, JoinedFields
<1> HIDE DEF b2
<1>6. /\ new \in SUBSET Call /\ \A x \in new : x.agent = "news" /\ x.n = c.n
      /\ \E x \in new : x.agent = "news" /\ x.n = c.n
      /\ \A x, y \in new : x = y
      /\ Rows(new) = {Row("news", c.n)}
  BY <1>2 DEF Ask, Call, Agent, PerSymbol, Rows
<1> HIDE DEF new
<1>7. /\ \A x, y \in b.calls : x.agent = y.agent /\ x.n = y.n => x = y
      /\ Row("news", c.n) \notin A
      /\ Rows(b.calls) \subseteq A
  BY <1>1 DEF Ledger, InOrder
<1>8. InOrder(m.calls \cup new, A \cup Rows(new))
  <2>1. \A x \in m.calls : x.agent = "news" => x.n # c.n
    <3> SUFFICES ASSUME NEW x \in m.calls, x.agent = "news", x.n = c.n PROVE FALSE
      OBVIOUS
    <3>1. Row("news", c.n) \in Rows(b.calls)
      BY <1>3 DEF Rows
    <3> QED BY <1>7, <3>1
  <2>2. \A x \in m.calls : x.agent = "headline_scorer" => x.n # c.n
    BY <1>3, <1>7
  <2>3. \A x, y \in m.calls \cup new : x.agent = y.agent /\ x.n = y.n => x = y
    BY <1>3, <1>6, <1>7, <2>1
  <2>4. ASSUME NEW x \in m.calls \cup new
        PROVE  /\ x.agent = "headline_scorer" => Row("news", x.n) \notin A \cup Rows(new)
               /\ x.agent \in {"bull", "bear"} =>
                    /\ Row("bull_rebuttal", x.n) \notin A \cup Rows(new)
                    /\ Row("bear_rebuttal", x.n) \notin A \cup Rows(new)
    <3>1. CASE x \in new
      BY <1>6, <3>1
    <3>2. CASE x \in m.calls
      <4>1. InOrder(m.calls, A)
        BY <1>4 DEF Ledger
      <4>2. \A r \in Rows(new) : r.agent = "news" /\ r.n = c.n
        BY <1>6 DEF Row
      <4> QED BY <2>2, <3>2, <4>1, <4>2 DEF InOrder, Row
    <3> QED BY <3>1, <3>2
  <2> QED BY <2>3, <2>4 DEF InOrder
<1>9. Ledger(b2, A \cup Rows(new))
  <2>1. \A x \in new : x.agent \in CallsOf(m.wave) \cap SoFar(m.wave) \cap PerSymbol
                       /\ x.n \in DOMAIN m.candidates
    BY <1>2, <1>3, <1>6 DEF CallsOf, SoFar, PerSymbol
  <2>2. Rows(new) \cap A = {}
    BY <1>6, <1>7
  <2> QED BY <1>3, <1>4, <1>5, <1>6, <1>8, <2>1, <2>2, CallsJoin
<1>10. \A agents, n : Pending(b, agents, n) =>
                       Pending(b2, agents, n) \/ (c.agent \in agents /\ n = c.n)
  BY <1>3, <1>5 DEF Pending
<1>11. Pending(b2, {"news", "headline_scorer"}, c.n)
  BY <1>5, <1>6 DEF Pending
<1>12. Answering(b2)
  BY <1>1, <1>2, <1>5, <1>10, <1>11 DEF Answering
<1>13. \A n : Pending(b2, {"news", "headline_scorer"}, n) => Pending(b, {"news", "headline_scorer"}, n)
  BY <1>3, <1>5, <1>6 DEF Pending
<1>14. Vetoes(b2, cache, since)
  BY <1>1, <1>5, <1>13 DEF Vetoes
<1>15. Decision(b2)
  BY <1>1, <1>2, <1>5 DEF Decision
<1>16. A \cup Rows(b2.calls) = A \cup Rows(new)
  <2>1. Rows(b2.calls) = Rows(m.calls) \cup Rows(new) /\ Rows(m.calls) \subseteq Rows(b.calls)
    BY <1>3, <1>5 DEF Rows
  <2> QED BY <1>7, <2>1
<1> QED BY <1>9, <1>12, <1>14, <1>15, <1>16 DEF Kept, b2, m, new

\* The rebuttals are asked for when both advocates have spoken, and once.
LEMMA RebuttalsBegin ==
  ASSUME NEW b, NEW A, NEW cache, NEW since, Kept(b, A, cache, since),
         NEW c \in b.calls, c.agent \in {"bull", "bear"},
         \A d \in b.calls \ {c} : d.n # c.n
  PROVE  LET b2 == Joined(Noted(b, c), {Ask("bull_rebuttal", c.n), Ask("bear_rebuttal", c.n)})
         IN Kept(b2, A \cup Rows(b2.calls), cache, since)
<1> DEFINE m == Noted(b, c)
           new == {Ask("bull_rebuttal", c.n), Ask("bear_rebuttal", c.n)}
           b2 == Joined(m, new)
<1>1. /\ Kept(m, A, cache, since) /\ m.wave = "debate" /\ m.calls = b.calls \ {c}
      /\ DOMAIN m = DOMAIN Idle /\ m.candidates = b.candidates
  <2>1. DOMAIN b = DOMAIN Idle
    BY DEF Kept, Decision
  <2>2. Kept(m, A, cache, since) /\ m.wave = "debate"
    BY AdvocateEnds
  <2>3. /\ DOMAIN m = DOMAIN Idle /\ m.calls = b.calls \ {c} /\ m.wave = b.wave
        /\ m.market = b.market /\ m.portfolio = b.portfolio
        /\ m.candidates = b.candidates /\ m.technical = b.technical
        /\ m.news = b.news /\ m.risk = b.risk
        /\ m.results = b.results (+) SetToBag({Row(c.agent, c.n)})
        /\ m.proposal = b.proposal /\ m.pm_status = b.pm_status
    <3> HIDE DEF new, b2
    <3> QED BY <2>1, NotedFields
  <2> QED BY <2>2, <2>3
<1>2. /\ c.n \in DOMAIN b.candidates /\ c.n \in Nat /\ InOrder(b.calls, A)
      /\ Rows(b.calls) \subseteq A
  BY CallsPlace DEF PerSymbol, Call, Kept, Ledger
<1> HIDE DEF m
<1>3. /\ DOMAIN b2 = DOMAIN Idle /\ b2.calls = m.calls \cup new /\ b2.wave = m.wave
      /\ b2.market = m.market /\ b2.portfolio = m.portfolio
      /\ b2.candidates = m.candidates /\ b2.technical = m.technical
      /\ b2.news = m.news /\ b2.risk = m.risk /\ b2.results = m.results
      /\ b2.proposal = m.proposal /\ b2.pm_status = m.pm_status
  BY <1>1, JoinedFields
<1> HIDE DEF b2
<1>4. /\ new \in SUBSET Call
      /\ \A x \in new : x.agent \in {"bull_rebuttal", "bear_rebuttal"} /\ x.n = c.n
      /\ \A x, y \in new : x.agent = y.agent => x = y
      /\ Rows(new) = {Row("bull_rebuttal", c.n), Row("bear_rebuttal", c.n)}
  BY <1>2 DEF Ask, Call, Agent, PerSymbol, Rows
<1> HIDE DEF new
<1>5. Rows(new) \cap A = {}
  BY <1>2, <1>4 DEF InOrder
<1>6. InOrder(m.calls \cup new, A \cup Rows(new))
  <2>1. \A x, y \in m.calls \cup new : x.agent = y.agent /\ x.n = y.n => x = y
    BY <1>1, <1>2, <1>4 DEF InOrder
  <2>2. ASSUME NEW x \in m.calls \cup new
        PROVE  /\ x.agent = "headline_scorer" => Row("news", x.n) \notin A \cup Rows(new)
               /\ x.agent \in {"bull", "bear"} =>
                    /\ Row("bull_rebuttal", x.n) \notin A \cup Rows(new)
                    /\ Row("bear_rebuttal", x.n) \notin A \cup Rows(new)
    <3>1. CASE x \in new
      BY <1>4, <3>1
    <3>2. CASE x \in m.calls
      <4>1. InOrder(m.calls, A) /\ x.n # c.n
        BY <1>1, <3>2 DEF Kept, Ledger
      <4>2. \A r \in Rows(new) : r.agent # "news" /\ r.n = c.n
        BY <1>4 DEF Row
      <4> QED BY <3>2, <4>1, <4>2 DEF InOrder, Row
    <3> QED BY <3>1, <3>2
  <2> QED BY <2>1, <2>2 DEF InOrder
<1>7. Ledger(b2, A \cup Rows(new))
  <2>1. \A x \in new : x.agent \in CallsOf(m.wave) \cap SoFar(m.wave) \cap PerSymbol
                       /\ x.n \in DOMAIN m.candidates
    BY <1>1, <1>2, <1>4 DEF CallsOf, SoFar, PerSymbol, Agent
  <2>2. Ledger(m, A)
    BY <1>1 DEF Kept
  <2> QED BY <1>3, <1>4, <1>5, <1>6, <2>1, <2>2, CallsJoin
<1>8. /\ \A agents, n : Pending(m, agents, n) => Pending(b2, agents, n)
      /\ \A n : Pending(b2, {"news", "headline_scorer"}, n) => Pending(m, {"news", "headline_scorer"}, n)
  BY <1>3, <1>4 DEF Pending
<1>9. Answering(b2)
  BY <1>1, <1>3, <1>8 DEF Answering, Kept
<1>10. Vetoes(b2, cache, since)
  BY <1>1, <1>3, <1>8 DEF Vetoes, Kept
<1>11. Decision(b2)
  BY <1>1, <1>3 DEF Decision, Kept
<1>12. A \cup Rows(b2.calls) = A \cup Rows(new)
  <2>1. Rows(b2.calls) = Rows(m.calls) \cup Rows(new) /\ Rows(m.calls) \subseteq Rows(b.calls)
    BY <1>1, <1>3 DEF Rows
  <2> QED BY <1>2, <2>1
<1> QED BY <1>7, <1>9, <1>10, <1>11, <1>12 DEF Kept, b2, m, new

LEMMA DecidedFields ==
  ASSUME NEW b, DOMAIN b = DOMAIN Idle, NEW proposal, NEW pm_status
  PROVE  LET b2 == decided(b, proposal, pm_status)
         IN /\ DOMAIN b2 = DOMAIN Idle /\ b2.wave = "decided" /\ b2.calls = {}
            /\ b2.market = b.market /\ b2.portfolio = b.portfolio
            /\ b2.candidates = b.candidates /\ b2.technical = b.technical
            /\ b2.news = b.news /\ b2.risk = b.risk /\ b2.results = b.results
            /\ b2.proposal = proposal /\ b2.pm_status = pm_status
<1> DEFINE w == with_calls(b, "decided", {})
<1>1. /\ DOMAIN w = DOMAIN Idle /\ w.wave = "decided" /\ w.calls = {}
      /\ w.market = b.market /\ w.portfolio = b.portfolio
      /\ w.candidates = b.candidates /\ w.technical = b.technical
      /\ w.news = b.news /\ w.risk = b.risk /\ w.results = b.results
  BY CallsChange
<1> HIDE DEF w
<1>2. decided(b, proposal, pm_status) = [w EXCEPT !.proposal = proposal, !.pm_status = pm_status]
  BY DEF decided, w
<1> QED BY <1>1, <1>2, FieldNames

\* The portfolio manager's answer, or the arbiter's in its place, ends the bar.
LEMMA PMEnds ==
  ASSUME NEW b, NEW A, NEW cache, NEW since, Kept(b, A, cache, since),
         NEW c \in b.calls, c.agent = "pm", NEW out \in Proposal,
         NEW status \in {"ok", "stub", "fallback"},
         status # "ok" => out = deterministic_arbitrate(opinions(b), b.portfolio)
  PROVE  LET b2 == decided(Noted(b, c), out, status)
         IN Kept(b2, A, cache, since) /\ b2.calls = {}
<1> DEFINE m == Noted(b, c)
           b2 == decided(m, out, status)
<1>1. Ledger(b, A) /\ Answering(b) /\ Decision(b) /\ Vetoes(b, cache, since) /\ DOMAIN b = DOMAIN Idle
  BY DEF Kept, Decision
<1>2. b.wave = "pm" /\ b.calls = {c} /\ Row(c.agent, c.n) \notin Held(b)
  BY <1>1, CallsPlace
<1>3. /\ DOMAIN m = DOMAIN Idle /\ m.calls = b.calls \ {c} /\ m.wave = b.wave
      /\ m.market = b.market /\ m.portfolio = b.portfolio
      /\ m.candidates = b.candidates /\ m.technical = b.technical
      /\ m.news = b.news /\ m.risk = b.risk
      /\ m.results = b.results (+) SetToBag({Row(c.agent, c.n)})
      /\ m.proposal = b.proposal /\ m.pm_status = b.pm_status
  BY <1>1, NotedFields
<1> HIDE DEF m
<1>4. m.calls = {} /\ m.wave = "pm" /\ Ledger(m, A)
  BY <1>1, <1>2, <1>3, CallLeaves
<1>5. /\ DOMAIN b2 = DOMAIN Idle /\ b2.wave = "decided" /\ b2.calls = {}
      /\ b2.market = b.market /\ b2.portfolio = b.portfolio
      /\ b2.candidates = b.candidates /\ b2.technical = b.technical
      /\ b2.news = b.news /\ b2.risk = b.risk /\ b2.results = m.results
      /\ b2.proposal = out /\ b2.pm_status = status
  BY <1>3, DecidedFields
<1> HIDE DEF b2
<1>6. Ledger(b2, A)
  <2>1. Held(m) = {} /\ Held(b2) = {} /\ Rows({}) = {}
    BY <1>4, <1>5 DEF Held, Rows
  <2>2. SoFar("pm") \cup CallsOf("decided") \subseteq SoFar("decided")
    BY WaveOrder
  <2>3. InOrder({}, A \cup Rows({}))
    BY DEF InOrder
  <2>4. Ledger(b2, A \cup Rows({}))
    BY <1>4, <1>5, <2>1, <2>2, <2>3, WaveBegins
  <2> QED BY <2>1, <2>4
<1>7. \A agents, n : Pending(b, agents, n) => c.agent \in agents
  BY <1>2 DEF Pending
<1>8. Answering(b2)
  BY <1>1, <1>2, <1>5, <1>7 DEF Answering
<1>9. \A n : ~Pending(b2, {"news", "headline_scorer"}, n)
  BY <1>5 DEF Pending
<1>10. Vetoes(b2, cache, since)
  BY <1>1, <1>5, <1>9 DEF Vetoes
<1>11. opinions(b2) = opinions(b)
  BY <1>5 DEF opinions
<1>12. Decision(b2)
  BY <1>1, <1>2, <1>5, <1>11 DEF Decision, Wave
<1> QED BY <1>5, <1>6, <1>8, <1>10, <1>12 DEF Kept, b2, m

\* What a rating of a candidate's news changes: the opinions, the cache and
\* the history.
Rated(b, c, out) == [Noted(b, c) EXCEPT !.news[c.n] = out]
CachedFor(cache, s, out) == [cache EXCEPT ![s] = [age |-> 0, news |-> out]]
AlarmOf(since, s, out) ==
  IF out.news_risk = "CRITICAL" THEN [since EXCEPT ![s] = 0] ELSE since

LEMMA NewsEnds ==
  ASSUME NEW b, NEW A, NEW cache \in [Symbols -> News \cup {Nothing}],
         NEW since \in [Symbols -> 0..NewsTTL \cup {Nothing}], Kept(b, A, cache, since),
         NEW c \in b.calls, c.agent = "news", NEW out \in NewsOutput
  PROVE  /\ Kept(Rated(b, c, out), A, CachedFor(cache, b.candidates[c.n], out),
                 AlarmOf(since, b.candidates[c.n], out))
         /\ Rated(b, c, out).wave = "specialists"
<1> DEFINE r == Noted(b, c)
           m == Rated(b, c, out)
           s == b.candidates[c.n]
           entry == [age |-> 0, news |-> out]
           cache2 == CachedFor(cache, s, out)
           since2 == AlarmOf(since, s, out)
<1>1. Ledger(b, A) /\ Answering(b) /\ Decision(b) /\ Vetoes(b, cache, since) /\ DOMAIN b = DOMAIN Idle
  BY DEF Kept, Decision
<1>2. b.wave = "specialists" /\ c.n \in DOMAIN b.candidates /\ s \in Symbols
  BY <1>1, CallsPlace DEF PerSymbol, Answering
<1>3. /\ DOMAIN r = DOMAIN Idle /\ r.calls = b.calls \ {c} /\ r.wave = b.wave
      /\ r.market = b.market /\ r.portfolio = b.portfolio
      /\ r.candidates = b.candidates /\ r.technical = b.technical
      /\ r.news = b.news /\ r.risk = b.risk
      /\ r.results = b.results (+) SetToBag({Row(c.agent, c.n)})
      /\ r.proposal = b.proposal /\ r.pm_status = b.pm_status
  BY <1>1, NotedFields
<1>0. m = [r EXCEPT !.news[c.n] = out]
  BY DEF Rated
<1> HIDE DEF r
<1>4. /\ DOMAIN m = DOMAIN Idle /\ m.calls = b.calls \ {c} /\ m.wave = b.wave
      /\ m.market = b.market /\ m.portfolio = b.portfolio
      /\ m.candidates = b.candidates /\ m.technical = b.technical
      /\ m.news = [b.news EXCEPT ![c.n] = out] /\ m.risk = b.risk
      /\ m.results = b.results (+) SetToBag({Row(c.agent, c.n)})
      /\ m.proposal = b.proposal /\ m.pm_status = b.pm_status
  BY <1>0, <1>3, FieldNames
<1> HIDE DEF m, cache2, since2
<1>5. Ledger(m, A)
  <2>1. Row(c.agent, c.n) \notin Held(b)
    BY <1>2 DEF Held, rows_of, Row
  <2> QED BY <1>1, <1>4, <2>1, CallLeaves
<1>6. \A agents, n : Pending(b, agents, n) /\ ~Pending(m, agents, n) => c.agent \in agents /\ n = c.n
  BY <1>4 DEF Pending
<1>7. Nothing \notin NewsOutput /\ m.news \in [DOMAIN b.candidates -> NewsOutput \cup {Nothing}]
  <2>1. Nothing \notin NewsOutput
    BY BusAssumption
  <2> QED BY <1>1, <1>2, <1>4, <2>1 DEF Answering
<1>8. Answering(m)
  <2>1. ASSUME NEW n \in DOMAIN b.candidates
        PROVE  /\ m.technical[n] = Nothing => Pending(m, {"technical"}, n)
               /\ m.news[n] = Nothing => Pending(m, {"news", "headline_scorer"}, n)
               /\ m.risk[n] = Nothing => m.wave = "specialists" \/ Pending(m, {"risk_analyst"}, n)
    <3>1. /\ b.technical[n] = Nothing => Pending(b, {"technical"}, n)
          /\ b.news[n] = Nothing => Pending(b, {"news", "headline_scorer"}, n)
          /\ n \in DOMAIN b.news
      BY <1>1 DEF Answering
    <3>2. m.news[n] = Nothing => n # c.n /\ b.news[n] = Nothing
      BY <1>4, <1>7, <3>1
    <3> QED BY <1>2, <1>4, <1>6, <3>1, <3>2
  <2> QED BY <1>1, <1>4, <1>7, <2>1 DEF Answering
<1>9. Vetoes(m, cache2, since2)
  <2> SUFFICES ASSUME NamedOnce
               PROVE  /\ IsInjective(m.candidates)
                      /\ \A x \in Symbols :
                           since2[x] # Nothing => /\ cache2[x] # Nothing
                                                  /\ cache2[x].age = since2[x]
                                                  /\ cache2[x].news.news_risk = "CRITICAL"
                      /\ \A n \in DOMAIN m.candidates :
                           since2[m.candidates[n]] # Nothing =>
                             /\ m.news[n] # Nothing /\ m.news[n].news_risk = "CRITICAL"
                             /\ ~Pending(m, {"news", "headline_scorer"}, n)
    BY DEF Vetoes
  <2>1. /\ IsInjective(b.candidates)
        /\ \A x \in Symbols :
             since[x] # Nothing => /\ cache[x] # Nothing /\ cache[x].age = since[x]
                                   /\ cache[x].news.news_risk = "CRITICAL"
        /\ \A n \in DOMAIN b.candidates :
             since[b.candidates[n]] # Nothing =>
               /\ b.news[n] # Nothing /\ b.news[n].news_risk = "CRITICAL"
               /\ ~Pending(b, {"news", "headline_scorer"}, n)
    BY <1>1 DEF Vetoes
  <2>2. since[s] = Nothing
    <3>1. Pending(b, {"news", "headline_scorer"}, c.n)
      BY DEF Pending
    <3> QED BY <1>2, <2>1, <3>1
  <2>3. \A x \in Symbols : x # s => cache2[x] = cache[x] /\ since2[x] = since[x]
    BY DEF CachedFor, AlarmOf, cache2, since2
  <2>4. /\ cache2[s] = entry /\ entry.age = 0 /\ entry.news = out /\ entry # Nothing
        /\ since2[s] = IF out.news_risk = "CRITICAL" THEN 0 ELSE Nothing
    <3>1. entry \in News
      BY BusAssumption DEF News
    <3>2. Nothing \notin News
      BY BusAssumption
    <3> QED BY <1>2, <2>2, <3>1, <3>2 DEF CachedFor, AlarmOf, cache2, since2
  <2> HIDE DEF entry
  <2>5. \A x \in Symbols :
          since2[x] # Nothing => /\ cache2[x] # Nothing /\ cache2[x].age = since2[x]
                                 /\ cache2[x].news.news_risk = "CRITICAL"
    BY <2>1, <2>3, <2>4
  <2>6. ASSUME NEW n \in DOMAIN b.candidates, since2[b.candidates[n]] # Nothing
        PROVE  /\ m.news[n] # Nothing /\ m.news[n].news_risk = "CRITICAL"
               /\ ~Pending(m, {"news", "headline_scorer"}, n)
    <3>1. CASE n = c.n
      <4>1. out.news_risk = "CRITICAL"
        BY <2>4, <2>6, <3>1
      <4>2. m.news[n] = out
        BY <1>1, <1>2, <1>4, <3>1 DEF Answering
      <4>3. ASSUME NEW d \in b.calls, d.agent \in {"news", "headline_scorer"}, d.n = c.n
            PROVE  d = c
        <5>1. InOrder(b.calls, A) /\ Rows(b.calls) \subseteq A
          BY <1>1 DEF Ledger
        <5>2. d.agent = "headline_scorer" => Row("news", c.n) \notin A
          BY <4>3, <5>1 DEF InOrder
        <5>3. Row("news", c.n) \in Rows(b.calls)
          BY DEF Rows
        <5> QED BY <4>3, <5>1, <5>2, <5>3 DEF InOrder
      <4>4. ~Pending(m, {"news", "headline_scorer"}, n)
        BY <1>4, <3>1, <4>3 DEF Pending
      <4> QED BY <1>7, <4>1, <4>2, <4>4
    <3>2. CASE n # c.n
      <4>1. b.candidates[n] # s /\ b.candidates[n] \in Symbols
        BY <1>1, <1>2, <2>1, <3>2 DEF IsInjective, Answering
      <4>2. m.news[n] = b.news[n]
        BY <1>1, <1>4, <3>2 DEF Answering
      <4>3. Pending(m, {"news", "headline_scorer"}, n) => Pending(b, {"news", "headline_scorer"}, n)
        BY <1>4 DEF Pending
      <4> QED BY <2>1, <2>3, <2>6, <4>1, <4>2, <4>3
    <3> QED BY <3>1, <3>2
  <2> QED BY <1>4, <2>1, <2>5, <2>6
<1>10. Decision(m)
  BY <1>1, <1>2, <1>4 DEF Decision
<1> QED BY <1>2, <1>4, <1>5, <1>8, <1>9, <1>10 DEF Kept, m, s, cache2, since2

LEMMA ScreenedFields ==
  ASSUME NEW b, DOMAIN b = DOMAIN Idle, NEW candidates
  PROVE  LET b2 == [b EXCEPT !.candidates = candidates]
         IN /\ DOMAIN b2 = DOMAIN Idle /\ b2.calls = b.calls /\ b2.wave = b.wave
            /\ b2.market = b.market /\ b2.portfolio = b.portfolio
            /\ b2.candidates = candidates /\ b2.technical = b.technical
            /\ b2.news = b.news /\ b2.risk = b.risk /\ b2.results = b.results
            /\ b2.proposal = b.proposal /\ b2.pm_status = b.pm_status
  BY FieldNames

\* What the specialists are asked, and what the cache already answers.
LEMMA SpecialistsFields ==
  ASSUME NEW b, DOMAIN b = DOMAIN Idle, b.candidates \in Seq(Symbols),
         news_cache \in [Symbols -> News \cup {Nothing}]
  PROVE  LET b2 == specialists(b)
             first == IF b.market.headlines THEN "headline_scorer" ELSE "news"
             unknown == {n \in DOMAIN b.candidates : news_cache[b.candidates[n]] = Nothing}
         IN /\ DOMAIN b2 = DOMAIN Idle /\ b2.wave = "specialists"
            /\ b2.calls = AskEach("technical", b.candidates) \cup {Ask(first, n) : n \in unknown}
            /\ b2.market = b.market /\ b2.portfolio = b.portfolio
            /\ b2.candidates = b.candidates /\ b2.results = b.results
            /\ b2.technical = [n \in DOMAIN b.candidates |-> Nothing]
            /\ b2.risk = [n \in DOMAIN b.candidates |-> Nothing]
            /\ b2.news = [n \in DOMAIN b.candidates |->
                            IF n \in unknown THEN Nothing ELSE news_cache[b.candidates[n]].news]
            /\ b2.pm_status = b.pm_status
<1> DEFINE known == [n \in DOMAIN b.candidates |-> news_cache[b.candidates[n]]]
           first == IF b.market.headlines THEN "headline_scorer" ELSE "news"
           unknown == {n \in DOMAIN b.candidates : news_cache[b.candidates[n]] = Nothing}
           new == AskEach("technical", b.candidates)
                    \cup {Ask(first, n) : n \in {m \in DOMAIN known : known[m] = Nothing}}
           none == [n \in DOMAIN known |-> Nothing]
           news == [n \in DOMAIN known |-> IF known[n] = Nothing THEN Nothing ELSE known[n].news]
           w == with_calls(b, "specialists", new)
<1>1. specialists(b) = [w EXCEPT !.news = news, !.technical = none, !.risk = none]
  BY DEF specialists
<1>2. /\ DOMAIN w = DOMAIN Idle /\ w.wave = "specialists" /\ w.calls = new
      /\ w.market = b.market /\ w.portfolio = b.portfolio
      /\ w.candidates = b.candidates /\ w.technical = b.technical
      /\ w.news = b.news /\ w.risk = b.risk /\ w.results = b.results
      /\ w.proposal = b.proposal /\ w.pm_status = b.pm_status
  <2> HIDE DEF new
  <2> QED BY CallsChange
<1>3. DOMAIN known = DOMAIN b.candidates /\ {m \in DOMAIN known : known[m] = Nothing} = unknown
  OBVIOUS
<1>4. news = [n \in DOMAIN b.candidates |->
                IF n \in unknown THEN Nothing ELSE news_cache[b.candidates[n]].news]
  OBVIOUS
<1>5. new = AskEach("technical", b.candidates) \cup {Ask(first, n) : n \in unknown}
  BY <1>3
<1>6. none = [n \in DOMAIN b.candidates |-> Nothing]
  OBVIOUS
<1> HIDE DEF w, news, none, new, known, unknown, first
<1>7. LET b2 == specialists(b)
      IN /\ DOMAIN b2 = DOMAIN Idle /\ b2.wave = "specialists" /\ b2.calls = new
         /\ b2.market = b.market /\ b2.portfolio = b.portfolio
         /\ b2.candidates = b.candidates /\ b2.results = b.results
         /\ b2.technical = none /\ b2.risk = none /\ b2.news = news
         /\ b2.pm_status = b.pm_status
  BY <1>1, <1>2, FieldNames
<1> QED BY <1>4, <1>5, <1>6, <1>7 DEF unknown, first

\* The shortlist is empty and the bar is over, or its candidates go to the
\* specialists.
LEMMA ScoutEnds ==
  ASSUME NEW b, NEW A, NEW since, Kept(b, A, news_cache, since),
         news_cache \in [Symbols -> News \cup {Nothing}],
         NEW c \in b.calls, c.agent = "scout",
         NEW named \in Seq(Symbols), NamedOnce => IsInjective(named)
  PROVE  LET s == [Noted(b, c) EXCEPT !.candidates = shortlisted(Noted(b, c), named)]
             b2 == IF s.candidates = <<>>
                   THEN decided(s, HOLD_about(NoSymbol, 0), Nothing) ELSE specialists(s)
         IN Kept(b2, A \cup Rows(b2.calls), news_cache, since)
<1> DEFINE m == Noted(b, c)
           short == shortlisted(m, named)
           s == [m EXCEPT !.candidates = short]
           b2 == IF s.candidates = <<>>
                 THEN decided(s, HOLD_about(NoSymbol, 0), Nothing) ELSE specialists(s)
<1>1. Ledger(b, A) /\ Answering(b) /\ Decision(b) /\ Vetoes(b, news_cache, since) /\ DOMAIN b = DOMAIN Idle
  BY DEF Kept, Decision
<1>2. b.wave = "scout" /\ b.calls = {c} /\ Row(c.agent, c.n) \notin Held(b) /\ b.candidates = <<>>
  <2>1. b.wave = "scout" /\ b.calls = {c} /\ Row(c.agent, c.n) \notin Held(b)
    BY <1>1, CallsPlace
  <2> QED BY <1>1, <2>1 DEF Decision
<1>3. /\ DOMAIN m = DOMAIN Idle /\ m.calls = b.calls \ {c} /\ m.wave = b.wave
      /\ m.market = b.market /\ m.portfolio = b.portfolio
      /\ m.candidates = b.candidates /\ m.technical = b.technical
      /\ m.news = b.news /\ m.risk = b.risk
      /\ m.results = b.results (+) SetToBag({Row(c.agent, c.n)})
      /\ m.proposal = b.proposal /\ m.pm_status = b.pm_status
  BY <1>1, NotedFields
<1>4. short \in Seq(Symbols) /\ (NamedOnce => IsInjective(short))
  BY ShortlistIsOfSymbols
<1> HIDE DEF m, short
<1>5. m.calls = {} /\ m.wave = "scout" /\ Held(m) = {} /\ Ledger(m, A) /\ Rows({}) = {}
  BY <1>1, <1>2, <1>3, CallLeaves DEF Held, Rows
<1>6. /\ DOMAIN s = DOMAIN Idle /\ s.calls = {} /\ s.wave = "scout"
      /\ s.market = b.market /\ s.portfolio = b.portfolio
      /\ s.candidates = short /\ s.technical = b.technical
      /\ s.news = b.news /\ s.risk = b.risk /\ s.results = m.results
      /\ s.proposal = b.proposal /\ s.pm_status = b.pm_status
  BY <1>3, <1>5, ScreenedFields
<1> HIDE DEF s
<1>7. CASE short = <<>>
  <2> DEFINE hold == HOLD_about(NoSymbol, 0)
  <2>1. b2 = decided(s, hold, Nothing)
    BY <1>6, <1>7
  <2>2. hold = deterministic_arbitrate(<<>>, b.portfolio)
    BY DEF deterministic_arbitrate
  <2>3. hold \in Proposal
    BY HoldIsProposal DEF Percent
  <2> HIDE DEF hold, b2
  <2>4. /\ DOMAIN b2 = DOMAIN Idle /\ b2.wave = "decided" /\ b2.calls = {}
        /\ b2.market = b.market /\ b2.portfolio = b.portfolio
        /\ b2.candidates = short /\ b2.technical = b.technical
        /\ b2.news = b.news /\ b2.risk = b.risk /\ b2.results = m.results
        /\ b2.proposal = hold /\ b2.pm_status = Nothing
    BY <1>6, <2>1, DecidedFields
  <2>5. Ledger(b2, A)
    <3>1. Held(b2) = {}
      BY <2>4 DEF Held
    <3>2. SoFar("scout") \cup CallsOf("decided") \subseteq SoFar("decided")
      BY WaveOrder
    <3>3. InOrder({}, A \cup Rows({}))
      BY DEF InOrder
    <3>4. Ledger(b2, A \cup Rows({}))
      BY <1>5, <2>4, <3>1, <3>2, <3>3, WaveBegins
    <3> QED BY <1>5, <3>4
  <2>6. Answering(b2)
    BY <1>1, <1>2, <1>7, <2>4 DEF Answering
  <2>7. Vetoes(b2, news_cache, since)
    BY <1>1, <1>2, <1>7, <2>4 DEF Vetoes
  <2>8. opinions(b2) = <<>>
    BY <1>7, <2>4 DEF opinions
  <2>9. hold = deterministic_arbitrate(opinions(b2), b2.portfolio)
    BY <2>2, <2>4, <2>8
  <2>10. Decision(b2)
    BY <1>1, <1>2, <2>3, <2>4, <2>9 DEF Decision, Wave
  <2>11. A \cup Rows(b2.calls) = A
    BY <1>5, <2>4
  <2> QED BY <2>5, <2>6, <2>7, <2>10, <2>11 DEF Kept, b2, s, m, short
<1>8. CASE short # <<>>
  <2> DEFINE first == IF b.market.headlines THEN "headline_scorer" ELSE "news"
             unknown == {n \in DOMAIN short : news_cache[short[n]] = Nothing}
             asks == AskEach("technical", short)
             reads == {Ask(first, n) : n \in unknown}
             new == asks \cup reads
  <2>1. b2 = specialists(s)
    BY <1>6, <1>8
  <2> HIDE DEF b2
  <2>2. /\ DOMAIN b2 = DOMAIN Idle /\ b2.wave = "specialists" /\ b2.calls = new
        /\ b2.market = b.market /\ b2.portfolio = b.portfolio
        /\ b2.candidates = short /\ b2.results = m.results
        /\ b2.technical = [n \in DOMAIN short |-> Nothing]
        /\ b2.risk = [n \in DOMAIN short |-> Nothing]
        /\ b2.news = [n \in DOMAIN short |->
                        IF n \in unknown THEN Nothing ELSE news_cache[short[n]].news]
        /\ b2.pm_status = b.pm_status
    <3> DEFINE first_s == IF s.market.headlines THEN "headline_scorer" ELSE "news"
               unknown_s == {n \in DOMAIN s.candidates : news_cache[s.candidates[n]] = Nothing}
               b3 == specialists(s)
    <3>1. /\ DOMAIN b3 = DOMAIN Idle /\ b3.wave = "specialists"
          /\ b3.calls = AskEach("technical", s.candidates) \cup {Ask(first_s, n) : n \in unknown_s}
          /\ b3.market = s.market /\ b3.portfolio = s.portfolio
          /\ b3.candidates = s.candidates /\ b3.results = s.results
          /\ b3.technical = [n \in DOMAIN s.candidates |-> Nothing]
          /\ b3.risk = [n \in DOMAIN s.candidates |-> Nothing]
          /\ b3.news = [n \in DOMAIN s.candidates |->
                          IF n \in unknown_s THEN Nothing ELSE news_cache[s.candidates[n]].news]
          /\ b3.pm_status = s.pm_status
      <4>1. s.candidates \in Seq(Symbols)
        BY <1>4, <1>6
      <4> QED BY <1>6, <4>1, SpecialistsFields
    <3>2. first_s = first /\ unknown_s = unknown /\ b3 = b2
      BY <1>6, <2>1
    <3> HIDE DEF first_s, unknown_s, b3, first, unknown
    <3> QED BY <1>6, <3>1, <3>2
  <2>3. /\ asks \in SUBSET Call
        /\ \A x \in asks : x.agent = "technical" /\ x.n \in DOMAIN short
        /\ \A x, y \in asks : x.agent = y.agent /\ x.n = y.n => x = y
        /\ Rows(asks) = {Row("technical", n) : n \in DOMAIN short}
        /\ \A n \in DOMAIN short : \E x \in asks : x.agent = "technical" /\ x.n = n
    <3>1. "technical" \in PerSymbol
      BY DEF PerSymbol
    <3> QED BY <1>4, <3>1, AskedEach
  <2>4. /\ reads \in SUBSET Call
        /\ \A x \in reads : x.agent = first /\ x.agent \in {"news", "headline_scorer"} /\ x.n \in unknown
        /\ \A x, y \in reads : x.n = y.n => x = y
        /\ \A n \in unknown : \E x \in reads : x.agent \in {"news", "headline_scorer"} /\ x.n = n
    <3>1. \A n \in unknown : n \in Nat
      BY <1>4
    <3>2. first \in {"news", "headline_scorer"} /\ first \in Agent
      BY DEF Agent, PerSymbol
    <3> HIDE DEF first, unknown
    <3>3. \A n \in unknown : /\ Ask(first, n) \in Call /\ Ask(first, n).agent = first
                            /\ Ask(first, n).n = n /\ Ask(first, n) \in reads
      BY <3>1, <3>2 DEF Ask, Call
    <3>4. \A x \in reads : \E n \in unknown : x = Ask(first, n)
      OBVIOUS
    <3> HIDE DEF reads
    <3> QED BY <3>2, <3>3, <3>4
  <2>5. \A n \in DOMAIN short : short[n] \in Symbols
    BY <1>4
  <2>6. /\ \A n \in unknown : b2.news[n] = Nothing /\ n \in DOMAIN short
        /\ \A n \in DOMAIN short \ unknown :
             /\ news_cache[short[n]] \in News /\ b2.news[n] = news_cache[short[n]].news
             /\ b2.news[n] \in NewsOutput
    BY <2>2, <2>5 DEF News
  <2> HIDE DEF asks, reads, first, unknown
  <2>7. /\ new \in SUBSET Call
        /\ \A x \in new : x.agent \in {"technical", "news", "headline_scorer"} /\ x.n \in DOMAIN short
        /\ \A x \in new : x.agent \in {"news", "headline_scorer"} => x.n \in unknown
        /\ \A x, y \in new : x.agent = y.agent /\ x.n = y.n => x = y
        /\ \A x, y \in new : x.agent = "headline_scorer" => y.agent # "news"
        /\ Rows(asks) \subseteq Rows(new)
    <3>1. \A n \in unknown : n \in DOMAIN short
      BY <2>6
    <3> QED BY <2>3, <2>4, <3>1 DEF Rows
  <2> HIDE DEF new
  <2>8. Ledger(b2, A \cup Rows(new))
    <3>1. /\ CallsOf("specialists") = {"technical", "headline_scorer", "news"}
          /\ CallsOf("specialists") \cap SoFar("scout") = {}
          /\ SoFar("scout") \cup CallsOf("specialists") \subseteq SoFar("specialists")
      BY WaveOrder DEF CallsOf
    <3>2. \A x \in new : x.agent \in CallsOf(b2.wave) \ SoFar(m.wave)
                         /\ x.n \in IF x.agent \in PerSymbol THEN DOMAIN b2.candidates ELSE {0}
      BY <1>5, <2>2, <2>7, <3>1 DEF PerSymbol
    <3>3. Held(b2) \subseteq Rows(new)
      <4>1. Held(b2) = {Row("technical", n) : n \in DOMAIN short}
        BY <2>2 DEF Held, rows_of
      <4> QED BY <2>3, <2>7, <4>1
    <3>4. InOrder(new, A \cup Rows(new))
      <4>1. ASSUME NEW x \in new, x.agent = "headline_scorer"
            PROVE  Row("news", x.n) \notin A \cup Rows(new)
        <5>1. \A r \in A : r.agent \in SoFar("scout")
          BY <1>5 DEF Ledger
        <5>2. \A r \in Rows(new) : r.agent # "news"
          BY <2>7, <4>1 DEF Rows, Row
        <5> QED BY <5>1, <5>2 DEF SoFar, Row
      <4> QED BY <2>7, <4>1 DEF InOrder
    <3> QED BY <1>5, <2>2, <2>7, <3>1, <3>2, <3>3, <3>4, WaveBegins
  <2>9. /\ \A n \in DOMAIN short : Pending(b2, {"technical"}, n)
        /\ \A n \in unknown : Pending(b2, {"news", "headline_scorer"}, n)
        /\ \A n : Pending(b2, {"news", "headline_scorer"}, n) => n \in unknown
    <3>1. asks \subseteq b2.calls /\ reads \subseteq b2.calls /\ b2.calls = new
      BY <2>2 DEF new
    <3>2. \A n \in DOMAIN short : Pending(b2, {"technical"}, n)
      BY <2>3, <3>1 DEF Pending
    <3>3. \A n \in unknown : Pending(b2, {"news", "headline_scorer"}, n)
      BY <2>4, <3>1 DEF Pending
    <3>4. \A n : Pending(b2, {"news", "headline_scorer"}, n) => n \in unknown
      BY <2>7, <3>1 DEF Pending
    <3> QED BY <3>2, <3>3, <3>4
  <2>10. Answering(b2)
    <3>1. b2.news \in [DOMAIN short -> NewsOutput \cup {Nothing}]
      BY <2>2, <2>6
    <3>2. Nothing \notin NewsOutput
      BY BusAssumption
    <3>3. \A n \in DOMAIN short : b2.news[n] = Nothing => Pending(b2, {"news", "headline_scorer"}, n)
      BY <2>6, <2>9, <3>2
    <3> QED BY <1>4, <2>2, <2>9, <3>1, <3>3 DEF Answering
  <2>11. Vetoes(b2, news_cache, since)
    <3> SUFFICES ASSUME NamedOnce PROVE
                   /\ IsInjective(short)
                   /\ \A n \in DOMAIN short :
                        since[short[n]] # Nothing =>
                          /\ b2.news[n] # Nothing /\ b2.news[n].news_risk = "CRITICAL"
                          /\ ~Pending(b2, {"news", "headline_scorer"}, n)
      BY <1>1, <2>2 DEF Vetoes
    <3>1. \A x \in Symbols : since[x] # Nothing => /\ news_cache[x] # Nothing
                                                   /\ news_cache[x].news.news_risk = "CRITICAL"
      BY <1>1 DEF Vetoes
    <3>2. ASSUME NEW n \in DOMAIN short, since[short[n]] # Nothing
          PROVE  /\ b2.news[n] # Nothing /\ b2.news[n].news_risk = "CRITICAL"
                 /\ ~Pending(b2, {"news", "headline_scorer"}, n)
      <4>1. n \notin unknown
        BY <2>5, <3>1, <3>2 DEF unknown
      <4>2. Nothing \notin NewsOutput
        BY BusAssumption
      <4> QED BY <2>5, <2>6, <2>9, <3>1, <3>2, <4>1, <4>2
    <3> QED BY <1>4, <3>2
  <2>12. Decision(b2)
    BY <1>1, <1>2, <2>2 DEF Decision, Wave
  <2>13. A \cup Rows(b2.calls) = A \cup Rows(new)
    BY <2>2
  <2>14. Kept(b2, A \cup Rows(b2.calls), news_cache, since)
    BY <2>8, <2>10, <2>11, <2>12, <2>13 DEF Kept
  <2> QED BY <2>14 DEF b2, s, m, short
<1> QED BY <1>7, <1>8

-----------------------------------------------------------------------------
(* The steps                                                               *)

LEMMA IdleKept ==
  ASSUME NEW cache, NEW since,
         NamedOnce => \A s \in Symbols :
                        since[s] # Nothing => /\ cache[s] # Nothing
                                              /\ cache[s].age = since[s]
                                              /\ cache[s].news.news_risk = "CRITICAL"
  PROVE  Kept(Idle, {}, cache, since)
<1>1. /\ Idle.wave = "idle" /\ Idle.calls = {} /\ Idle.candidates = <<>>
      /\ Idle.technical = <<>> /\ Idle.news = <<>> /\ Idle.risk = <<>>
      /\ Idle.results = EmptyBag /\ Idle.pm_status = Nothing
  BY DEF Idle
<1>2. Ledger(Idle, {})
  <2>1. Held(Idle) = {} /\ Rows(Idle.calls) = {}
    BY <1>1 DEF Held, Rows
  <2> QED BY <1>1, <2>1 DEF Ledger, InOrder, EmptyBag
<1>3. Answering(Idle)
  BY <1>1 DEF Answering
<1>4. Decision(Idle)
  BY <1>1 DEF Decision, Wave
<1>5. Vetoes(Idle, cache, since)
  BY <1>1 DEF Vetoes, IsInjective
<1> QED BY <1>2, <1>3, <1>4, <1>5 DEF Kept

\* The types of what a call is answered with, by whom it may be.
LEMMA AnswerTypes ==
  ASSUME NEW c \in bar.calls, IInv, NEW out \in Answers(c) \cup StubAnswers(c)
  PROVE  /\ c.agent = "scout" => out \in Seq(Symbols) /\ (NamedOnce => IsInjective(out))
         /\ c.agent = "technical" => out \in TechnicalOutput
         /\ c.agent = "news" => out \in NewsOutput
         /\ c.agent = "risk_analyst" => out \in RiskOutput
         /\ c.agent = "pm" => out \in Proposal
<1>1. Ledger(bar, asked) /\ Answering(bar) /\ Decision(bar)
  BY DEF IInv, Kept
<1>2. /\ ScoutAnswers \subseteq Seq(Symbols) /\ TechnicalAnswers \subseteq TechnicalOutput
      /\ NewsAnswers \subseteq NewsOutput /\ RiskAnswers \subseteq RiskOutput
      /\ Sentiments \subseteq Int /\ PMAnswers \subseteq [action: Action, conviction: Percent]
      /\ Markets \subseteq [headlines: BOOLEAN, charts: [Symbols -> Chart]]
  BY BusAssumption
<1>3. bar.market.charts \in [Symbols -> Chart]
  <2>1. bar.wave # "idle"
    BY <1>1 DEF Ledger, CallsOf
  <2> QED BY <1>1, <1>2, <2>1 DEF Decision
<1> DEFINE chart == bar.market.charts[bar.candidates[c.n]]
<1>4. CASE c.agent = "scout"
  <2>1. out \in ScoutAnswers \/ out = rank_symbols(bar.market.charts, Watchlist)
    BY <1>4 DEF Answers, StubAnswers
  <2>2. LET ranked == rank_symbols(bar.market.charts, Watchlist)
        IN ranked \in Seq(Symbols) /\ IsInjective(ranked)
    BY <1>3, RankingIsOfSymbols
  <2>3. out \in Seq(Symbols) /\ (NamedOnce => IsInjective(out))
    BY <1>2, <2>1, <2>2 DEF NamedOnce
  <2> QED BY <1>4, <2>3
<1>5. ASSUME c.agent \in PerSymbol PROVE chart \in Chart
  <2>1. c.n \in DOMAIN bar.candidates
    BY <1>1, <1>5, CallsPlace
  <2> QED BY <1>1, <1>3, <2>1 DEF Answering
<1> HIDE DEF chart
<1>6. CASE c.agent = "technical"
  <2>1. out \in TechnicalAnswers \/ out = technical_stub(chart, has_position(bar, c.n))
    BY <1>6 DEF Answers, StubAnswers, chart
  <2>2. chart \in Chart
    BY <1>5, <1>6 DEF PerSymbol
  <2> QED BY <1>2, <1>6, <2>1, <2>2, StubTypes
<1>7. CASE c.agent = "news"
  <2>1. out \in NewsAnswers \/ \E x \in Sentiments \cup {0} : out = news_stub(x)
    BY <1>7 DEF Answers, StubAnswers
  <2>2. chart \in Chart
    BY <1>5, <1>7 DEF PerSymbol
  <2>3. \A x \in Int : news_stub(x) \in NewsOutput
    BY <2>2, StubTypes
  <2>4. out \in NewsOutput
    BY <1>2, <2>1, <2>3
  <2> QED BY <1>7, <2>4
<1>8. CASE c.agent = "risk_analyst"
  <2>1. out \in RiskAnswers \/ out = risk_stub(chart, bar.news[c.n], bar.portfolio)
    BY <1>8 DEF Answers, StubAnswers, chart
  <2>2. chart \in Chart
    BY <1>5, <1>8 DEF PerSymbol
  <2> QED BY <1>2, <1>8, <2>1, <2>2, StubTypes
<1>9. CASE c.agent = "pm"
  <2>1. \/ \E s \in Symbols, a \in PMAnswers : out = [HOLD_about(s, a.conviction) EXCEPT !.action = a.action]
        \/ out = deterministic_arbitrate(opinions(bar), bar.portfolio)
    BY <1>9 DEF Answers, StubAnswers
  <2>2. CASE out = deterministic_arbitrate(opinions(bar), bar.portfolio)
    <3>1. bar.wave = "pm" /\ \A agents, n : Pending(bar, agents, n) => "pm" \in agents
      BY <1>1, <1>9, CallsPlace DEF Pending
    <3>2. \A n \in DOMAIN bar.candidates : /\ bar.technical[n] \in TechnicalOutput
                                           /\ bar.news[n] \in NewsOutput /\ bar.risk[n] \in RiskOutput
                                           /\ bar.candidates[n] \in Symbols
      BY <1>1, <3>1 DEF Answering
    <3>3. opinions(bar) \in Seq(SymbolOpinions)
      <4>1. DOMAIN bar.candidates = 1..Len(bar.candidates) /\ Len(bar.candidates) \in Nat
        BY <1>1 DEF Answering
      <4>2. opinions(bar) \in [1..Len(bar.candidates) -> SymbolOpinions]
        BY <3>2, <4>1 DEF opinions, SymbolOpinions
      <4> QED BY <4>1, <4>2
    <3> QED BY <1>9, <2>2, <3>3, ArbiterProposes
  <2>3. ASSUME NEW s \in Symbols, NEW a \in PMAnswers,
               out = [HOLD_about(s, a.conviction) EXCEPT !.action = a.action]
        PROVE  out \in Proposal
    <3>1. a.action \in Action /\ a.conviction \in Percent
      BY <1>2
    <3>2. HOLD_about(s, a.conviction) \in Proposal
      BY <3>1, HoldIsProposal
    <3> QED BY <2>3, <3>1, <3>2 DEF Proposal
  <2> QED BY <1>9, <2>1, <2>2, <2>3
<1>10. CASE c.agent \notin {"scout", "technical", "news", "risk_analyst", "pm"}
  BY <1>10
<1> QED BY <1>4, <1>6, <1>7, <1>8, <1>9, <1>10

\* What run_bar does with an answer keeps its books (Done).
LEMMA DoneKeeps ==
  ASSUME IInv, NEW c \in bar.calls, NEW out \in Answers(c) \cup StubAnswers(c),
         NEW status \in {"ok", "stub", "degraded"}, status # "ok" => out \in StubAnswers(c),
         Done(c, out, status)
  PROVE  IInv'
<1> DEFINE rest == Rest(bar, c)
           noted == Noted(bar, c)
           joined(calls) == Joined(noted, calls)
<1>1. Kept(bar, asked, news_cache, alarm) /\ Store
  BY DEF IInv
<1>2. Answered(c, out, status) /\ Remembered(c, out)
      /\ asked' = asked \cup Rows(bar'.calls) /\ UNCHANGED <<mode, order>>
  BY DEF Done
<1>3. news_cache \in [Symbols -> News \cup {Nothing}] /\ alarm \in [Symbols -> 0..NewsTTL \cup {Nothing}]
  BY <1>1 DEF Store
<1>4. /\ c.agent = "scout" => out \in Seq(Symbols) /\ (NamedOnce => IsInjective(out))
      /\ c.agent = "technical" => out \in TechnicalOutput
      /\ c.agent = "news" => out \in NewsOutput
      /\ c.agent = "risk_analyst" => out \in RiskOutput
      /\ c.agent = "pm" => out \in Proposal
  BY AnswerTypes
<1>5. bar' =
     CASE c.agent = "regime" -> with_calls(noted, "scout", {Ask("scout", 0)})
       [] c.agent = "scout" ->
            LET screened == [noted EXCEPT !.candidates = shortlisted(noted, out)]
            IN IF screened.candidates = <<>>
               THEN decided(screened, HOLD_about(NoSymbol, 0), Nothing)
               ELSE specialists(screened)
       [] c.agent = "technical" -> after_wave([rest EXCEPT !.technical[c.n] = out])
       [] c.agent = "headline_scorer" -> joined({Ask("news", c.n)})
       [] c.agent = "news" -> after_wave([noted EXCEPT !.news[c.n] = out])
       [] c.agent = "risk_analyst" -> after_wave([rest EXCEPT !.risk[c.n] = out])
       [] c.agent \in {"bull", "bear"} ->
            IF DebateRounds > 1 /\ ~\E d \in rest.calls : d.n = c.n
            THEN joined({Ask("bull_rebuttal", c.n), Ask("bear_rebuttal", c.n)})
            ELSE after_wave(noted)
       [] c.agent \in {"bull_rebuttal", "bear_rebuttal"} -> after_wave(noted)
       [] c.agent = "pm" -> decided(noted, out, IF status = "degraded" THEN "fallback" ELSE status)
  BY <1>2 DEF Answered, Rest, Noted, Joined
<1>6. /\ DOMAIN bar = DOMAIN Idle /\ rest.calls = bar.calls \ {c}
      /\ c.agent \in Agent /\ Rows(bar.calls) \subseteq asked
  <2>1. DOMAIN bar = DOMAIN Idle /\ c.agent \in Agent /\ Rows(bar.calls) \subseteq asked
    BY <1>1 DEF Kept, Decision, Ledger, Call
  <2> QED BY <2>1, FieldNames DEF Rest
<1>7. /\ regime_cache' \in 0..RegimeTTL \cup {Nothing} /\ UNCHANGED <<mode, order>>
  <2>1. 0 \in 0..RegimeTTL
    BY BusAssumption
  <2> QED BY <1>1, <1>2, <2>1 DEF Remembered, Store
<1> HIDE DEF rest, noted, joined
<1>8. CASE c.agent # "news"
  <2>1. UNCHANGED <<news_cache, alarm>>
    BY <1>2, <1>8 DEF Remembered
  <2>2. Kept(bar', asked', news_cache, alarm)
    <3>1. CASE c.agent = "regime"
      <4>1. bar' = with_calls(noted, "scout", {Ask("scout", 0)})
        BY <1>5, <3>1
      <4> QED BY <1>1, <1>2, <3>1, <4>1, RegimeEnds DEF noted
    <3>2. CASE c.agent = "scout"
      <4>1. bar' = LET screened == [noted EXCEPT !.candidates = shortlisted(noted, out)]
                   IN IF screened.candidates = <<>>
                      THEN decided(screened, HOLD_about(NoSymbol, 0), Nothing)
                      ELSE specialists(screened)
        BY <1>5, <3>2
      <4>2. out \in Seq(Symbols) /\ (NamedOnce => IsInjective(out))
        BY <1>4, <3>2
      <4> DEFINE screened == [Noted(bar, c) EXCEPT !.candidates = shortlisted(Noted(bar, c), out)]
                 next == IF screened.candidates = <<>>
                         THEN decided(screened, HOLD_about(NoSymbol, 0), Nothing)
                         ELSE specialists(screened)
      <4>3. Kept(next, asked \cup Rows(next.calls), news_cache, alarm)
        BY <1>1, <1>3, <3>2, <4>2, ScoutEnds
      <4>4. bar' = next
        BY <4>1 DEF noted
      <4> HIDE DEF next
      <4> QED BY <1>2, <4>3, <4>4
    <3>3. CASE c.agent \in {"technical", "risk_analyst"}
      <4> DEFINE m == IF c.agent = "technical" THEN [rest EXCEPT !.technical[c.n] = out]
                      ELSE [rest EXCEPT !.risk[c.n] = out]
      <4>1. bar' = after_wave(m)
        BY <1>5, <3>3
      <4>2. \/ c.agent = "technical" /\ out \in TechnicalOutput /\ m = [Rest(bar, c) EXCEPT !.technical[c.n] = out]
            \/ c.agent = "risk_analyst" /\ out \in RiskOutput /\ m = [Rest(bar, c) EXCEPT !.risk[c.n] = out]
        BY <1>4, <3>3 DEF rest
      <4> HIDE DEF m
      <4>3. Kept(m, asked, news_cache, alarm) /\ m.wave \in {"specialists", "risk"}
        BY <1>1, <4>2, AnalystEnds
      <4> QED BY <1>2, <4>1, <4>3, WaveEnds
    <3>4. CASE c.agent = "headline_scorer"
      <4>1. bar' = joined({Ask("news", c.n)})
        BY <1>5, <3>4
      <4> QED BY <1>1, <1>2, <3>4, <4>1, ScorerEnds DEF noted, joined
    <3>5. CASE c.agent \in {"bull", "bear", "bull_rebuttal", "bear_rebuttal"}
      <4>1. CASE c.agent \in {"bull", "bear"} /\ DebateRounds > 1 /\ ~\E d \in rest.calls : d.n = c.n
        <5>1. bar' = joined({Ask("bull_rebuttal", c.n), Ask("bear_rebuttal", c.n)})
          BY <1>5, <4>1
        <5>2. \A d \in bar.calls \ {c} : d.n # c.n
          BY <1>6, <4>1
        <5> QED BY <1>1, <1>2, <4>1, <5>1, <5>2, RebuttalsBegin DEF noted, joined
      <4>2. CASE ~(c.agent \in {"bull", "bear"} /\ DebateRounds > 1 /\ ~\E d \in rest.calls : d.n = c.n)
        <5>1. bar' = after_wave(noted)
          BY <1>5, <3>5, <4>2
        <5>2. Kept(noted, asked, news_cache, alarm) /\ noted.wave = "debate"
          BY <1>1, <3>5, AdvocateEnds DEF noted
        <5> QED BY <1>2, <5>1, <5>2, WaveEnds
      <4> QED BY <4>1, <4>2
    <3>6. CASE c.agent = "pm"
      <4> DEFINE to == IF status = "degraded" THEN "fallback" ELSE status
      <4>1. bar' = decided(noted, out, to)
        BY <1>5, <3>6
      <4>2. to # "ok" => out = deterministic_arbitrate(opinions(bar), bar.portfolio)
        BY <3>6 DEF StubAnswers
      <4>3. to \in {"ok", "stub", "fallback"}
        OBVIOUS
      <4> HIDE DEF to
      <4>4. Kept(bar', asked, news_cache, alarm) /\ bar'.calls = {}
        BY <1>1, <1>4, <3>6, <4>1, <4>2, <4>3, PMEnds DEF noted
      <4>5. asked' = asked
        BY <1>2, <4>4 DEF Rows
      <4> QED BY <4>4, <4>5
    <3> QED BY <1>6, <1>8, <3>1, <3>2, <3>3, <3>4, <3>5, <3>6 DEF Agent, PerSymbol
  <2>3. Store'
    BY <1>1, <1>7, <2>1 DEF Store
  <2> QED BY <2>1, <2>2, <2>3 DEF IInv
<1>9. CASE c.agent = "news"
  <2> DEFINE m == Rated(bar, c, out)
             cache2 == CachedFor(news_cache, bar.candidates[c.n], out)
             since2 == AlarmOf(alarm, bar.candidates[c.n], out)
  <2>1. bar' = after_wave(m) /\ news_cache' = cache2 /\ alarm' = since2
    BY <1>2, <1>5, <1>9 DEF Remembered, Rated, CachedFor, AlarmOf, noted
  <2>2. out \in NewsOutput
    BY <1>4, <1>9
  <2>3. Kept(m, asked, cache2, since2) /\ m.wave = "specialists"
    BY <1>1, <1>3, <1>9, <2>2, NewsEnds
  <2>4. news_cache' \in [Symbols -> News \cup {Nothing}] /\ alarm' \in [Symbols -> 0..NewsTTL \cup {Nothing}]
    <3>1. 0 \in 0..NewsTTL
      BY BusAssumption
    <3>2. [age |-> 0, news |-> out] \in News
      BY <2>2, <3>1 DEF News
    <3> QED BY <1>3, <2>1, <3>1, <3>2 DEF CachedFor, AlarmOf
  <2> HIDE DEF m, cache2, since2
  <2>5. Kept(after_wave(m), asked \cup Rows(after_wave(m).calls), cache2, since2)
    BY <2>3, WaveEnds
  <2>6. Kept(bar', asked', news_cache', alarm')
    BY <1>2, <2>1, <2>5
  <2>7. Store'
    BY <1>1, <1>7, <2>4 DEF Store
  <2> QED BY <2>6, <2>7 DEF IInv
<1> QED BY <1>8, <1>9

\* A bar starts with its first call, of an empty ledger.
LEMMA StartKeeps == IInv /\ StartBar => IInv'
<1> SUFFICES ASSUME IInv, StartBar PROVE IInv'
  OBVIOUS
<1>1. PICK market \in Markets, portfolio \in Books :
        LET b == [Idle EXCEPT !.market = market, !.portfolio = portfolio]
        IN bar' = IF regime_cache # Nothing
                  THEN with_calls(b, "scout", {Ask("scout", 0)})
                  ELSE with_calls(b, "regime", {Ask("regime", 0)})
  BY DEF StartBar
<1> DEFINE b == [Idle EXCEPT !.market = market, !.portfolio = portfolio]
           to == IF regime_cache # Nothing THEN "scout" ELSE "regime"
           new == {Ask(to, 0)}
<1>2. bar' = with_calls(b, to, new) /\ asked' = Rows(bar'.calls) /\ order' = Nothing
      /\ UNCHANGED <<mode, regime_cache, news_cache, alarm>>
  BY <1>1 DEF StartBar
<1>3. /\ DOMAIN b = DOMAIN Idle /\ b.wave = "idle" /\ b.calls = {}
      /\ b.market = market /\ b.portfolio = portfolio
      /\ b.candidates = <<>> /\ b.technical = <<>> /\ b.news = <<>> /\ b.risk = <<>>
      /\ b.results = EmptyBag /\ b.pm_status = Nothing
  BY DEF Idle
<1> HIDE DEF b
<1>4. /\ DOMAIN bar' = DOMAIN Idle /\ bar'.wave = to /\ bar'.calls = new
      /\ bar'.market = market /\ bar'.portfolio = portfolio
      /\ bar'.candidates = <<>> /\ bar'.technical = <<>> /\ bar'.news = <<>> /\ bar'.risk = <<>>
      /\ bar'.results = EmptyBag /\ bar'.pm_status = Nothing
  <2> DEFINE w == with_calls(b, to, new)
  <2>1. /\ DOMAIN w = DOMAIN Idle /\ w.wave = to /\ w.calls = new
        /\ w.market = b.market /\ w.portfolio = b.portfolio
        /\ w.candidates = b.candidates /\ w.technical = b.technical
        /\ w.news = b.news /\ w.risk = b.risk /\ w.results = b.results
        /\ w.proposal = b.proposal /\ w.pm_status = b.pm_status
    <3> HIDE DEF to, new
    <3> QED BY <1>3, CallsChange
  <2> HIDE DEF w, to, new
  <2> QED BY <1>2, <1>3, <2>1 DEF w
<1>5. to \in {"scout", "regime"} /\ new \in SUBSET Call /\ \A x \in new : x.agent = to /\ x.n = 0
  BY DEF Ask, Call, Agent
<1>6. \A x, y \in new : x = y
  OBVIOUS
<1> HIDE DEF to, new
<1>7. Ledger(b, {})
  <2>1. Held(b) = {} /\ Rows(b.calls) = {}
    BY <1>3 DEF Held, Rows
  <2> QED BY <1>3, <2>1 DEF Ledger, InOrder, EmptyBag
<1>8. Ledger(bar', asked')
  <2> DEFINE b2 == bar'
  <2>1. Held(b) = {} /\ Held(b2) = {}
    BY <1>3, <1>4, <1>5 DEF Held
  <2>2. /\ CallsOf(to) = {to} /\ CallsOf(to) \cap SoFar("idle") = {}
        /\ SoFar("idle") \cup CallsOf(to) \subseteq SoFar(to)
    BY <1>5, WaveOrder DEF CallsOf
  <2>3. InOrder(new, {} \cup Rows(new))
    BY <1>5, <1>6 DEF InOrder
  <2>4. \A x \in new : x.agent \in CallsOf(b2.wave) \ SoFar(b.wave)
                       /\ x.n \in IF x.agent \in PerSymbol THEN DOMAIN b2.candidates ELSE {0}
    BY <1>3, <1>4, <1>5, <2>2 DEF PerSymbol
  <2>5. /\ b2.calls = new /\ b2.wave = to /\ b2.results = b.results
    BY <1>3, <1>4
  <2> HIDE DEF b2
  <2>6. Ledger(b2, {} \cup Rows(new))
    BY <1>3, <1>5, <1>7, <2>1, <2>2, <2>3, <2>4, <2>5, WaveBegins
  <2>7. {} \cup Rows(new) = asked'
    BY <1>2, <1>4
  <2> QED BY <2>6, <2>7 DEF b2
<1>9. Answering(bar')
  BY <1>4 DEF Answering
<1>10. Decision(bar')
  BY <1>4, <1>5 DEF Decision, Wave
<1>11. Vetoes(bar', news_cache, alarm)
  BY <1>4 DEF Vetoes, IInv, Kept, IsInjective
<1>12. Store'
  BY <1>2 DEF Store, IInv
<1> QED BY <1>2, <1>8, <1>9, <1>10, <1>11, <1>12 DEF IInv, Kept

\* The other vendor is tried for the same row.
LEMMA FallbackKeeps == \A c \in bar.calls : IInv /\ TryFallback(c) => IInv'
<1> SUFFICES ASSUME NEW c \in bar.calls, IInv, TryFallback(c) PROVE IInv'
  OBVIOUS
<1> DEFINE d == [c EXCEPT !.vendor = "fallback"]
           calls2 == (bar.calls \ {c}) \cup {d}
<1>1. /\ Ledger(bar, asked) /\ Answering(bar) /\ Decision(bar)
      /\ Vetoes(bar, news_cache, alarm) /\ Store /\ DOMAIN bar = DOMAIN Idle
  BY DEF IInv, Kept, Decision
<1>2. d \in Call /\ d.agent = c.agent /\ d.n = c.n
  BY <1>1 DEF Ledger, Call
<1>3. bar' = [bar EXCEPT !.calls = calls2] /\ UNCHANGED <<mode, regime_cache, news_cache, asked, alarm, order>>
  BY DEF TryFallback
<1> HIDE DEF d
<1>4. /\ DOMAIN bar' = DOMAIN Idle /\ bar'.wave = bar.wave /\ bar'.calls = calls2
      /\ bar'.market = bar.market /\ bar'.portfolio = bar.portfolio
      /\ bar'.candidates = bar.candidates /\ bar'.technical = bar.technical
      /\ bar'.news = bar.news /\ bar'.risk = bar.risk /\ bar'.results = bar.results
      /\ bar'.proposal = bar.proposal /\ bar'.pm_status = bar.pm_status
  <2> HIDE DEF calls2
  <2> QED BY <1>1, <1>3, FieldNames
<1>5. Ledger(bar', asked)
  BY <1>1, <1>2, <1>4, CallMoves
<1>6. \A agents, n : Pending(bar', agents, n) <=> Pending(bar, agents, n)
  BY <1>2, <1>4 DEF Pending
<1>7. Answering(bar') /\ Vetoes(bar', news_cache, alarm)
  BY <1>1, <1>4, <1>6 DEF Answering, Vetoes
<1>8. opinions(bar') = opinions(bar)
  BY <1>4 DEF opinions
<1>9. Decision(bar')
  BY <1>1, <1>4, <1>8 DEF Decision
<1>10. Store'
  BY <1>1, <1>3 DEF Store
<1> QED BY <1>3, <1>5, <1>7, <1>9, <1>10 DEF IInv, Kept

LEMMA RuleKeeps == IInv /\ Rule => IInv'
<1> SUFFICES ASSUME IInv, Rule PROVE IInv'
  OBVIOUS
<1>1. /\ order' = ruled(rated(bar, bar.proposal.symbol)) /\ bar' = Idle /\ asked' = {}
      /\ UNCHANGED <<mode, regime_cache, news_cache, alarm>> /\ bar.wave = "decided"
  BY DEF Rule
<1>2. order' # Nothing => order' \in TradeProposal
  <2>1. bar.proposal \in Proposal
    BY <1>1 DEF IInv, Kept, Decision
  <2>2. order' # Nothing => order' = bar.proposal /\ bar.proposal.symbol \in Symbols
    BY <1>1 DEF ruled
  <2> QED BY <2>1, <2>2 DEF Proposal, TradeProposal
<1>3. Store'
  BY <1>1, <1>2 DEF Store, IInv
<1>4. Kept(Idle, {}, news_cache, alarm)
  <2>1. NamedOnce => \A s \in Symbols :
          alarm[s] # Nothing => /\ news_cache[s] # Nothing
                                /\ news_cache[s].age = alarm[s]
                                /\ news_cache[s].news.news_risk = "CRITICAL"
    BY DEF IInv, Kept, Vetoes
  <2> QED BY <2>1, IdleKept
<1> QED BY <1>1, <1>3, <1>4 DEF IInv

\* A veto and its entry of the cache grow old together.
LEMMA PassKeeps == IInv /\ Pass => IInv'
<1> SUFFICES ASSUME IInv, Pass PROVE IInv'
  OBVIOUS
<1>1. /\ regime_cache' = older(regime_cache, RegimeTTL)
      /\ news_cache' = [s \in Symbols |->
                          IF news_cache[s] = Nothing \/ news_cache[s].age = NewsTTL THEN Nothing
                          ELSE [news_cache[s] EXCEPT !.age = @ + 1]]
      /\ alarm' = [s \in Symbols |-> older(alarm[s], NewsTTL)]
      /\ UNCHANGED <<mode, bar, asked, order>>
  BY DEF Pass
<1>2. Store /\ NewsTTL \in Nat /\ RegimeTTL \in Nat
  BY BusAssumption DEF IInv
<1>3. /\ regime_cache' \in 0..RegimeTTL \cup {Nothing}
      /\ \A s \in Symbols : older(alarm[s], NewsTTL) \in 0..NewsTTL \cup {Nothing}
  <2>1. \A ttl \in Nat : \A age \in 0..ttl \cup {Nothing} : older(age, ttl) \in 0..ttl \cup {Nothing}
    <3> SUFFICES ASSUME NEW ttl \in Nat, NEW age \in 0..ttl, age # ttl PROVE age + 1 \in 0..ttl
      BY DEF older
    <3> QED OBVIOUS
  <2>2. regime_cache \in 0..RegimeTTL \cup {Nothing} /\ \A s \in Symbols : alarm[s] \in 0..NewsTTL \cup {Nothing}
    BY <1>2 DEF Store
  <2> QED BY <1>1, <1>2, <2>1, <2>2
<1>4. ASSUME NEW s \in Symbols, news_cache[s] # Nothing, news_cache[s].age # NewsTTL
      PROVE  /\ news_cache'[s] \in News /\ news_cache'[s].age = news_cache[s].age + 1
             /\ news_cache'[s].news = news_cache[s].news
  <2>1. news_cache[s] \in News
    BY <1>2, <1>4 DEF Store
  <2>2. /\ news_cache[s].age \in 0..NewsTTL /\ news_cache[s].news \in NewsOutput
        /\ news_cache[s].age + 1 \in 0..NewsTTL
    BY <1>2, <1>4, <2>1 DEF News
  <2>3. news_cache'[s] = [news_cache[s] EXCEPT !.age = @ + 1]
    BY <1>1, <1>4
  <2> QED BY <2>1, <2>2, <2>3 DEF News
<1>5. Store'
  <2>1. news_cache' \in [Symbols -> News \cup {Nothing}]
    BY <1>1, <1>4
  <2> QED BY <1>1, <1>2, <1>3, <2>1 DEF Store
<1>6. Vetoes(bar, news_cache', alarm')
  <2> SUFFICES ASSUME NamedOnce, NEW s \in Symbols, alarm'[s] # Nothing
               PROVE  /\ news_cache'[s] # Nothing /\ news_cache'[s].age = alarm'[s]
                      /\ news_cache'[s].news.news_risk = "CRITICAL" /\ alarm[s] # Nothing
    BY DEF IInv, Kept, Vetoes, Answering
  <2>1. alarm[s] # Nothing /\ alarm[s] # NewsTTL /\ alarm'[s] = alarm[s] + 1
    BY <1>1 DEF older
  <2>2. news_cache[s] # Nothing /\ news_cache[s].age = alarm[s]
        /\ news_cache[s].news.news_risk = "CRITICAL"
    BY <2>1 DEF IInv, Kept, Vetoes
  <2>3. Nothing \notin News
    BY BusAssumption
  <2> QED BY <1>4, <2>1, <2>2, <2>3
<1> QED BY <1>1, <1>5, <1>6 DEF IInv, Kept

THEOREM Inductive == Spec => []IInv
<1>1. Init => IInv
  <2> SUFFICES ASSUME Init PROVE IInv
    OBVIOUS
  <2>1. Kept(Idle, {}, news_cache, alarm)
    BY IdleKept DEF Init
  <2> QED BY <2>1 DEF Init, IInv, Store
<1>2. IInv /\ [Next]_vars => IInv'
  <2> SUFFICES ASSUME IInv, [Next]_vars PROVE IInv'
    OBVIOUS
  <2>1. ASSUME NEW c \in bar.calls, CallEnds(c) PROVE IInv'
    <3>1. CASE Stubbed(c)
      BY <3>1, DoneKeeps DEF Stubbed
    <3>2. CASE Served(c)
      BY <3>2, DoneKeeps DEF Served
    <3>3. CASE TryFallback(c)
      BY <3>3, FallbackKeeps
    <3>4. CASE Degraded(c)
      BY <3>4, DoneKeeps DEF Degraded
    <3> QED BY <2>1, <3>1, <3>2, <3>3, <3>4 DEF CallEnds
  <2>2. CASE UNCHANGED vars
    BY <2>2 DEF vars, IInv, Store
  <2> QED BY <2>1, <2>2, StartKeeps, RuleKeeps, PassKeeps DEF Next
<1> QED BY <1>1, <1>2, PTL DEF Spec

-----------------------------------------------------------------------------
(* What follows                                                            *)

\* The types, of any models' answers.
THEOREM BusTypes == Spec => []TypeOK
<1>1. IInv => TypeOK
  <2> SUFFICES ASSUME IInv PROVE TypeOK
    OBVIOUS
  <2>1. bar.calls \subseteq Call
    BY DEF IInv, Kept, Ledger
  <2>2. IsABag(bar.results)
    <3>1. PICK S : bar.results = SetToBag(S)
      BY DEF IInv, Kept, Ledger
    <3>2. 1 \in {n \in Nat : n > 0}
      OBVIOUS
    <3> QED BY <3>1, <3>2 DEF SetToBag, IsABag
  <2>3. asked \subseteq [agent: Agent, n: Nat] /\ bar.pm_status \in {"ok", "stub", "fallback", Nothing}
    BY DEF IInv, Kept, Ledger, Decision
  <2> QED BY <2>1, <2>2, <2>3 DEF TypeOK, IInv, Store
<1> QED BY <1>1, Inductive, PTL

\* Whoever answers, and in whatever order the calls of a wave end, the record
\* of a bar has one row for each call that was made for it: also of the calls
\* whose rows are only listed when their wave is over (run_bar).
THEOREM Journaled == Spec => []EveryCallIsJournaled
<1>1. IInv => EveryCallIsJournaled
  <2> SUFFICES ASSUME IInv, bar.wave = "decided" PROVE bar.results = SetToBag(asked)
    BY DEF EveryCallIsJournaled
  <2>1. \A c \in bar.calls : c.agent \in CallsOf("decided")
    BY DEF IInv, Kept, Ledger
  <2>2. bar.calls = {}
    BY <2>1 DEF CallsOf
  <2>3. Rows(bar.calls) = {} /\ Held(bar) = {}
    BY <2>2 DEF Rows, Held
  <2> QED BY <2>3 DEF IInv, Kept, Ledger
<1> QED BY <1>1, Inductive, PTL

\* A bar that is decided has an opinion about each of its candidates.
LEMMA OpinionsAreComplete ==
  ASSUME IInv, bar.wave = "decided"
  PROVE  opinions(bar) \in Seq(SymbolOpinions)
<1>1. Ledger(bar, asked) /\ Answering(bar)
  BY DEF IInv, Kept
<1>2. \A c \in bar.calls : c.agent \in CallsOf("decided")
  BY <1>1 DEF Ledger
<1>3. \A agents, n : ~Pending(bar, agents, n)
  BY <1>2 DEF CallsOf, Pending
<1>4. \A n \in DOMAIN bar.candidates : /\ bar.technical[n] \in TechnicalOutput
                                       /\ bar.news[n] \in NewsOutput /\ bar.risk[n] \in RiskOutput
                                       /\ bar.candidates[n] \in Symbols
  BY <1>1, <1>3 DEF Answering
<1>5. DOMAIN bar.candidates = 1..Len(bar.candidates) /\ Len(bar.candidates) \in Nat
  BY <1>1 DEF Answering
<1>6. opinions(bar) \in [1..Len(bar.candidates) -> SymbolOpinions]
  BY <1>4, <1>5 DEF opinions, SymbolOpinions
<1> QED BY <1>5, <1>6

\* The one opinion about a candidate is the one that the risk engine is given.
LEMMA RatedIsTheOpinion ==
  ASSUME bar.candidates \in Seq(Symbols), IsInjective(bar.candidates),
         NEW n \in DOMAIN bar.candidates
  PROVE  rated(bar, bar.candidates[n]) = bar.news[n].news_risk
<1> DEFINE about == {m \in DOMAIN bar.candidates : bar.candidates[m] = bar.candidates[n]}
<1>1. about = {n}
  BY DEF IsInjective
<1>2. n \in Nat
  OBVIOUS
<1>3. Min(about) = n
  <2> HIDE DEF about
  <2> QED BY <1>1, <1>2 DEF Min
<1>4. rated(bar, bar.candidates[n]) = IF about = {} THEN "LOW" ELSE bar.news[Min(about)].news_risk
  BY DEF rated
<1> QED BY <1>1, <1>3, <1>4

\* If no symbol is named twice, what the arbiter proposes in place of a model
\* that is unavailable is not turned down for conviction, for news or for a
\* position that is full.
THEOREM ArbitersProposalStands ==
  ASSUME NamedOnce PROVE Spec => []FallbackStands
<1>1. IInv => FallbackStands
  <2> SUFFICES ASSUME IInv, bar.wave = "decided",
                      bar.pm_status \in {"fallback", "stub"}, bar.proposal.action # "HOLD"
               PROVE  /\ bar.proposal.conviction >= MinConviction
                      /\ rated(bar, bar.proposal.symbol) # "CRITICAL"
                      /\ bar.proposal.action = "BUY" => position_headroom(bar.proposal, bar.portfolio) > 0
    BY DEF FallbackStands
  <2> DEFINE p == deterministic_arbitrate(opinions(bar), bar.portfolio)
  <2>1. bar.proposal = p /\ bar.portfolio \in Books /\ IsInjective(bar.candidates)
    BY DEF IInv, Kept, Decision, Vetoes
  <2>2. /\ bar.portfolio \in PortfolioState /\ bar.portfolio.equity > 0
        /\ \A s \in Symbols : holds(bar.portfolio, s) \/ bar.portfolio.positions[s].value = 0
    BY <2>1, BusAssumption
  <2>3. opinions(bar) \in Seq(SymbolOpinions)
    BY OpinionsAreComplete
  <2>4. /\ p.conviction >= MinConviction
        /\ \E n \in DOMAIN opinions(bar) : /\ opinions(bar)[n].symbol = p.symbol
                                           /\ opinions(bar)[n].news.news_risk # "CRITICAL"
        /\ p.action = "BUY" => position_headroom(p, bar.portfolio) > 0
    BY <2>1, <2>2, <2>3, ArbiterStands
  <2>5. PICK n \in DOMAIN opinions(bar) : /\ opinions(bar)[n].symbol = p.symbol
                                          /\ opinions(bar)[n].news.news_risk # "CRITICAL"
    BY <2>4
  <2>6. n \in DOMAIN bar.candidates /\ bar.candidates[n] = p.symbol /\ bar.news[n].news_risk # "CRITICAL"
    BY <2>5 DEF opinions
  <2>7. rated(bar, p.symbol) = bar.news[n].news_risk
    BY <2>1, <2>6, RatedIsTheOpinion DEF IInv, Kept, Answering
  <2> QED BY <2>1, <2>4, <2>6, <2>7
<1> QED BY <1>1, Inductive, PTL

\* If no symbol is named twice, a CRITICAL rating keeps every order for its
\* symbol from being approved, for as long as it is cached and the symbol is a
\* candidate, whoever answers what in this bar or in later ones.
THEOREM VetoHolds ==
  ASSUME NamedOnce PROVE Spec => CriticalHolds
<1>1. IInv /\ [Next]_vars =>
        (order = Nothing /\ order' # Nothing /\ order'.symbol \in Range(bar.candidates)
           => alarm[order'.symbol] = Nothing)
  <2> SUFFICES ASSUME IInv, [Next]_vars, order = Nothing, order' # Nothing,
                      order'.symbol \in Range(bar.candidates), alarm[order'.symbol] # Nothing
               PROVE  FALSE
    OBVIOUS
  <2>1. Rule
    <3>1. ~StartBar /\ ~Pass /\ ~UNCHANGED vars
      BY DEF StartBar, Pass, vars
    <3>2. \A c : CallEnds(c) => order' = order
      BY DEF CallEnds, Stubbed, Served, TryFallback, Degraded, Done
    <3> QED BY <3>1, <3>2 DEF Next
  <2>2. /\ order' = ruled(rated(bar, bar.proposal.symbol)) /\ bar.wave = "decided"
    BY <2>1 DEF Rule
  <2>3. order' = bar.proposal /\ rated(bar, bar.proposal.symbol) # "CRITICAL"
    BY <2>2 DEF ruled, approved, gates_pass
  <2>4. PICK n \in DOMAIN bar.candidates : bar.candidates[n] = bar.proposal.symbol
    BY <2>3 DEF Range
  <2>5. bar.news[n].news_risk = "CRITICAL" /\ IsInjective(bar.candidates)
    BY <2>3, <2>4 DEF IInv, Kept, Vetoes
  <2>6. rated(bar, bar.candidates[n]) = bar.news[n].news_risk
    BY <2>5, RatedIsTheOpinion DEF IInv, Kept, Answering
  <2> QED BY <2>3, <2>4, <2>5, <2>6
<1> QED BY <1>1, Inductive, PTL DEF Spec, CriticalHolds

=============================================================================
