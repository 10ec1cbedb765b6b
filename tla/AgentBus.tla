------------------------------ MODULE AgentBus ------------------------------
(***************************************************************************)
(* One bar's pipeline of agents (agents/bus.py run_bar) over the calls     *)
(* that Agent.run makes (agents/base.py), and what TradingLoop.run_once    *)
(* does with the decision.  A call goes to the primary vendor, then to the *)
(* other one if there is one, and is then answered by the agent's stub;    *)
(* each try is bounded by wait_for().  Calls of one wave run concurrently  *)
(* and end in any order.                                                   *)
(*                                                                         *)
(* What the models answer is left open within small sets.  Time is counted *)
(* in units of which the two caches keep an answer NewsTTL and RegimeTTL,  *)
(* and a cached answer has an age: one that is past its TTL, which get()   *)
(* deletes when it is read, is gone here as soon as it is.  The regime,    *)
(* the scout's remarks and the debate reach only prompts, so only that     *)
(* they were asked is kept, and the order of the journal's rows is not.    *)
(***************************************************************************)
EXTENDS Agents, Functions, Bags

CONSTANTS Watchlist,                \* loop.symbols
          NewsTTL, RegimeTTL,
          EnableDebate, DebateRounds,
          ScoutAnswers, TechnicalAnswers, NewsAnswers, RiskAnswers, PMAnswers, \* of the models
          Sentiments,               \* time_decayed_sentiment() of the headlines' scores
          Markets, Books,           \* what data and portfolio a bar may start with
          Nothing

News == [age: 0..NewsTTL, news: NewsOutput]   \* an entry of the news cache
ASSUME BusAssumption ==
  /\ {NewsTTL, RegimeTTL, DebateRounds} \subseteq Nat /\ EnableDebate \in BOOLEAN
  /\ IsInjective(Watchlist) /\ {Watchlist} \cup ScoutAnswers \subseteq Seq(Symbols)
  /\ TechnicalAnswers \subseteq TechnicalOutput /\ NewsAnswers \subseteq NewsOutput
  /\ RiskAnswers \subseteq RiskOutput /\ Sentiments \subseteq Int
  /\ PMAnswers \subseteq [action: Action, conviction: Percent]
  /\ Markets \subseteq [headlines: BOOLEAN, charts: [Symbols -> Chart]]
  /\ Books \subseteq PortfolioState
  /\ \A p \in Books : p.equity > 0 /\ \A s \in Symbols : holds(p, s) \/ p.positions[s].value = 0
  /\ Nothing \notin TechnicalOutput \cup NewsOutput \cup RiskOutput \cup News

VARIABLES mode,          \* the runtime: offline, and whether there is a fallback vendor
          regime_cache,  \* the age of the cached regime
          news_cache,    \* for each symbol, the cached answer and its age
          bar,           \* the locals of run_bar
          asked,         \* history: the calls made this bar
          alarm,         \* history: how long ago a symbol's news was rated CRITICAL
          order          \* the proposal that was approved this bar

vars == <<mode, regime_cache, news_cache, bar, asked, alarm, order>>

PerSymbol == {"technical", "headline_scorer", "news", "risk_analyst",
              "bull", "bear", "bull_rebuttal", "bear_rebuttal"}
Agent == {"regime", "scout", "pm"} \cup PerSymbol
Call == [agent: Agent, n: Nat, vendor: {"primary", "fallback"}]
Status == {"ok", "stub", "degraded"}

\* The n-th candidate's call of an agent; 0 for those asked once per bar.
Ask(agent, n) == [agent |-> agent, n |-> n, vendor |-> "primary"]
AskEach(agent, candidates) == {Ask(agent, n) : n \in DOMAIN candidates}
\* The journal's row of a call.
Row(agent, n) == [agent |-> agent, n |-> n]
Rows(calls) == {Row(c.agent, c.n) : c \in calls}

has_position(b, n) == holds(b.portfolio, b.candidates[n])

Idle == [wave |-> "idle", market |-> Nothing, portfolio |-> Nothing,
         candidates |-> <<>>, calls |-> {}, technical |-> <<>>, news |-> <<>>, risk |-> <<>>,
         results |-> EmptyBag, proposal |-> Nothing, pm_status |-> Nothing]

-----------------------------------------------------------------------------
(* The waves of run_bar                                                    *)

with_calls(b, wave, calls) == [b EXCEPT !.wave = wave, !.calls = calls]

\* A candidate's news comes from the cache, else from the scorer if there are
\* headlines, else from the news agent.
specialists(b) ==
  LET known == [n \in DOMAIN b.candidates |-> news_cache[b.candidates[n]]]
      first == IF b.market.headlines THEN "headline_scorer" ELSE "news"
  IN [with_calls(b, "specialists",
                 AskEach("technical", b.candidates)
                   \cup {Ask(first, n) : n \in {m \in DOMAIN known : known[m] = Nothing}})
        EXCEPT !.news = [n \in DOMAIN known |-> IF known[n] = Nothing THEN Nothing ELSE known[n].news],
               !.technical = [n \in DOMAIN known |-> Nothing],
               !.risk = [n \in DOMAIN known |-> Nothing]]

opinions(b) ==
  [n \in DOMAIN b.candidates |->
     [symbol |-> b.candidates[n], technical |-> b.technical[n], news |-> b.news[n],
      risk |-> b.risk[n]]]

listed(b, rows) == [b EXCEPT !.results = @ (+) SetToBag(rows)]
rows_of(agent, b) == {Row(agent, n) : n \in DOMAIN b.candidates}

\* When the last call of a wave has ended, the next wave begins.
after_wave(b) ==
  IF b.calls # {} THEN b
  ELSE CASE b.wave = "specialists" ->
              listed(with_calls(b, "risk", AskEach("risk_analyst", b.candidates)),
                     rows_of("technical", b))
         [] b.wave = "risk" ->
              listed(IF EnableDebate
                     THEN with_calls(b, "debate", AskEach("bull", b.candidates)
                                                    \cup AskEach("bear", b.candidates))
                     ELSE with_calls(b, "pm", {Ask("pm", 0)}),
                     rows_of("risk_analyst", b))
         [] b.wave = "debate" -> with_calls(b, "pm", {Ask("pm", 0)})

\* The scout's shortlist: not vetoed, with features, tradeable, the first few.
shortlisted(b, named) ==
  LET fit == {n \in DOMAIN named : b.market.charts[named[n]].tradeable}
      shortlist == first_few(fit, {e \in fit \X fit : e[1] < e[2]})
  IN [k \in DOMAIN shortlist |-> named[shortlist[k]]]

\* Mutant: the decision keeps the results it was built with.
decided_early(b, proposal, pm_status) ==
  [with_calls(b, "decided", {}) EXCEPT
     !.proposal = proposal, !.pm_status = pm_status,
     !.results = SetToBag(BagToSet(@) \cap {Row("regime", 0), Row("scout", 0)})]

\* BarDecision copied the list of results when it was built, so it is given
\* the list once more in the end.
decided(b, proposal, pm_status) ==
  [with_calls(b, "decided", {}) EXCEPT !.proposal = proposal, !.pm_status = pm_status]

-----------------------------------------------------------------------------
(* Agent.run                                                               *)

\* What a model may answer; agents that only feed prompts answer Nothing.
\* Nothing keeps the portfolio manager to the candidates of the bar.
Answers(c) ==
  CASE c.agent = "scout" -> ScoutAnswers
    [] c.agent = "technical" -> TechnicalAnswers
    [] c.agent = "news" -> NewsAnswers
    [] c.agent = "risk_analyst" -> RiskAnswers
    [] c.agent = "pm" -> {[HOLD_about(s, a.conviction) EXCEPT !.action = a.action] :
                            s \in Symbols, a \in PMAnswers}
    [] OTHER -> {Nothing}

StubAnswers(c) ==
  LET chart == bar.market.charts[bar.candidates[c.n]]
  IN CASE c.agent = "scout" -> {rank_symbols(bar.market.charts, Watchlist)}
       [] c.agent = "technical" -> {technical_stub(chart, has_position(bar, c.n))}
       [] c.agent = "news" -> {news_stub(x) : x \in IF bar.market.headlines THEN Sentiments ELSE {0}}
       [] c.agent = "risk_analyst" -> {risk_stub(chart, bar.news[c.n], bar.portfolio)}
       [] c.agent = "pm" -> {deterministic_arbitrate(opinions(bar), bar.portfolio)}
       [] OTHER -> {Nothing}

\* What run_bar does with an answer.  The rows of the specialists and of the
\* risk analysts are listed when their wave is over, those of news at once.
Answered(c, output, status) ==
  LET rest == [bar EXCEPT !.calls = @ \ {c}]
      noted == listed(rest, {Row(c.agent, c.n)})
      then_ask(calls) == [noted EXCEPT !.calls = @ \cup calls]
  IN bar' =
     CASE c.agent = "regime" -> with_calls(noted, "scout", {Ask("scout", 0)})
       [] c.agent = "scout" ->
            LET screened == [noted EXCEPT !.candidates = shortlisted(noted, output)]
            IN IF screened.candidates = <<>>
               THEN decided(screened, HOLD_about(NoSymbol, 0), Nothing)
               ELSE specialists(screened)
       [] c.agent = "technical" -> after_wave([rest EXCEPT !.technical[c.n] = output])
       [] c.agent = "headline_scorer" -> then_ask({Ask("news", c.n)})
       [] c.agent = "news" -> after_wave([noted EXCEPT !.news[c.n] = output])
       [] c.agent = "risk_analyst" -> after_wave([rest EXCEPT !.risk[c.n] = output])
       [] c.agent \in {"bull", "bear"} ->
            IF DebateRounds > 1 /\ ~\E d \in rest.calls : d.n = c.n
            THEN then_ask({Ask("bull_rebuttal", c.n), Ask("bear_rebuttal", c.n)})
            ELSE after_wave(noted)
       [] c.agent \in {"bull_rebuttal", "bear_rebuttal"} -> after_wave(noted)
       [] c.agent = "pm" -> decided(noted, output, IF status = "degraded" THEN "fallback" ELSE status)

\* Mutant: nobody puts the news into its cache.
Remembered_never(c, output) ==
  /\ regime_cache' = IF c.agent = "regime" THEN 0 ELSE regime_cache
  /\ UNCHANGED news_cache
  /\ alarm' = IF c.agent = "news" /\ output.news_risk = "CRITICAL"
              THEN [alarm EXCEPT ![bar.candidates[c.n]] = 0] ELSE alarm

\* The two caches; a stub's answer is kept like a model's.
Remembered(c, output) ==
  /\ regime_cache' = IF c.agent = "regime" THEN 0 ELSE regime_cache
  /\ news_cache' = IF c.agent = "news"
                   THEN [news_cache EXCEPT ![bar.candidates[c.n]] = [age |-> 0, news |-> output]]
                   ELSE news_cache
  /\ alarm' = IF c.agent = "news" /\ output.news_risk = "CRITICAL"
              THEN [alarm EXCEPT ![bar.candidates[c.n]] = 0] ELSE alarm

Done(c, output, status) ==
  /\ Answered(c, output, status)
  /\ Remembered(c, output)
  /\ asked' = asked \cup Rows(bar'.calls)
  /\ UNCHANGED <<mode, order>>

\* Offline: every agent is its stub, without an await.
Stubbed(c) == mode.offline /\ \E out \in StubAnswers(c) : Done(c, out, "stub")

\* A vendor answers in time.
Served(c) == ~mode.offline /\ \E out \in Answers(c) : Done(c, out, "ok")

\* Mutant: a failed fallback goes back to the primary.
TryFallback_forever(c) ==
  /\ ~mode.offline /\ mode.fallback
  /\ bar' = [bar EXCEPT !.calls = (@ \ {c}) \cup
               {[c EXCEPT !.vendor = IF @ = "primary" THEN "fallback" ELSE "primary"]}]
  /\ UNCHANGED <<mode, regime_cache, news_cache, asked, alarm, order>>

\* The primary fails or times out: the other vendor is tried once.
TryFallback(c) ==
  /\ ~mode.offline /\ mode.fallback /\ c.vendor = "primary"
  /\ bar' = [bar EXCEPT !.calls = (@ \ {c}) \cup {[c EXCEPT !.vendor = "fallback"]}]
  /\ UNCHANGED <<mode, regime_cache, news_cache, asked, alarm, order>>

\* Nobody is left to try: the stub stands in.
Degraded(c) ==
  /\ ~mode.offline /\ (mode.fallback => c.vendor = "fallback")
  /\ \E out \in StubAnswers(c) : Done(c, out, "degraded")

CallEnds(c) == Stubbed(c) \/ Served(c) \/ TryFallback(c) \/ Degraded(c)

-----------------------------------------------------------------------------
(* The loop around it                                                      *)

Init ==
  /\ mode \in [offline: BOOLEAN, fallback: BOOLEAN] /\ ~(mode.offline /\ mode.fallback)
  /\ regime_cache = Nothing
  /\ news_cache = [s \in Symbols |-> Nothing]
  /\ bar = Idle
  /\ asked = {}
  /\ alarm = [s \in Symbols |-> Nothing]
  /\ order = Nothing

StartBar ==
  /\ bar.wave = "idle"
  /\ \E market \in Markets, portfolio \in Books :
       LET b == [Idle EXCEPT !.market = market, !.portfolio = portfolio]
       IN bar' = IF regime_cache # Nothing
                 THEN with_calls(b, "scout", {Ask("scout", 0)})
                 ELSE with_calls(b, "regime", {Ask("regime", 0)})
  /\ asked' = Rows(bar'.calls)
  /\ order' = Nothing
  /\ UNCHANGED <<mode, regime_cache, news_cache, alarm>>

\* The risk that the bar's opinions give a symbol; LOW if there is none.
rated(b, symbol) ==
  LET about == {n \in DOMAIN b.candidates : b.candidates[n] = symbol}
  IN IF about = {} THEN "LOW" ELSE b.news[Min(about)].news_risk

Features == [finite |-> TRUE, close |-> 500, half_atr |-> 4]
Asset == [tradable |-> TRUE, increment |-> 1, min_order_size |-> 1]
ruled(news_risk) ==
  LET p == bar.proposal
  IN IF p.symbol \in Symbols
          /\ approved(p, Features, bar.portfolio, Asset, news_risk,
                      new_session(bar.portfolio.equity, 0))
     THEN p ELSE Nothing

\* run_once, after the decision was journaled: HOLD is nothing to do, a
\* symbol without features is ignored, the rest is for the risk engine.
Rule ==
  /\ bar.wave = "decided"
  /\ order' = ruled(rated(bar, bar.proposal.symbol))
  /\ bar' = Idle /\ asked' = {}
  /\ UNCHANGED <<mode, regime_cache, news_cache, alarm>>

\* Mutant: an entry that never expires.
older_for_ever(age, ttl) == IF age = Nothing THEN Nothing ELSE age + 1

older(age, ttl) == IF age = Nothing \/ age = ttl THEN Nothing ELSE age + 1
Pass ==
  /\ regime_cache' = older(regime_cache, RegimeTTL)
  /\ news_cache' = [s \in Symbols |->
                      LET hit == news_cache[s]
                      IN IF hit = Nothing \/ hit.age = NewsTTL THEN Nothing
                         ELSE [hit EXCEPT !.age = @ + 1]]
  /\ alarm' = [s \in Symbols |-> older(alarm[s], NewsTTL)]
  /\ UNCHANGED <<mode, bar, asked, order>>

Next == StartBar \/ (\E c \in bar.calls : CallEnds(c)) \/ Rule \/ Pass

Spec == Init /\ [][Next]_vars

\* wait_for() bounds every try, so a call that was made ends.
FairSpec == Spec /\ WF_vars(\E c \in bar.calls : CallEnds(c)) /\ WF_vars(Rule)

-----------------------------------------------------------------------------
(* Properties                                                              *)

\* Every variable has its type.
TypeOK ==
  /\ mode \in [offline: BOOLEAN, fallback: BOOLEAN]
  /\ regime_cache \in 0..RegimeTTL \cup {Nothing}
  /\ \A s \in Symbols : alarm[s] \in 0..NewsTTL \cup {Nothing}
  /\ bar.calls \subseteq Call /\ IsABag(bar.results)
  /\ bar.pm_status \in {"ok", "stub", "fallback", Nothing}
  /\ asked \subseteq [agent: Agent, n: Nat]
  /\ order # Nothing => order \in TradeProposal

\* The journal's record of a bar has one row for each call that was made for
\* it, whoever answered, in whatever order they did (run_bar, log_decision).
EveryCallIsJournaled == bar.wave = "decided" => bar.results = SetToBag(asked)

\* When the model is unavailable the desk degrades to an arbiter whose
\* proposals the risk engine does not turn down for conviction, for news, or
\* for a position that is full (deterministic_arbitrate, evaluate).
FallbackStands ==
  bar.wave = "decided" /\ bar.pm_status \in {"fallback", "stub"} /\ bar.proposal.action # "HOLD" =>
    /\ bar.proposal.conviction >= MinConviction
    /\ rated(bar, bar.proposal.symbol) # "CRITICAL"
    /\ bar.proposal.action = "BUY" => position_headroom(bar.proposal, bar.portfolio) > 0

\* A CRITICAL rating vetoes its symbol for as long as it is cached, whatever
\* later bars, later answers or failing agents say, whenever the symbol is a
\* candidate of the bar (_get_news, evaluate).  A symbol that is not has no
\* opinion, and run_once takes its risk for LOW.
CriticalHolds ==
  [][order = Nothing /\ order' # Nothing /\ order'.symbol \in Range(bar.candidates)
       => alarm[order'.symbol] = Nothing]_vars

\* Every bar that begins comes to an end (Agent.run, run_bar).
BarDecides == (bar.wave # "idle") ~> (bar.wave = "idle")

=============================================================================
