---------------------------- MODULE SessionRules ----------------------------
(***************************************************************************)
(* The pure functions of risk/session.py over SessionState (contracts.py): *)
(* the daily drawdown kill-switch and the cooldown of each symbol.         *)
(* Equity is in whole units and the limit in percent, so that drawdown >=  *)
(* limit is exact; a symbol that the dictionary cooldown_until does not    *)
(* hold is one whose entry is 0, which cools nothing off.                  *)
(***************************************************************************)
EXTENDS Integers

CONSTANTS Symbols,
          Equities,                 \* what get_portfolio() may report
          MaxDrawdownPct,           \* MAX_DAILY_DRAWDOWN_PCT, in percent
          CooldownBars,             \* COOLDOWN_BARS
          CooldownBarsAfterTake     \* COOLDOWN_BARS_AFTER_TAKE

ASSUME EquitiesAssumption == Equities \subseteq Int
ASSUME LimitsAssumption ==
  MaxDrawdownPct \in Nat \ {0} /\ CooldownBars \in Nat \ {0} /\ CooldownBarsAfterTake \in Nat \ {0}

SessionState == [trading_day: Nat, day_peak_equity: Int, bar_index: Nat, halted: BOOLEAN,
                 cooldown_until: [Symbols -> Nat]]
ExitReason == {"stop", "take", "agent"}

new_session(equity, day) ==
  [trading_day |-> day, day_peak_equity |-> equity, bar_index |-> 0, halted |-> FALSE,
   cooldown_until |-> [s \in Symbols |-> 0]]

\* drawdown_from(state, equity) >= MAX_DAILY_DRAWDOWN_PCT: a peak that is not
\* positive has no drawdown.
limit_reached(peak, equity) ==
  peak > 0 /\ 100 * (peak - equity) >= MaxDrawdownPct * peak

\* Mutant: a day boundary that forgets the cooldowns.
roll_day_afresh(state, equity, today) ==
  IF state.trading_day = today THEN state
  ELSE [new_session(equity, today) EXCEPT !.bar_index = state.bar_index]

roll_day(state, equity, today) ==
  IF state.trading_day = today THEN state
  ELSE [state EXCEPT !.trading_day = today, !.day_peak_equity = equity, !.halted = FALSE]

raised_peak(peak, equity) == IF equity > peak THEN equity ELSE peak

\* Mutant: a halt that ends with the drawdown.
observe_equity_unlatched(state, equity) ==
  LET peak == raised_peak(state.day_peak_equity, equity)
  IN [state EXCEPT !.day_peak_equity = peak, !.halted = limit_reached(peak, equity)]

observe_equity(state, equity) ==
  LET peak == raised_peak(state.day_peak_equity, equity)
  IN [state EXCEPT !.day_peak_equity = peak, !.halted = @ \/ limit_reached(peak, equity)]

cooling_down(state, symbol) == state.cooldown_until[symbol] > state.bar_index

cooldown_bars(reason) == IF reason = "take" THEN CooldownBarsAfterTake ELSE CooldownBars
start_cooldown(state, symbol, reason) ==
  [state EXCEPT !.cooldown_until[symbol] = state.bar_index + cooldown_bars(reason)]

\* Mutant: bars left to wait, counted down and never dropped.
advance_bar_countdown(state) ==
  [state EXCEPT !.bar_index = @ + 1,
                !.cooldown_until = [s \in Symbols |-> @[s] - 1]]

\* Count the bar and drop the entries that have expired.
unexpired(until, bar) == [s \in Symbols |-> IF until[s] > bar THEN until[s] ELSE 0]
advance_bar(state) ==
  [state EXCEPT !.bar_index = state.bar_index + 1,
                !.cooldown_until = unexpired(state.cooldown_until, state.bar_index + 1)]

=============================================================================
