---------------------------- MODULE PaperAccount ----------------------------
(***************************************************************************)
(* The money: SimBroker (execution/broker_sim.py) under the bars of        *)
(* TradingLoop.run_once, with the sizes that RiskEngine computes, the      *)
(* stops that protect() arms, the ticks that close positions, and the      *)
(* session that watches equity.  SimBroker answers without suspending, so  *)
(* the steps of a bar are: mark each symbol that has bars, which fires its *)
(* resting stops; tick each tracked position; read the account; decide and *)
(* execute; count the bar.                                                 *)
(*                                                                         *)
(* Money, prices and quantities are integers, a fee is rounded down to     *)
(* a unit of money.  The day does not end here (TradingSession has         *)
(* midnights) and the one task awaits nothing that others change           *)
(* (TradingDesk has interleavings).                                        *)
(*                                                                         *)
(* Env: "bars_fail"  get_bars() of some symbols raises or is empty, or     *)
(*                   latest_price() raises;                                *)
(*      "add_on"     the desk buys a symbol it already holds.              *)
(***************************************************************************)
EXTENDS RiskEngine

CONSTANTS Prices,        \* what a close or a last trade may be
          HalfAtrs,      \* what half of atr_14 may be
          Multipliers,   \* the size multipliers proposed
          Asset,         \* get_asset()
          InitialCash, FeeBps,
          MaxBars,       \* bound: bars
          Env,
          NoLot          \* StopManager does not track the symbol

ASSUME MoneyAssumption ==
  /\ Prices \subseteq Nat \ {0} /\ HalfAtrs \subseteq Nat /\ Multipliers \subseteq Percent
  /\ {InitialCash, FeeBps, MaxBars} \subseteq Nat /\ Asset \in AssetSpec
ASSUME AccountEnvAssumption == Env \subseteq {"bars_fail", "add_on"}

VARIABLES desk,    \* what broker, StopManager and session keep
          fresh,   \* the symbols with features this bar
          todo,    \* the symbols that the loop over them has left
          book,    \* the PortfolioState this bar decides with
          pc,      \* where the bar is
          truth    \* history: the day's peak of what the account is worth,
                   \* and whether the loss limit was reached from it

vars == <<desk, fresh, todo, book, pc, truth>>

\* An order's number is its place in the dictionary of orders; own: the tracked
\* position's broker_stop_order_id names it.
RestingStop == [nr: Nat \ {0}, qty: Nat, stop_px: Nat, own: BOOLEAN]
\* own: the order broker_stop_order_id names is open, filled or rejected, or
\* canceled.
Lot == [qty: Nat, stop_px: Nat, take_px: Nat, own: {"live", "spent", "canceled"}]
Desk == [cash: Int, prices: [Symbols -> Prices \cup {0}], positions: [Symbols -> Position],
         resting: [Symbols -> SUBSET RestingStop], tracked: [Symbols -> Lot \cup {NoLot}],
         session: SessionState]
ASSUME NoLotAssumption == NoLot \notin Lot

NoPosition == [qty |-> 0, value |-> 0]

-----------------------------------------------------------------------------
(* SimBroker                                                               *)

fee(price, qty) == (price * qty * FeeBps) \div 10000
cost(d, s, qty) == d.prices[s] * qty + fee(d.prices[s], qty)

\* Mutant: the fee is forgotten when cash is compared.
can_buy_without_fee(d, s, qty) == d.prices[s] > 0 /\ d.prices[s] * qty <= d.cash

\* _fill() rejects a BUY that costs more than there is.
can_buy(d, s, qty) == d.prices[s] > 0 /\ cost(d, s, qty) <= d.cash

\* An existing position grows; its market value waits for the next price.
fill_buy(d, s, qty) ==
  [d EXCEPT !.cash = @ - cost(d, s, qty),
            !.positions[s] = IF @.qty > 0 THEN [@ EXCEPT !.qty = @ + qty]
                             ELSE [qty |-> qty, value |-> qty * d.prices[s]]]

\* Mutant: an emptied position stays in the book.
fill_sell_keeping(d, s, qty, price) ==
  LET sold == smaller(qty, d.positions[s].qty)
  IN [d EXCEPT !.cash = @ + price * sold - fee(price, qty),
               !.positions[s].qty = @ - sold]

\* The sell of what there is, for the fee of what was asked; what is left of
\* the position keeps its market value until the next price.
fill_sell(d, s, qty, price) ==
  LET sold == smaller(qty, d.positions[s].qty)
      left == d.positions[s].qty - sold
  IN [d EXCEPT !.cash = @ + price * sold - fee(price, qty),
               !.positions[s] = IF left = 0 THEN NoPosition ELSE [@ EXCEPT !.qty = left]]

Spent(lot) == IF lot = NoLot THEN NoLot ELSE [lot EXCEPT !.own = "spent"]

\* One resting stop the price has crossed: filled, or rejected if nothing is
\* left to sell.  It rests no longer.
fire(d, s, order, price) ==
  LET sold == IF holds(d, s) THEN fill_sell(d, s, order.qty, price) ELSE d
  IN IF order.own THEN [sold EXCEPT !.tracked[s] = Spent(@)] ELSE sold

\* _trigger_resting(): in the order they were submitted.
last_nr(orders) == IF orders = {} THEN 0 ELSE Max({o.nr : o \in orders})
trigger_resting(d, s, price) ==
  LET fired[n \in 0..last_nr(d.resting[s])] ==
        IF n = 0 THEN d
        ELSE LET crossed == {o \in d.resting[s] : o.nr = n /\ price <= o.stop_px}
             IN IF crossed = {} THEN fired[n - 1]
                ELSE fire(fired[n - 1], s, CHOOSE o \in crossed : TRUE, price)
  IN [fired[last_nr(d.resting[s])]
        EXCEPT !.resting[s] = {o \in d.resting[s] : price > o.stop_px}]

mark(d, s, price) ==
  [d EXCEPT !.prices[s] = price, !.positions[s].value = d.positions[s].qty * price]

set_price(d, s, price) == trigger_resting(mark(d, s, price), s, price)

worth(d) == d.cash + total([s \in Symbols |-> d.positions[s].qty * d.prices[s]])

get_portfolio(d) ==
  [equity |-> d.cash + total([s \in Symbols |-> d.positions[s].value]),
   cash |-> d.cash, positions |-> d.positions]

-----------------------------------------------------------------------------
(* StopManager, over a broker that answers at once                         *)

\* protect(): the new lot replaces the tracked one; a stop that one had
\* stays with the broker.
protect(d, s, qty, stop, take) ==
  [d EXCEPT !.tracked[s] = [qty |-> qty, stop_px |-> stop, take_px |-> take, own |-> "live"],
            !.resting[s] = {[o EXCEPT !.own = FALSE] : o \in @}
              \cup {[nr |-> last_nr(@) + 1, qty |-> qty, stop_px |-> stop, own |-> TRUE]}]

\* _close(): back off if the stop is not confirmed dead; else cancel it and
\* sell, and if the sell is rejected keep watching.
close(d, s, reason) ==
  LET lot == d.tracked[s]
      unarmed == [d EXCEPT !.resting[s] = {o \in @ : ~o.own}]
      sold == fill_sell(unarmed, s, lot.qty, d.prices[s])
  IN IF lot.own = "spent" THEN d
     ELSE IF ~holds(d, s) THEN [unarmed EXCEPT !.tracked[s].own = "canceled"]
     ELSE [sold EXCEPT !.tracked[s] = NoLot,
                       !.session = start_cooldown(d.session, s, reason)]

on_price(d, s, price) ==
  IF d.tracked[s] = NoLot \/ price = 0 THEN d
  ELSE IF price <= d.tracked[s].stop_px THEN close(d, s, "stop")
  ELSE IF price >= d.tracked[s].take_px THEN close(d, s, "take")
  ELSE d

-----------------------------------------------------------------------------
(* A bar of the loop                                                       *)

Init ==
  /\ desk = [cash |-> InitialCash, prices |-> [s \in Symbols |-> 0],
             positions |-> [s \in Symbols |-> NoPosition],
             resting |-> [s \in Symbols |-> {}], tracked |-> [s \in Symbols |-> NoLot],
             session |-> new_session(InitialCash, 0)]
  /\ fresh = {} /\ todo = {}
  /\ book = get_portfolio(desk)
  /\ pc = "gather"
  /\ truth = [peak |-> InitialCash, reached |-> FALSE]

\* _gather(): which symbols have bars.
Gather ==
  /\ pc = "gather" /\ desk.session.bar_index < MaxBars
  /\ \E have \in SUBSET Symbols :
       /\ "bars_fail" \in Env \/ have = Symbols
       /\ fresh' = have /\ todo' = have
  /\ pc' = "mark"
  /\ UNCHANGED <<desk, book, truth>>

\* The broker is marked to the close of the last bar; a symbol without bars
\* keeps its old mark.
Mark ==
  /\ pc = "mark"
  /\ \E s \in todo, close_px \in Prices :
       desk' = set_price(desk, s, close_px) /\ todo' = todo \ {s}
  /\ UNCHANGED <<fresh, book, pc, truth>>

Marked ==
  /\ pc = "mark" /\ todo = {}
  /\ todo' = {s \in Symbols : desk.tracked[s] # NoLot}
  /\ pc' = "tick"
  /\ UNCHANGED <<desk, fresh, book, truth>>

\* _tick_stops(): every tracked position is fed its latest trade (0: there
\* is none), which need not be the close of a bar.
Tick ==
  /\ pc = "tick"
  /\ \E s \in todo, trade \in Prices \cup {0} :
       desk' = on_price(desk, s, trade) /\ todo' = todo \ {s}
  /\ UNCHANGED <<fresh, book, pc, truth>>

\* latest_price() raised: the bar fails and is counted.
TickFails ==
  /\ pc = "tick" /\ todo # {} /\ "bars_fail" \in Env
  /\ todo' = {} /\ pc' = "count"
  /\ UNCHANGED <<desk, fresh, book, truth>>

Ticked ==
  /\ pc = "tick" /\ todo = {}
  /\ pc' = IF fresh = {} THEN "count" ELSE "read"
  /\ UNCHANGED <<desk, fresh, todo, book, truth>>

\* get_portfolio() and observe_equity().
Read ==
  /\ pc = "read"
  /\ book' = get_portfolio(desk)
  /\ desk' = [desk EXCEPT !.session = observe_equity(@, book'.equity)]
  /\ LET peak == raised_peak(truth.peak, worth(desk))
     IN truth' = [peak |-> peak, reached |-> truth.reached \/ limit_reached(peak, worth(desk))]
  /\ pc' = "decide"
  /\ UNCHANGED <<fresh, todo>>

\* What the agents may propose: any symbol, either side.
Proposed(s, action, multiplier) ==
  [symbol |-> s, action |-> action, conviction |-> 100,
   size_multiplier |-> multiplier, stop_atr |-> KStop]

MayPropose(s) == s \in fresh /\ ("add_on" \in Env \/ ~holds(desk, s))

\* An approved BUY: a market order at the last price, and its stop.
Buy ==
  /\ pc = "decide"
  /\ \E s \in Symbols, atr \in HalfAtrs, m \in Multipliers :
       LET p == Proposed(s, "BUY", m)
           f == [finite |-> TRUE, close |-> desk.prices[s], half_atr |-> atr]
           qty == entry_qty(p, f, book, Asset)
       IN /\ MayPropose(s)
          /\ approved(p, f, book, Asset, "LOW", desk.session)
          /\ desk' = IF can_buy(desk, s, qty)
                     THEN protect(fill_buy(desk, s, qty), s, qty, stop_px(p, f), take_px(p, f))
                     ELSE desk
  /\ pc' = "count"
  /\ UNCHANGED <<fresh, todo, book, truth>>

\* An approved SELL: of the tracked lot, or of what nobody tracks.
Sell ==
  /\ pc = "decide"
  /\ \E s \in fresh, atr \in HalfAtrs :
       LET p == Proposed(s, "SELL", 100)
           f == [finite |-> TRUE, close |-> desk.prices[s], half_atr |-> atr]
       IN /\ approved(p, f, book, Asset, "LOW", desk.session)
          /\ desk' = IF desk.tracked[s] # NoLot THEN close(desk, s, "agent")
                     ELSE fill_sell(desk, s, exit_qty(p, book, Asset), desk.prices[s])
  /\ pc' = "count"
  /\ UNCHANGED <<fresh, todo, book, truth>>

\* HOLD, or a rejection.
Stand ==
  /\ pc = "decide" /\ pc' = "count"
  /\ UNCHANGED <<desk, fresh, todo, book, truth>>

CountBar ==
  /\ pc = "count" /\ pc' = "gather"
  /\ desk' = [desk EXCEPT !.session = advance_bar(@)]
  /\ UNCHANGED <<fresh, todo, book, truth>>

Next == Gather \/ Mark \/ Marked \/ Tick \/ TickFails \/ Ticked \/ Read \/ Buy \/ Sell \/ Stand \/ CountBar

Spec == Init /\ [][Next]_vars

-----------------------------------------------------------------------------
(* Properties                                                              *)

\* Every variable has its type; a sum of money may be any integer.
TypeOK ==
  /\ desk \in Desk /\ fresh \subseteq Symbols /\ todo \subseteq Symbols /\ book \in PortfolioState
  /\ pc \in {"gather", "mark", "tick", "read", "decide", "count"}
  /\ truth \in [peak: Int, reached: BOOLEAN]

\* The account never pays with money it does not have, though the cash cap
\* of risk knows nothing of the fee that the broker adds (_fill, evaluate).
CashNeverNegative == desk.cash >= 0

\* The kill-switch trips when, and only when, what the account holds at the
\* last prices fell by the limit from its peak: the equity that
\* observe_equity() is given is live (get_portfolio, _fill, set_price).
HaltIsEarned == desk.session.halted = truth.reached

\* Whatever the desk bought, each position, the whole book and the number of
\* positions were within the caps of what the account was then worth.
CapsRespected ==
  [][\A s \in Symbols : desk'.positions[s].qty > desk.positions[s].qty =>
       /\ 100 * desk'.positions[s].qty * desk.prices[s] <= MaxPositionPct * worth(desk)
       /\ 100 * gross_exposure(desk') <= MaxExposurePct * worth(desk)
       /\ open_count(desk') <= MaxOpenPositions]_vars

=============================================================================
