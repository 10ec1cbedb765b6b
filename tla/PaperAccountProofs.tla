------------------------- MODULE PaperAccountProofs -------------------------
(***************************************************************************)
(* The account of PaperAccount for any watchlist, prices, limits, sizes    *)
(* and number of bars, with bars that fail, as long as the desk does not   *)
(* buy a symbol that it holds: with an add-on the theorems are false, see  *)
(* the counterexample of FindPhantomHalt.                                  *)
(***************************************************************************)
EXTENDS PaperAccount, RiskEngineProofs

NoAddOns == "add_on" \notin Env

-----------------------------------------------------------------------------
(* The inductive invariant                                                 *)

\* Nothing is held and nothing on sale; a position that its resting stop has
\* sold may still be tracked.
Flat(d, s) ==
  /\ d.positions[s].qty = 0
  /\ d.resting[s] = {}
  /\ d.tracked[s] = NoLot \/ d.tracked[s].own = "spent"

\* What is held is tracked, and on sale once, whole.
Long(d, s) ==
  /\ d.positions[s].qty > 0
  /\ d.tracked[s] # NoLot /\ d.tracked[s].own = "live"
  /\ d.tracked[s].qty = d.positions[s].qty
  /\ \E px \in Nat :
       d.resting[s] = {[nr |-> 1, qty |-> d.positions[s].qty, stop_px |-> px, own |-> TRUE]}

\* The books of a symbol agree: what the broker holds, at the price it is
\* marked to, what rests, and what StopManager tracks.
Squared(d, s) ==
  /\ d.positions[s].value = d.positions[s].qty * d.prices[s]
  /\ Flat(d, s) \/ Long(d, s)

\* The session saw the peak, and the breach, of what the account was worth.
SawTheTruth ==
  /\ desk.session.day_peak_equity = truth.peak
  /\ desk.session.halted = truth.reached

\* A fee of no more than the price leaves the account solvent.
Solvent(d) == FeeBps <= 10000 => d.cash >= 0

AccountInv ==
  /\ TypeOK
  /\ \A s \in Symbols : Squared(desk, s)
  /\ Solvent(desk)
  /\ SawTheTruth
  /\ pc = "decide" => book = get_portfolio(desk)

-----------------------------------------------------------------------------
(* What an operation on a symbol leaves alone                              *)

Elsewhere(d, e, s) ==
  \A t \in Symbols \ {s} :
    /\ e.prices[t] = d.prices[t] /\ e.positions[t] = d.positions[t]
    /\ e.resting[t] = d.resting[t] /\ e.tracked[t] = d.tracked[t]

\* The session of e is that of d but for a cooldown.
SameDay(d, e) ==
  /\ e.session.day_peak_equity = d.session.day_peak_equity
  /\ e.session.halted = d.session.halted

\* What set_price and on_price do to the books of a symbol: they agree as
\* before, it is held no more than before, and the account stays solvent.
Keeps(d, e, s) ==
  /\ e \in Desk /\ Squared(e, s) /\ Elsewhere(d, e, s) /\ SameDay(d, e)
  /\ e.positions[s].qty <= d.positions[s].qty
  /\ Solvent(d) => Solvent(e)

LEMMA SquaredElsewhere ==
  ASSUME NEW d, NEW e, NEW s \in Symbols, NEW t \in Symbols, Elsewhere(d, e, s), t # s,
         Squared(d, t)
  PROVE  Squared(e, t)
BY DEF Elsewhere, Squared, Flat, Long

LEMMA DeskFields ==
  ASSUME NEW d \in Desk, NEW s \in Symbols
  PROVE  /\ d.cash \in Int
         /\ d.prices \in [Symbols -> Prices \cup {0}] /\ d.prices[s] \in Nat
         /\ d.positions \in [Symbols -> Position]
         /\ d.positions[s].qty \in Nat /\ d.positions[s].value \in Int
         /\ d.resting \in [Symbols -> SUBSET RestingStop]
         /\ d.tracked \in [Symbols -> Lot \cup {NoLot}]
         /\ d.session \in SessionState
         /\ d = [cash |-> d.cash, prices |-> d.prices, positions |-> d.positions,
                 resting |-> d.resting, tracked |-> d.tracked, session |-> d.session]
<1>1. /\ d.cash \in Int
      /\ d.prices \in [Symbols -> Prices \cup {0}]
      /\ d.positions \in [Symbols -> Position]
      /\ d.resting \in [Symbols -> SUBSET RestingStop]
      /\ d.tracked \in [Symbols -> Lot \cup {NoLot}]
      /\ d.session \in SessionState
      /\ d = [cash |-> d.cash, prices |-> d.prices, positions |-> d.positions,
              resting |-> d.resting, tracked |-> d.tracked, session |-> d.session]
  BY DEF Desk
<1>2. d.prices[s] \in Nat
  BY <1>1, MoneyAssumption
<1>3. d.positions[s].qty \in Nat /\ d.positions[s].value \in Int
  BY <1>1 DEF Position
<1> QED BY <1>1, <1>2, <1>3

\* A fee is of no more than the price, if the rate is.
rate(paid) == (paid * FeeBps) \div 10000

LEMMA FeeType ==
  ASSUME NEW paid \in Nat
  PROVE  rate(paid) \in Nat /\ (FeeBps <= 10000 => rate(paid) <= paid)
<1> DEFINE b == paid * FeeBps
<1>1. FeeBps \in Nat
  BY MoneyAssumption
<1>2. b \in Nat
  BY <1>1
<1>3. ASSUME FeeBps <= 10000 PROVE b <= paid * 10000
  BY <1>1, <1>3
<1> HIDE DEF b
<1>4. b \div 10000 \in Nat
  BY <1>2
<1>5. ASSUME FeeBps <= 10000 PROVE b \div 10000 <= paid
  BY <1>2, <1>3, <1>5
<1> QED BY <1>4, <1>5 DEF rate, b

\* The sale of all that is held, after which there is so much cash.
Emptied(d, s, cash) ==
  [d EXCEPT !.cash = cash, !.positions = [d.positions EXCEPT ![s] = NoPosition]]

\* What a sale brings in, and what a purchase costs.
proceeds(price, qty) == price * qty - fee(price, qty)

LEMMA ProceedsType ==
  ASSUME NEW price \in Nat, NEW qty \in Nat
  PROVE  /\ proceeds(price, qty) \in Int
         /\ FeeBps <= 10000 => proceeds(price, qty) >= 0
<1> DEFINE a == price * qty
<1>1. a \in Nat
  OBVIOUS
<1>2. proceeds(price, qty) = a - rate(a)
  BY DEF proceeds, fee, rate
<1> HIDE DEF a
<1> QED BY <1>1, <1>2, FeeType

LEMMA CostType ==
  ASSUME NEW d, NEW s, d.prices[s] \in Nat, NEW qty \in Nat
  PROVE  cost(d, s, qty) \in Nat
<1> DEFINE a == d.prices[s] * qty
<1>1. a \in Nat
  OBVIOUS
<1>2. cost(d, s, qty) = a + rate(a)
  BY DEF cost, fee, rate
<1> HIDE DEF a
<1> QED BY <1>1, <1>2, FeeType

LEMMA SellsAll ==
  ASSUME NEW d \in Desk, NEW s \in Symbols, NEW price \in Nat, NEW qty \in Nat,
         d.positions[s].qty = qty
  PROVE  fill_sell(d, s, qty, price) = Emptied(d, s, d.cash + proceeds(price, qty))
<1> DEFINE a == price * qty
           b == fee(price, qty)
<1>1. /\ d.positions \in [Symbols -> Position] /\ d.cash \in Int
      /\ d = [cash |-> d.cash, prices |-> d.prices, positions |-> d.positions,
              resting |-> d.resting, tracked |-> d.tracked, session |-> d.session]
  BY DeskFields
<1>2. smaller(qty, d.positions[s].qty) = qty /\ d.positions[s].qty - qty = 0
  BY DEF smaller
<1>3. a \in Nat
  OBVIOUS
<1>4. proceeds(price, qty) = a - b /\ b = rate(a)
  BY DEF proceeds, fee, rate
<1>5. fill_sell(d, s, qty, price)
        = [d EXCEPT !.cash = d.cash + a - b, !.positions[s] = NoPosition]
  BY <1>1, <1>2 DEF fill_sell
<1> HIDE DEF a, b
<1>6. d.cash + a - b = d.cash + proceeds(price, qty)
  BY <1>1, <1>3, <1>4, FeeType
<1> QED BY <1>1, <1>5, <1>6 DEF Emptied

\* One order that rests fires or stays.
LEMMA TriggerOne ==
  ASSUME NEW d \in Desk, NEW s \in Symbols, NEW price \in Nat, NEW o \in RestingStop,
         d.resting[s] = {o}, o.nr = 1
  PROVE  trigger_resting(d, s, price)
           = IF price <= o.stop_px THEN [fire(d, s, o, price) EXCEPT !.resting[s] = {}]
             ELSE [d EXCEPT !.resting[s] = {o}]
<1> DEFINE crossed(n) == {x \in d.resting[s] : x.nr = n /\ price <= x.stop_px}
           body(g, n) == IF n = 0 THEN d
                         ELSE IF crossed(n) = {} THEN g[n - 1]
                              ELSE fire(g[n - 1], s, CHOOSE x \in crossed(n) : TRUE, price)
           fired == CHOOSE g : g = [n \in 0..1 |-> body(g, n)]
           rest == {x \in d.resting[s] : price > x.stop_px}
<1>1. last_nr(d.resting[s]) = 1
  <2>1. {x.nr : x \in d.resting[s]} = {1}
    OBVIOUS
  <2>2. Max({1}) = 1
    BY DEF Max
  <2> QED BY <2>1, <2>2 DEF last_nr
<1>2. trigger_resting(d, s, price) = [fired[1] EXCEPT !.resting[s] = rest]
  BY <1>1 DEF trigger_resting
<1>3. \E g : g = [n \in 0..1 |-> body(g, n)]
  <2> DEFINE h == [n \in 0..1 |-> IF n = 0 THEN d ELSE body([m \in 0..1 |-> d], 1)]
  <2>1. body(h, 0) = h[0]
    OBVIOUS
  <2>2. body(h, 1) = h[1]
    <3>1. h[0] = d /\ [m \in 0..1 |-> d][0] = d
      OBVIOUS
    <3>2. h[1] = body([m \in 0..1 |-> d], 1)
      OBVIOUS
    <3> HIDE DEF h, crossed
    <3> QED BY <3>1, <3>2
  <2>3. h = [n \in 0..1 |-> h[n]]
    OBVIOUS
  <2>4. \A n \in 0..1 : n = 0 \/ n = 1
    OBVIOUS
  <2> HIDE DEF h, body
  <2>5. h = [n \in 0..1 |-> body(h, n)]
    BY <2>1, <2>2, <2>3, <2>4
  <2> QED BY <2>5
<1>4. fired = [n \in 0..1 |-> body(fired, n)]
  <2> HIDE DEF body
  <2> QED BY <1>3
<1> HIDE DEF fired
<1>5. fired[0] = d
  BY <1>4
<1>6. CASE price <= o.stop_px
  <2>1. crossed(1) = {o} /\ rest = {}
    BY <1>6 DEF RestingStop
  <2>2. (CHOOSE x \in {o} : TRUE) = o
    OBVIOUS
  <2>3. fired[1] = body(fired, 1)
    <3> HIDE DEF body
    <3> QED BY <1>4
  <2>4. fired[1] = fire(d, s, o, price)
    <3> HIDE DEF crossed
    <3> QED BY <1>5, <2>1, <2>2, <2>3
  <2> HIDE DEF rest
  <2> QED BY <1>2, <1>6, <2>1, <2>4
<1>7. CASE ~(price <= o.stop_px)
  <2>1. crossed(1) = {} /\ rest = {o}
    BY <1>7 DEF RestingStop
  <2>2. fired[1] = body(fired, 1)
    <3> HIDE DEF body
    <3> QED BY <1>4
  <2>3. fired[1] = d
    <3> HIDE DEF crossed
    <3> QED BY <1>5, <2>1, <2>2
  <2> HIDE DEF rest
  <2> QED BY <1>2, <1>7, <2>1, <2>3
<1> QED BY <1>6, <1>7

LEMMA TriggerNone ==
  ASSUME NEW d \in Desk, NEW s \in Symbols, NEW price \in Nat, d.resting[s] = {}
  PROVE  trigger_resting(d, s, price) = [d EXCEPT !.resting[s] = {}]
<1> DEFINE body(g, n) ==
             IF n = 0 THEN d
             ELSE LET crossed == {x \in d.resting[s] : x.nr = n /\ price <= x.stop_px}
                  IN IF crossed = {} THEN g[n - 1]
                     ELSE fire(g[n - 1], s, CHOOSE x \in crossed : TRUE, price)
           fired == CHOOSE g : g = [n \in 0..0 |-> body(g, n)]
<1>1. last_nr(d.resting[s]) = 0 /\ {x \in d.resting[s] : price > x.stop_px} = {}
  BY DEF last_nr
<1>2. trigger_resting(d, s, price) = [fired[0] EXCEPT !.resting[s] = {}]
  BY <1>1 DEF trigger_resting
<1>3. \E g : g = [n \in 0..0 |-> body(g, n)]
  <2> DEFINE h == [n \in 0..0 |-> d]
  <2>1. \A n \in 0..0 : body(h, n) = d
    OBVIOUS
  <2> HIDE DEF body
  <2>2. h = [n \in 0..0 |-> body(h, n)]
    BY <2>1
  <2> QED BY <2>2
<1>4. fired = [n \in 0..0 |-> body(fired, n)]
  <2> HIDE DEF body
  <2> QED BY <1>3
<1> HIDE DEF fired
<1>5. fired[0] = d
  BY <1>4
<1> QED BY <1>2, <1>5


LEMMA MarkFields ==
  ASSUME NEW d \in Desk, NEW s \in Symbols, NEW price \in Nat, price \in Prices
  PROVE  LET m == mark(d, s, price)
         IN /\ m \in Desk
            /\ m = [cash |-> d.cash, prices |-> [d.prices EXCEPT ![s] = price],
                    positions |-> [d.positions EXCEPT ![s] =
                      [qty |-> d.positions[s].qty, value |-> d.positions[s].qty * price]],
                    resting |-> d.resting, tracked |-> d.tracked, session |-> d.session]
<1> DEFINE ps == [d.positions EXCEPT ![s] =
                    [qty |-> d.positions[s].qty, value |-> d.positions[s].qty * price]]
           px == [d.prices EXCEPT ![s] = price]
<1>1. /\ d.cash \in Int
      /\ d.prices \in [Symbols -> Prices \cup {0}]
      /\ d.positions \in [Symbols -> Position]
      /\ d.positions[s].qty \in Nat
      /\ d.resting \in [Symbols -> SUBSET RestingStop]
      /\ d.tracked \in [Symbols -> Lot \cup {NoLot}]
      /\ d.session \in SessionState
      /\ d = [cash |-> d.cash, prices |-> d.prices, positions |-> d.positions,
              resting |-> d.resting, tracked |-> d.tracked, session |-> d.session]
  BY DeskFields
<1>2. d.positions[s] = [qty |-> d.positions[s].qty, value |-> d.positions[s].value]
  BY <1>1 DEF Position
<1>3. [d.positions[s] EXCEPT !.value = d.positions[s].qty * price]
        = [qty |-> d.positions[s].qty, value |-> d.positions[s].qty * price]
  BY <1>2
<1>4. mark(d, s, price) = [cash |-> d.cash, prices |-> px, positions |-> ps,
                           resting |-> d.resting, tracked |-> d.tracked, session |-> d.session]
  <2>1. [d.positions EXCEPT ![s].value = d.positions[s].qty * price] = ps
    BY <1>1, <1>3
  <2>2. mark(d, s, price)
          = [d EXCEPT !.prices = px,
                      !.positions = [d.positions EXCEPT ![s].value = d.positions[s].qty * price]]
    BY <1>1 DEF mark
  <2> HIDE DEF ps, px
  <2> QED BY <1>1, <2>1, <2>2
<1>5. px \in [Symbols -> Prices \cup {0}]
  BY <1>1
<1>6. d.positions[s].qty * price \in Int
  BY <1>1, MoneyAssumption
<1>7. ps \in [Symbols -> Position]
  BY <1>1, <1>6 DEF Position
<1> HIDE DEF px, ps
<1>8. mark(d, s, price) \in Desk
  BY <1>1, <1>4, <1>5, <1>7 DEF Desk
<1> QED BY <1>4, <1>8 DEF px, ps

\* A new price: what is held is worth qty * price, and if its resting stop
\* fires nothing is held any more and the lot is known to be spent.
LEMMA SetPriceKeeps ==
  ASSUME NEW d \in Desk, NEW s \in Symbols, NEW price \in Nat, price \in Prices, Squared(d, s)
  PROVE  Keeps(d, set_price(d, s, price), s)
<1>0. PICK q \in Nat : q = d.positions[s].qty
  BY DeskFields
<1> DEFINE m == mark(d, s, price)
           e == set_price(d, s, price)
<1>1. /\ d.cash \in Int /\ price \in Nat
      /\ d.prices \in [Symbols -> Prices \cup {0}]
      /\ d.positions \in [Symbols -> Position]
      /\ d.resting \in [Symbols -> SUBSET RestingStop]
      /\ d.tracked \in [Symbols -> Lot \cup {NoLot}]
      /\ d.session \in SessionState
  BY DeskFields, MoneyAssumption
<1>2. /\ m \in Desk
      /\ m = [cash |-> d.cash, prices |-> [d.prices EXCEPT ![s] = price],
              positions |-> [d.positions EXCEPT ![s] = [qty |-> q, value |-> q * price]],
              resting |-> d.resting, tracked |-> d.tracked, session |-> d.session]
  BY <1>0, MarkFields
<1>3. e = trigger_resting(m, s, price)
  BY DEF set_price
<1> HIDE DEF m, e
<1>4. /\ m.cash = d.cash /\ m.session = d.session
      /\ m.prices = [d.prices EXCEPT ![s] = price]
      /\ m.positions = [d.positions EXCEPT ![s] = [qty |-> q, value |-> q * price]]
      /\ m.positions[s] = [qty |-> q, value |-> q * price]
      /\ m.resting = d.resting /\ m.tracked = d.tracked
      /\ Elsewhere(d, m, s)
  BY <1>1, <1>2 DEF Elsewhere
<1>5. CASE e = [m EXCEPT !.resting[s] = d.resting[s]]
  <2>1. [d.resting EXCEPT ![s] = d.resting[s]] = d.resting
    BY <1>1
  <2>2. e = m
    BY <1>2, <1>5, <2>1
  <2>3. Squared(m, s)
    <3>1. m.prices[s] = price /\ m.positions[s].qty = q /\ m.positions[s].value = q * price
      BY <1>1, <1>4
    <3> QED BY <1>0, <3>1, <1>4 DEF Squared, Flat, Long
  <2>4. m.positions[s].qty <= d.positions[s].qty
    BY <1>0, <1>4
  <2>5. SameDay(d, m) /\ (Solvent(d) => Solvent(m))
    BY <1>4 DEF SameDay, Solvent
  <2>6. Keeps(d, m, s)
    BY <1>2, <1>4, <2>3, <2>4, <2>5 DEF Keeps
  <2> QED BY <2>2, <2>6 DEF e
<1>6. CASE Flat(d, s)
  <2>1. d.resting[s] = {}
    BY <1>6 DEF Flat
  <2>2. e = [m EXCEPT !.resting[s] = {}]
    <3>1. m.resting[s] = {}
      BY <1>4, <2>1
    <3> QED BY <1>1, <1>2, <1>3, <3>1, TriggerNone
  <2> QED BY <1>5, <2>1, <2>2
<1>7. CASE Long(d, s)
  <2>1. PICK px \in Nat :
          d.resting[s] = {[nr |-> 1, qty |-> q, stop_px |-> px, own |-> TRUE]}
    BY <1>0, <1>7 DEF Long
  <2> DEFINE o == [nr |-> 1, qty |-> q, stop_px |-> px, own |-> TRUE]
  <2>2. /\ o \in RestingStop /\ o.nr = 1 /\ o.qty = q /\ o.own = TRUE /\ o.stop_px = px
        /\ m.resting[s] = {o} /\ d.resting[s] = {o}
    BY <1>1, <1>4, <2>1 DEF RestingStop
  <2> HIDE DEF o
  <2>3. e = IF price <= px THEN [fire(m, s, o, price) EXCEPT !.resting[s] = {}]
            ELSE [m EXCEPT !.resting[s] = {o}]
    <3>1. o \in RestingStop /\ m \in Desk /\ m.resting[s] = {o} /\ o.nr = 1
      BY <1>2, <2>2
    <3> HIDE DEF m
    <3>2. trigger_resting(m, s, price)
            = IF price <= o.stop_px THEN [fire(m, s, o, price) EXCEPT !.resting[s] = {}]
              ELSE [m EXCEPT !.resting[s] = {o}]
      BY <3>1, TriggerOne
    <3> QED BY <1>3, <2>2, <3>2
  <2>4. CASE ~(price <= px)
    BY <1>5, <2>2, <2>3, <2>4
  <2>5. CASE price <= px
    <3> DEFINE c == d.cash + proceeds(price, q)
               ps == [m.positions EXCEPT ![s] = NoPosition]
               rs == [d.resting EXCEPT ![s] = {}]
               lot == Spent(d.tracked[s])
               tr == [d.tracked EXCEPT ![s] = lot]
    <3>1. holds(m, s) /\ m.positions[s].qty = q /\ q > 0
      BY <1>0, <1>4, <1>7 DEF holds, Long
    <3>2. fill_sell(m, s, q, price) = [m EXCEPT !.cash = c, !.positions = ps]
      <4>1. m \in Desk /\ m.positions[s].qty = q /\ m.cash = d.cash
        BY <1>2, <1>4, <3>1
      <4>4. fill_sell(m, s, q, price) = Emptied(m, s, c)
        BY <4>1, SellsAll
      <4> QED BY <4>4 DEF Emptied
    <3>3. fire(m, s, o, price) = [fill_sell(m, s, q, price) EXCEPT !.tracked[s] = Spent(@)]
      BY <2>2, <3>1 DEF fire
    <3> HIDE DEF ps, c, lot
    <3>4. fill_sell(m, s, q, price)
            = [cash |-> c, prices |-> m.prices, positions |-> ps, resting |-> d.resting,
               tracked |-> d.tracked, session |-> d.session]
      BY <1>2, <1>4, <3>2
    <3>5. e = [cash |-> c, prices |-> m.prices, positions |-> ps, resting |-> rs,
               tracked |-> tr, session |-> d.session]
      <4>1. fire(m, s, o, price)
              = [cash |-> c, prices |-> m.prices, positions |-> ps, resting |-> d.resting,
                 tracked |-> tr, session |-> d.session]
        BY <3>3, <3>4 DEF lot
      <4>2. e = [fire(m, s, o, price) EXCEPT !.resting[s] = {}]
        BY <2>3, <2>5
      <4> HIDE DEF tr
      <4> QED BY <4>1, <4>2
    <3>6. lot \in Lot /\ lot.own = "spent"
      <4>1. d.tracked[s] \in Lot
        BY <1>1, <1>7 DEF Long
      <4> QED BY <4>1, <1>7 DEF Spent, Lot, Long, lot
    <3>7. c \in Int /\ (Solvent(d) => (FeeBps <= 10000 => c >= 0))
      <4>1. proceeds(price, q) \in Int /\ (FeeBps <= 10000 => proceeds(price, q) >= 0)
        BY ProceedsType
      <4> QED BY <1>1, <4>1 DEF Solvent, c
    <3>8. /\ ps \in [Symbols -> Position] /\ ps[s] = NoPosition
          /\ \A t \in Symbols \ {s} : ps[t] = d.positions[t]
      <4>1. NoPosition \in Position
        BY DEF NoPosition, Position
      <4>2. m.positions \in [Symbols -> Position]
        BY <1>2 DEF Desk
      <4>3. \A t \in Symbols \ {s} : m.positions[t] = d.positions[t]
        BY <1>4 DEF Elsewhere
      <4> QED BY <4>1, <4>2, <4>3 DEF ps
    <3>9. /\ rs \in [Symbols -> SUBSET RestingStop] /\ rs[s] = {}
          /\ tr \in [Symbols -> Lot \cup {NoLot}] /\ tr[s] = lot
          /\ \A t \in Symbols \ {s} : rs[t] = d.resting[t] /\ tr[t] = d.tracked[t]
      BY <1>1, <3>6
    <3> HIDE DEF rs, tr
    <3>10. m.prices \in [Symbols -> Prices \cup {0}] /\ m.prices[s] = price
           /\ \A t \in Symbols \ {s} : m.prices[t] = d.prices[t]
      BY <1>1, <1>4
    <3>11. e \in Desk
      BY <1>1, <3>5, <3>7, <3>8, <3>9, <3>10 DEF Desk
    <3>12. /\ e.cash = c /\ e.prices = m.prices /\ e.positions = ps /\ e.resting = rs
           /\ e.tracked = tr /\ e.session = d.session
      BY <3>5
    <3>13. Elsewhere(d, e, s)
      BY <3>8, <3>9, <3>10, <3>12 DEF Elsewhere
    <3>14. e.positions[s].qty = 0 /\ e.positions[s].value = 0
      BY <3>8, <3>12 DEF NoPosition
    <3>15. 0 * e.prices[s] = 0
      BY <1>1, <3>10, <3>12
    <3>16. Squared(e, s)
      BY <3>6, <3>9, <3>12, <3>14, <3>15 DEF Squared, Flat
    <3>17. e.positions[s].qty <= d.positions[s].qty
      BY <1>0, <3>14
    <3>18. SameDay(d, e) /\ (Solvent(d) => Solvent(e))
      BY <3>7, <3>12 DEF SameDay, Solvent
    <3>19. Keeps(d, e, s)
      BY <3>11, <3>13, <3>16, <3>17, <3>18 DEF Keeps
    <3> QED BY <3>19 DEF e
  <2> QED BY <2>4, <2>5
<1> QED BY <1>6, <1>7 DEF Squared


-----------------------------------------------------------------------------
(* StopManager                                                             *)

LEMMA CooldownKeepsDay ==
  ASSUME NEW state \in SessionState, NEW s \in Symbols, NEW reason
  PROVE  /\ start_cooldown(state, s, reason) \in SessionState
         /\ start_cooldown(state, s, reason).day_peak_equity = state.day_peak_equity
         /\ start_cooldown(state, s, reason).halted = state.halted
<1>1. cooldown_bars(reason) \in Nat
  BY LimitsAssumption DEF cooldown_bars
<1> DEFINE until == state.bar_index + cooldown_bars(reason)
<1>2. until \in Nat
  BY <1>1 DEF SessionState
<1>3. start_cooldown(state, s, reason) = [state EXCEPT !.cooldown_until[s] = until]
  BY DEF start_cooldown
<1> HIDE DEF until
<1> QED BY <1>2, <1>3 DEF SessionState

\* A close of a tracked lot sells all that is held and forgets it, or, if the
\* resting stop was found spent, leaves everything as it is.
LEMMA CloseKeeps ==
  ASSUME NEW d \in Desk, NEW s \in Symbols, NEW reason, d.tracked[s] # NoLot, Squared(d, s)
  PROVE  Keeps(d, close(d, s, reason), s)
<1>0. PICK q \in Nat : q = d.positions[s].qty
  BY DeskFields
<1>1. PICK price \in Nat : price = d.prices[s]
  BY DeskFields
<1>2. /\ d.cash \in Int
      /\ d.prices \in [Symbols -> Prices \cup {0}]
      /\ d.positions \in [Symbols -> Position]
      /\ d.resting \in [Symbols -> SUBSET RestingStop]
      /\ d.tracked \in [Symbols -> Lot \cup {NoLot}]
      /\ d.session \in SessionState
      /\ d = [cash |-> d.cash, prices |-> d.prices, positions |-> d.positions,
              resting |-> d.resting, tracked |-> d.tracked, session |-> d.session]
  BY DeskFields
<1>3. CASE d.tracked[s].own = "spent"
  <2>1. close(d, s, reason) = d
    BY <1>3 DEF close
  <2>2. Elsewhere(d, d, s) /\ SameDay(d, d) /\ (Solvent(d) => Solvent(d))
    BY DEF Elsewhere, SameDay
  <2>3. d.positions[s].qty <= d.positions[s].qty
    BY <1>0
  <2>4. Keeps(d, d, s)
    BY <2>2, <2>3 DEF Keeps
  <2> QED BY <2>1, <2>4
<1>4. CASE d.tracked[s].own # "spent"
  <2>1. Long(d, s)
    BY <1>4 DEF Squared, Flat
  <2>2. d.tracked[s].qty = q /\ q > 0
    BY <1>0, <2>1 DEF Long
  <2> DEFINE rs == [d.resting EXCEPT ![s] = {}]
             u == [d EXCEPT !.resting[s] = {o \in @ : ~o.own}]
             c == d.cash + proceeds(price, q)
             ps == [d.positions EXCEPT ![s] = NoPosition]
             tr == [d.tracked EXCEPT ![s] = NoLot]
             ss == start_cooldown(d.session, s, reason)
             e == close(d, s, reason)
  <2>3. {o \in d.resting[s] : ~o.own} = {}
    BY <2>1 DEF Long
  <2>4. u = [cash |-> d.cash, prices |-> d.prices, positions |-> d.positions,
             resting |-> rs, tracked |-> d.tracked, session |-> d.session]
    <3> DEFINE own == {o \in d.resting[s] : ~o.own}
    <3>1. u = [d EXCEPT !.resting[s] = own]
      OBVIOUS
    <3> HIDE DEF own, u
    <3>2. u = [d EXCEPT !.resting = [d.resting EXCEPT ![s] = own]]
      BY <3>1
    <3>3. u = [d EXCEPT !.resting = rs]
      BY <2>3, <3>2 DEF own
    <3> HIDE DEF rs
    <3> QED BY <1>2, <3>3
  <2>5. rs \in [Symbols -> SUBSET RestingStop] /\ rs[s] = {}
        /\ \A t \in Symbols \ {s} : rs[t] = d.resting[t]
    BY <1>2
  <2> HIDE DEF rs
  <2>6. u \in Desk /\ u.cash = d.cash /\ u.positions = d.positions
    BY <1>2, <2>4, <2>5 DEF Desk
  <2>7. holds(d, s)
    BY <2>1 DEF holds, Long
  <2>8. e = [fill_sell(u, s, q, price) EXCEPT !.tracked[s] = NoLot, !.session = ss]
    BY <1>1, <1>4, <2>2, <2>7 DEF close
  <2> HIDE DEF u, c, ss, e
  <2>9. fill_sell(u, s, q, price) = Emptied(u, s, c)
    <3>1. u \in Desk /\ u.positions[s].qty = q /\ c = u.cash + proceeds(price, q)
      BY <1>0, <2>6 DEF c
    <3> QED BY <3>1, SellsAll
  <2>10. fill_sell(u, s, q, price)
           = [cash |-> c, prices |-> d.prices, positions |-> ps, resting |-> rs,
              tracked |-> d.tracked, session |-> d.session]
    <3>1. Emptied(u, s, c) = [u EXCEPT !.cash = c, !.positions = ps]
      BY <2>6 DEF Emptied
    <3> HIDE DEF ps
    <3> QED BY <2>4, <2>9, <3>1
  <2>11. e = [cash |-> c, prices |-> d.prices, positions |-> ps, resting |-> rs,
              tracked |-> tr, session |-> ss]
    <3> DEFINE f == fill_sell(u, s, q, price)
    <3>1. e = [f EXCEPT !.tracked[s] = NoLot, !.session = ss]
      BY <2>8
    <3>2. f.tracked = d.tracked
      BY <2>10
    <3> HIDE DEF f
    <3>3. e = [f EXCEPT !.tracked = tr, !.session = ss]
      BY <3>1, <3>2
    <3> HIDE DEF tr, ps
    <3>4. f = [cash |-> c, prices |-> d.prices, positions |-> ps, resting |-> rs,
               tracked |-> d.tracked, session |-> d.session]
      BY <2>10 DEF f
    <3> QED BY <3>3, <3>4
  <2>12. c \in Int /\ (Solvent(d) => (FeeBps <= 10000 => c >= 0))
    <3>1. proceeds(price, q) \in Int /\ (FeeBps <= 10000 => proceeds(price, q) >= 0)
      BY ProceedsType
    <3> QED BY <1>2, <3>1 DEF Solvent, c
  <2>13. /\ ps \in [Symbols -> Position] /\ ps[s] = NoPosition
         /\ \A t \in Symbols \ {s} : ps[t] = d.positions[t]
    BY <1>2 DEF NoPosition, Position
  <2>14. /\ tr \in [Symbols -> Lot \cup {NoLot}] /\ tr[s] = NoLot
         /\ \A t \in Symbols \ {s} : tr[t] = d.tracked[t]
    BY <1>2
  <2>15. /\ ss \in SessionState /\ ss.day_peak_equity = d.session.day_peak_equity
         /\ ss.halted = d.session.halted
    BY <1>2, CooldownKeepsDay DEF ss
  <2> HIDE DEF ps, tr
  <2>16. e \in Desk
    BY <1>2, <2>5, <2>11, <2>12, <2>13, <2>14, <2>15 DEF Desk
  <2>17. /\ e.cash = c /\ e.prices = d.prices /\ e.positions = ps /\ e.resting = rs
         /\ e.tracked = tr /\ e.session = ss
    BY <2>11
  <2>18. Elsewhere(d, e, s)
    BY <2>5, <2>13, <2>14, <2>17 DEF Elsewhere
  <2>19. e.positions[s].qty = 0 /\ e.positions[s].value = 0
    BY <2>13, <2>17 DEF NoPosition
  <2>20. 0 * e.prices[s] = 0
    BY <1>1, <2>17
  <2>21. Squared(e, s)
    BY <2>5, <2>14, <2>17, <2>19, <2>20 DEF Squared, Flat
  <2>22. SameDay(d, e) /\ (Solvent(d) => Solvent(e))
    BY <2>12, <2>15, <2>17 DEF SameDay, Solvent
  <2>23. e.positions[s].qty <= d.positions[s].qty
    BY <1>0, <2>19
  <2>24. Keeps(d, e, s)
    BY <2>16, <2>18, <2>21, <2>22, <2>23 DEF Keeps
  <2> QED BY <2>24 DEF e
<1> QED BY <1>3, <1>4

LEMMA OnPriceKeeps ==
  ASSUME NEW d \in Desk, NEW s \in Symbols, NEW price, Squared(d, s)
  PROVE  Keeps(d, on_price(d, s, price), s)
<1>1. CASE on_price(d, s, price) = d
  <2>1. Elsewhere(d, d, s) /\ SameDay(d, d)
    BY DEF Elsewhere, SameDay
  <2>2. d.positions[s].qty <= d.positions[s].qty
    BY DeskFields
  <2> QED BY <1>1, <2>1, <2>2 DEF Keeps
<1>2. CASE on_price(d, s, price) # d
  <2>1. d.tracked[s] # NoLot
    BY <1>2 DEF on_price
  <2>2. \E reason : on_price(d, s, price) = close(d, s, reason)
    BY <1>2 DEF on_price
  <2> QED BY <2>1, <2>2, CloseKeeps
<1> QED BY <1>1, <1>2


-----------------------------------------------------------------------------
(* A purchase                                                              *)

\* The position that a purchase makes.
NewPosition(d, s, qty) == [qty |-> qty, value |-> qty * d.prices[s]]

\* A purchase of what is not held: its position, its lot and its stop agree,
\* and it is paid for.
LEMMA EntryKeeps ==
  ASSUME NEW d \in Desk, NEW s \in Symbols, NEW qty \in Nat \ {0}, NEW stop \in Nat, NEW take \in Nat,
         Flat(d, s), can_buy(d, s, qty)
  PROVE  LET e == protect(fill_buy(d, s, qty), s, qty, stop, take)
         IN /\ e \in Desk /\ Squared(e, s) /\ Elsewhere(d, e, s) /\ e.session = d.session
            /\ e.cash >= 0 /\ e.prices = d.prices
            /\ e.positions = [d.positions EXCEPT ![s] = NewPosition(d, s, qty)]
<1>1. PICK price \in Nat : price = d.prices[s]
  BY DeskFields
<1>2. /\ d.cash \in Int
      /\ d.prices \in [Symbols -> Prices \cup {0}]
      /\ d.positions \in [Symbols -> Position]
      /\ d.resting \in [Symbols -> SUBSET RestingStop]
      /\ d.tracked \in [Symbols -> Lot \cup {NoLot}]
      /\ d.session \in SessionState
      /\ d = [cash |-> d.cash, prices |-> d.prices, positions |-> d.positions,
              resting |-> d.resting, tracked |-> d.tracked, session |-> d.session]
  BY DeskFields
<1> DEFINE g == fill_buy(d, s, qty)
           e == protect(g, s, qty, stop, take)
           c == d.cash - cost(d, s, qty)
           ps == [d.positions EXCEPT ![s] = NewPosition(d, s, qty)]
           o == [nr |-> 1, qty |-> qty, stop_px |-> stop, own |-> TRUE]
           rs == [d.resting EXCEPT ![s] = {o}]
           lot == [qty |-> qty, stop_px |-> stop, take_px |-> take, own |-> "live"]
           tr == [d.tracked EXCEPT ![s] = lot]
<1>3. c \in Int /\ c >= 0
  <2>4. cost(d, s, qty) \in Nat
    BY <1>1, CostType
  <2>5. cost(d, s, qty) <= d.cash
    BY DEF can_buy
  <2> QED BY <1>2, <2>4, <2>5
<1>4. g = [cash |-> c, prices |-> d.prices, positions |-> ps, resting |-> d.resting,
           tracked |-> d.tracked, session |-> d.session]
  <2>1. ~(d.positions[s].qty > 0)
    BY DEF Flat
  <2>2. g = [d EXCEPT !.cash = c, !.positions[s] = NewPosition(d, s, qty)]
    BY <2>1 DEF fill_buy, NewPosition
  <2> HIDE DEF g, c
  <2>3. g = [d EXCEPT !.cash = c, !.positions = ps]
    BY <2>2
  <2> HIDE DEF ps
  <2> QED BY <1>2, <2>3
<1>5. e = [cash |-> c, prices |-> d.prices, positions |-> ps, resting |-> rs,
           tracked |-> tr, session |-> d.session]
  <2> HIDE DEF c, ps, g
  <2>1. g.resting = d.resting /\ g.tracked = d.tracked /\ d.resting[s] = {}
    BY <1>4 DEF Flat
  <2>2. {[x EXCEPT !.own = FALSE] : x \in d.resting[s]} = {} /\ last_nr(d.resting[s]) + 1 = 1
    BY <2>1 DEF last_nr
  <2> DEFINE old == {[x EXCEPT !.own = FALSE] : x \in d.resting[s]}
             nr == last_nr(d.resting[s]) + 1
             new == old \cup {[nr |-> nr, qty |-> qty, stop_px |-> stop, own |-> TRUE]}
  <2>3. new = {o}
    <3>1. old = {} /\ nr = 1
      BY <2>2
    <3> HIDE DEF old, nr
    <3> QED BY <3>1
  <2>4. e = [g EXCEPT !.tracked[s] = lot, !.resting[s] = new]
    BY <2>1 DEF protect
  <2> HIDE DEF e, new, lot, o
  <2>5. e = [g EXCEPT !.tracked = tr, !.resting = rs]
    BY <2>1, <2>3, <2>4
  <2> HIDE DEF rs, tr
  <2> QED BY <1>4, <2>5
<1>6. o \in RestingStop /\ lot \in Lot /\ lot.own = "live" /\ lot.qty = qty /\ lot # NoLot
  BY NoLotAssumption DEF RestingStop, Lot
<1>7. /\ NewPosition(d, s, qty) \in Position
      /\ NewPosition(d, s, qty).qty = qty
      /\ NewPosition(d, s, qty).value = qty * price
  <2>1. qty * price \in Int
    OBVIOUS
  <2> QED BY <1>1, <2>1 DEF NewPosition, Position
<1> HIDE DEF lot
<1>8. /\ ps \in [Symbols -> Position] /\ ps[s] = NewPosition(d, s, qty)
      /\ \A t \in Symbols \ {s} : ps[t] = d.positions[t]
  BY <1>2, <1>7
<1>9. /\ rs \in [Symbols -> SUBSET RestingStop] /\ rs[s] = {o}
      /\ tr \in [Symbols -> Lot \cup {NoLot}] /\ tr[s] = lot
      /\ \A t \in Symbols \ {s} : rs[t] = d.resting[t] /\ tr[t] = d.tracked[t]
  <2> HIDE DEF o
  <2> QED BY <1>2, <1>6
<1> HIDE DEF c, rs, tr, e
<1>10. /\ e.cash = c /\ e.prices = d.prices /\ e.positions = ps /\ e.resting = rs
       /\ e.tracked = tr /\ e.session = d.session
  BY <1>5
<1>11. e \in Desk
  <2> HIDE DEF ps
  <2> QED BY <1>2, <1>3, <1>5, <1>8, <1>9 DEF Desk
<1>12. Elsewhere(d, e, s)
  <2> HIDE DEF ps
  <2> QED BY <1>8, <1>9, <1>10 DEF Elsewhere
<1>13. /\ e.positions[s].qty = qty /\ e.positions[s].value = qty * price
       /\ e.prices[s] = price /\ e.resting[s] = {o} /\ e.tracked[s] = lot
  <2> HIDE DEF ps, o
  <2> QED BY <1>1, <1>7, <1>8, <1>9, <1>10
<1>14. Squared(e, s)
  <2>1. Long(e, s)
    <3>1. e.positions[s].qty > 0 /\ e.tracked[s] # NoLot /\ e.tracked[s].own = "live"
          /\ e.tracked[s].qty = e.positions[s].qty
      BY <1>6, <1>13
    <3>2. e.resting[s] = {[nr |-> 1, qty |-> e.positions[s].qty, stop_px |-> stop, own |-> TRUE]}
      BY <1>13
    <3> QED BY <3>1, <3>2 DEF Long
  <2>2. e.positions[s].value = e.positions[s].qty * e.prices[s]
    BY <1>13
  <2> QED BY <2>1, <2>2 DEF Squared
<1>15. e.session = d.session /\ e.cash >= 0 /\ e.prices = d.prices
  BY <1>3, <1>10
<1>16. e.positions = [d.positions EXCEPT ![s] = NewPosition(d, s, qty)]
  BY <1>10
<1> QED BY <1>11, <1>12, <1>14, <1>15, <1>16 DEF e

-----------------------------------------------------------------------------
(* What the account is worth                                               *)

\* While the books of every symbol agree, the equity that the broker reports
\* is what the account holds at the last prices.
LEMMA EquityIsWorth ==
  ASSUME NEW d, \A s \in Symbols : Squared(d, s)
  PROVE  get_portfolio(d).equity = worth(d)
<1> DEFINE f == [s \in Symbols |-> d.positions[s].value]
           g == [s \in Symbols |-> d.positions[s].qty * d.prices[s]]
<1>1. f = g
  BY DEF Squared
<1>2. get_portfolio(d).equity = d.cash + total(f) /\ worth(d) = d.cash + total(g)
  BY DEF get_portfolio, worth
<1> HIDE DEF f, g
<1> QED BY <1>1, <1>2

LEMMA PortfolioType ==
  ASSUME NEW d \in Desk
  PROVE  /\ get_portfolio(d) \in PortfolioState
         /\ get_portfolio(d).cash = d.cash
         /\ get_portfolio(d).positions = d.positions
<1> DEFINE f == [s \in Symbols |-> d.positions[s].value]
<1>1. f \in [Symbols -> Int]
  BY DEF Desk, Position
<1>2. get_portfolio(d) = [equity |-> d.cash + total(f), cash |-> d.cash, positions |-> d.positions]
  BY DEF get_portfolio
<1> HIDE DEF f
<1>3. total(f) \in Int
  BY <1>1, TotalType
<1>4. d.cash + total(f) \in Int /\ d.cash \in Int /\ d.positions \in [Symbols -> Position]
  BY <1>3 DEF Desk
<1> QED BY <1>2, <1>4 DEF PortfolioState

LEMMA WorthType ==
  ASSUME NEW d \in Desk
  PROVE  worth(d) \in Int
<1> DEFINE f == [s \in Symbols |-> d.positions[s].qty * d.prices[s]]
<1>1. ASSUME NEW s \in Symbols PROVE d.positions[s].qty * d.prices[s] \in Int
  <2>1. PICK a \in Nat : a = d.positions[s].qty
    BY DeskFields
  <2>2. PICK b \in Nat : b = d.prices[s]
    BY DeskFields
  <2>3. a * b \in Int
    OBVIOUS
  <2> QED BY <2>1, <2>2, <2>3
<1>2. f \in [Symbols -> Int]
  BY <1>1
<1>3. worth(d) = d.cash + total(f)
  BY DEF worth
<1> HIDE DEF f
<1>4. total(f) \in Int
  BY <1>2, TotalType
<1> QED BY <1>3, <1>4, DeskFields DEF Desk


\* A purchase adds what it paid for to the exposure, and one open position.
LEMMA PurchaseCounts ==
  ASSUME NEW d \in Desk, NEW e, NEW s \in Symbols, NEW qty \in Nat \ {0}, Flat(d, s), Squared(d, s),
         e.positions = [d.positions EXCEPT ![s] = NewPosition(d, s, qty)]
  PROVE  /\ gross_exposure(e) = gross_exposure(d) + qty * d.prices[s]
         /\ open_count(e) = open_count(d) + 1
<1>0. PICK price \in Nat : price = d.prices[s]
  BY DeskFields
<1>1. d.positions \in [Symbols -> Position]
  BY DeskFields
<1> DEFINE paid == qty * price
           f == [t \in Symbols |-> magnitude(d.positions[t].value)]
           g == [t \in Symbols |-> magnitude(e.positions[t].value)]
           held == {t \in Symbols : holds(d, t)}
<1>2. paid \in Nat
  OBVIOUS
<1> HIDE DEF paid
<1>3. e.positions[s] = [qty |-> qty, value |-> paid]
  BY <1>0, <1>1 DEF NewPosition, paid
<1>4. \A t \in Symbols \ {s} : e.positions[t] = d.positions[t]
  BY <1>1
<1>5. d.positions[s].qty = 0 /\ d.positions[s].value = 0
  <2>1. d.positions[s].qty = 0 /\ d.positions[s].value = d.positions[s].qty * price
    BY <1>0 DEF Flat, Squared
  <2> QED BY <2>1
<1>6. f \in [Symbols -> Int]
  BY <1>1 DEF Position, magnitude
<1>7. f[s] = 0
  BY <1>5 DEF magnitude
<1>8. g \in [Symbols -> Int] /\ g[s] = paid /\ \A t \in Symbols \ {s} : g[t] = f[t]
  <2>1. g[s] = paid
    BY <1>2, <1>3 DEF magnitude
  <2>2. \A t \in Symbols \ {s} : g[t] = f[t]
    BY <1>4
  <2>3. \A t \in Symbols : g[t] \in Int
    <3>1. \A t \in Symbols : f[t] \in Int
      BY <1>6
    <3> HIDE DEF f, g
    <3> SUFFICES ASSUME NEW t \in Symbols PROVE g[t] \in Int
      OBVIOUS
    <3>2. CASE t = s
      BY <1>2, <2>1, <3>2
    <3>3. CASE t # s
      BY <2>2, <3>1, <3>3
    <3> QED BY <3>2, <3>3
  <2> QED BY <2>1, <2>2, <2>3
<1>9. gross_exposure(d) = total(f) /\ gross_exposure(e) = total(g)
  BY DEF gross_exposure
<1>10. gross_exposure(e) = gross_exposure(d) + paid
  <2> HIDE DEF f, g
  <2>1. total(g) = total(f) + (g[s] - f[s])
    BY <1>6, <1>8, TotalMoves
  <2>2. total(f) \in Int
    BY <1>6, TotalType
  <2> QED BY <1>2, <1>7, <1>8, <1>9, <2>1, <2>2
<1>11. open_count(e) = open_count(d) + 1
  <2>1. {t \in Symbols : holds(e, t)} = held \cup {s}
    BY <1>3, <1>4 DEF holds
  <2>2. s \notin held
    BY <1>5 DEF holds
  <2>3. IsFiniteSet(held)
    BY SymbolsAssumption, FS_Subset
  <2>4. open_count(e) = Cardinality(held \cup {s}) /\ open_count(d) = Cardinality(held)
    BY <2>1 DEF open_count
  <2> HIDE DEF held
  <2>5. Cardinality(held \cup {s}) = Cardinality(held) + 1
    BY <2>2, <2>3, FS_AddElement
  <2> QED BY <2>4, <2>5
<1> QED BY <1>0, <1>10, <1>11 DEF paid

-----------------------------------------------------------------------------
(* The steps of a bar                                                      *)

\* What CapsRespected says of a step.
Capped(d, e) ==
  \A s \in Symbols : e.positions[s].qty > d.positions[s].qty =>
    /\ 100 * e.positions[s].qty * d.prices[s] <= MaxPositionPct * worth(d)
    /\ 100 * gross_exposure(e) <= MaxExposurePct * worth(d)
    /\ open_count(e) <= MaxOpenPositions

\* A step of the desk about symbol s that keeps what AccountInv says of it.
Good(d, e, s) ==
  /\ e \in Desk /\ Squared(e, s) /\ Elsewhere(d, e, s) /\ SameDay(d, e)
  /\ Solvent(d) => Solvent(e)
  /\ Capped(d, e)

LEMMA KeepsIsGood ==
  ASSUME NEW d \in Desk, NEW e, NEW s \in Symbols, Keeps(d, e, s)
  PROVE  Good(d, e, s)
<1>1. ASSUME NEW t \in Symbols PROVE ~(e.positions[t].qty > d.positions[t].qty)
  <2>1. PICK a \in Nat : a = d.positions[t].qty
    BY DeskFields
  <2>2. PICK b \in Nat : b = e.positions[t].qty
    BY DeskFields DEF Keeps
  <2>3. CASE t = s
    <3>1. b <= a
      BY <2>1, <2>2, <2>3 DEF Keeps
    <3> QED BY <2>1, <2>2, <3>1
  <2>4. CASE t # s
    <3>1. a = b
      BY <2>1, <2>2, <2>4 DEF Keeps, Elsewhere
    <3> QED BY <2>1, <2>2, <3>1
  <2> QED BY <2>3, <2>4
<1> QED BY <1>1 DEF Good, Keeps, Capped

\* An approved purchase of what is not held: the caps that evaluate() read
\* from the book are those of what the account is worth when it is filled.
LEMMA PurchaseIsGood ==
  ASSUME NEW d \in Desk, \A t \in Symbols : Squared(d, t),
         NEW s \in Symbols, NEW m \in Multipliers, NEW atr \in HalfAtrs, ~holds(d, s),
         NEW p, p = Proposed(s, "BUY", m),
         NEW f, f = [finite |-> TRUE, close |-> d.prices[s], half_atr |-> atr],
         NEW portfolio, portfolio = get_portfolio(d), NEW qty, qty = entry_qty(p, f, portfolio, Asset),
         approved(p, f, portfolio, Asset, "LOW", d.session), can_buy(d, s, qty)
  PROVE  Good(d, protect(fill_buy(d, s, qty), s, qty, stop_px(p, f), take_px(p, f)), s)
<1>0. PICK price \in Nat : price = d.prices[s]
  BY DeskFields
<1>1. p \in TradeProposal /\ p.symbol = s /\ p.action = "BUY"
  BY MoneyAssumption, RiskLimitsAssumption DEF Proposed, TradeProposal, Action, Percent
<1>2. f \in FeatureBundle /\ f.close = price
  BY <1>0, MoneyAssumption DEF FeatureBundle
<1>3. /\ portfolio \in PortfolioState /\ portfolio.cash = d.cash
      /\ portfolio.positions = d.positions /\ portfolio.equity = worth(d)
  BY PortfolioType, EquityIsWorth
<1>4. Asset \in AssetSpec
  BY MoneyAssumption
<1>5. approved_qty(p, f, portfolio, Asset) = qty
  BY <1>1 DEF approved_qty
<1>6. /\ qty \in Nat \ {0}
      /\ 100 * (portfolio.positions[s].value + qty * price) <= MaxPositionPct * portfolio.equity
      /\ 100 * (gross_exposure(portfolio) + qty * price) <= MaxExposurePct * portfolio.equity
  <2> QED BY <1>1, <1>2, <1>3, <1>4, <1>5, EntryWithinCaps
<1>7. stop_px(p, f) \in Nat
  <2>1. stop_px(p, f) \in 1..(f.close - 1)
    BY <1>1, <1>2, <1>3, <1>4, StopLossWithinBudget
  <2> QED BY <1>2, <2>1
<1>8. take_px(p, f) \in Nat
  <2>1. inputs_valid(f, portfolio)
    BY DEF approved, gates_pass
  <2>2. PICK x \in Nat : x = stop_distance(p, f)
    BY <1>1, <1>2, <1>3, <2>1, SizingTypes
  <2>3. KTake * x \in Nat /\ KStop \in Nat \ {0}
    BY RiskLimitsAssumption
  <2>4. (KTake * x) \div KStop \in Nat
    <3> DEFINE y == KTake * x
    <3>1. y \in Nat
      BY <2>3
    <3> HIDE DEF y
    <3>2. y \div KStop \in Nat
      BY <3>1, <2>3
    <3> QED BY <3>2 DEF y
  <2>5. take_px(p, f) = price + (KTake * x) \div KStop
    BY <1>2, <2>2 DEF take_px
  <2> QED BY <2>4, <2>5
<1>9. Flat(d, s)
  <2>1. ~Long(d, s)
    BY DEF Long, holds
  <2> QED BY <2>1 DEF Squared
<1> DEFINE stop == stop_px(p, f)
           take == take_px(p, f)
           e == protect(fill_buy(d, s, qty), s, qty, stop, take)
<1> HIDE DEF stop, take
<1>10. /\ e \in Desk /\ Squared(e, s) /\ Elsewhere(d, e, s) /\ e.session = d.session
       /\ e.cash >= 0 /\ e.prices = d.prices
       /\ e.positions = [d.positions EXCEPT ![s] = NewPosition(d, s, qty)]
  <2>1. stop \in Nat /\ take \in Nat
    BY <1>7, <1>8 DEF stop, take
  <2> QED BY <1>6, <1>9, <2>1, EntryKeeps
<1> HIDE DEF e
<1>11. /\ gross_exposure(e) = gross_exposure(d) + qty * price
       /\ open_count(e) = open_count(d) + 1
  BY <1>0, <1>6, <1>9, <1>10, PurchaseCounts
<1>12. gross_exposure(portfolio) = gross_exposure(d) /\ open_count(portfolio) = open_count(d)
  BY <1>3 DEF gross_exposure, open_count, holds
<1>13. open_count(e) <= MaxOpenPositions
  <2>1. slot_free(p, portfolio)
    BY <1>1 DEF approved, entry_allowed
  <2>2. ~holds(portfolio, s)
    BY <1>3 DEF holds
  <2>3. open_count(d) < MaxOpenPositions
    BY <1>1, <1>12, <2>1, <2>2 DEF slot_free
  <2>4. open_count(d) \in Nat
    BY SymbolsAssumption, FS_Subset, FS_CardinalityType DEF open_count
  <2> QED BY <1>11, <2>3, <2>4, RiskLimitsAssumption
<1>14. Capped(d, e)
  <2>1. ASSUME NEW t \in Symbols, e.positions[t].qty > d.positions[t].qty PROVE t = s
    <3> SUFFICES ASSUME t # s PROVE FALSE
      OBVIOUS
    <3>1. e.positions[t] = d.positions[t]
      BY <1>10 DEF Elsewhere
    <3>2. d.positions[t].qty \in Nat
      BY DeskFields
    <3> QED BY <2>1, <3>1, <3>2
  <2>2. e.positions[s].qty = qty
    BY <1>10, DeskFields DEF NewPosition
  <2>3. portfolio.positions[s].value = 0
    <3>1. d.positions[s].qty = 0 /\ d.positions[s].value = d.positions[s].qty * price
      BY <1>0, <1>9 DEF Flat, Squared
    <3> QED BY <1>3, <3>1
  <2> DEFINE paid == qty * price
  <2>4. paid \in Nat /\ 100 * qty * price = 100 * paid
    BY <1>6
  <2> HIDE DEF paid
  <2>5. 100 * (0 + paid) <= MaxPositionPct * worth(d)
    BY <1>3, <1>6, <2>3 DEF paid
  <2>6. 100 * qty * price <= MaxPositionPct * worth(d)
    BY <2>4, <2>5
  <2>7. 100 * gross_exposure(e) <= MaxExposurePct * worth(d)
    BY <1>3, <1>6, <1>11, <1>12
  <2> QED BY <1>0, <1>13, <2>1, <2>2, <2>6, <2>7 DEF Capped
<1>15. SameDay(d, e) /\ (Solvent(d) => Solvent(e))
  BY <1>10 DEF SameDay, Solvent
<1>16. Good(d, e, s)
  BY <1>10, <1>14, <1>15 DEF Good
<1> QED BY <1>16 DEF e, stop, take


LEMMA GoodKeeps ==
  ASSUME NEW d \in Desk, \A t \in Symbols : Squared(d, t), Solvent(d),
         NEW e, NEW s \in Symbols, Good(d, e, s)
  PROVE  /\ e \in Desk /\ Solvent(e) /\ SameDay(d, e)
         /\ \A t \in Symbols : Squared(e, t)
<1>1. ASSUME NEW t \in Symbols PROVE Squared(e, t)
  <2>1. CASE t = s
    BY <2>1 DEF Good
  <2>2. CASE t # s
    BY <2>2, SquaredElsewhere DEF Good
  <2> QED BY <2>1, <2>2
<1> QED BY <1>1 DEF Good

\* A step that only changes the session.
LEMMA SessionStep ==
  ASSUME NEW d \in Desk, \A t \in Symbols : Squared(d, t), NEW ss \in SessionState,
         NEW e, e = [d EXCEPT !.session = ss]
  PROVE  /\ e \in Desk /\ (Solvent(d) => Solvent(e)) /\ e.session = ss
         /\ \A t \in Symbols : Squared(e, t)
         /\ get_portfolio(e) = get_portfolio(d) /\ Capped(d, e)
<1>1. /\ e.cash = d.cash /\ e.prices = d.prices /\ e.positions = d.positions
      /\ e.resting = d.resting /\ e.tracked = d.tracked /\ e.session = ss /\ e \in Desk
  BY DEF Desk
<1>2. \A t \in Symbols : Squared(e, t)
  <2>1. ASSUME NEW t PROVE (Flat(d, t) <=> Flat(e, t)) /\ (Long(d, t) <=> Long(e, t))
    BY <1>1 DEF Flat, Long
  <2> QED BY <1>1, <2>1 DEF Squared
<1>3. get_portfolio(e) = get_portfolio(d)
  BY <1>1 DEF get_portfolio
<1>4. Capped(d, e)
  <2>1. ASSUME NEW t \in Symbols PROVE ~(e.positions[t].qty > d.positions[t].qty)
    <3>1. PICK a \in Nat : a = d.positions[t].qty
      BY DeskFields
    <3>2. e.positions[t].qty = a
      BY <1>1, <3>1
    <3> QED BY <3>1, <3>2
  <2> QED BY <2>1 DEF Capped
<1> QED BY <1>1, <1>2, <1>3, <1>4 DEF Solvent

\* The invariant of the next state, from what holds of its desk.
LEMMA NextInv ==
  ASSUME NEW e, desk' = e, e \in Desk, \A t \in Symbols : Squared(e, t), Solvent(e),
         e.session.day_peak_equity = truth'.peak, e.session.halted = truth'.reached,
         fresh' \subseteq Symbols, todo' \subseteq Symbols, book' \in PortfolioState,
         pc' \in {"gather", "mark", "tick", "read", "decide", "count"},
         truth' \in [peak: Int, reached: BOOLEAN],
         pc' = "decide" => book' = get_portfolio(e)
  PROVE  AccountInv'
<1>1. TypeOK'
  BY DEF TypeOK
<1>2. (\A s \in Symbols : Squared(desk, s))'
  BY DEF Squared, Flat, Long
<1>3. Solvent(desk)'
  BY DEF Solvent
<1>4. SawTheTruth'
  BY DEF SawTheTruth
<1>5. (pc = "decide" => book = get_portfolio(desk))'
  BY DEF get_portfolio
<1> QED BY <1>1, <1>2, <1>3, <1>4, <1>5 DEF AccountInv

\* Of a purchase or a sale nothing is left to decide: a step about one
\* symbol that leaves the truth alone and does not stand before a decision.
LEMMA GoodNext ==
  ASSUME AccountInv, NEW e, desk' = e, NEW s \in Symbols, Good(desk, e, s),
         pc' \in {"mark", "tick", "count"},
         fresh' \subseteq Symbols, todo' \subseteq Symbols, book' = book, truth' = truth
  PROVE  AccountInv'
<1>1. /\ desk \in Desk /\ Solvent(desk) /\ SawTheTruth /\ book \in PortfolioState
      /\ truth \in [peak: Int, reached: BOOLEAN] /\ \A t \in Symbols : Squared(desk, t)
  BY DEF AccountInv, TypeOK
<1>2. PICK d : d = desk
  OBVIOUS
<1>3. Good(d, e, s) /\ d \in Desk /\ Solvent(d) /\ \A t \in Symbols : Squared(d, t)
  BY <1>1, <1>2
<1>4. e \in Desk /\ Solvent(e) /\ SameDay(d, e) /\ \A t \in Symbols : Squared(e, t)
  BY <1>3, GoodKeeps
<1>5. e.session.day_peak_equity = truth'.peak /\ e.session.halted = truth'.reached
  BY <1>1, <1>2, <1>4 DEF SameDay, SawTheTruth
<1> QED BY <1>1, <1>4, <1>5, NextInv

LEMMA InitAccount ==
  ASSUME Init
  PROVE  AccountInv
<1>1. /\ desk.cash = InitialCash /\ desk.prices = [s \in Symbols |-> 0]
      /\ desk.positions = [s \in Symbols |-> NoPosition]
      /\ desk.resting = [s \in Symbols |-> {}] /\ desk.tracked = [s \in Symbols |-> NoLot]
      /\ desk.session = new_session(InitialCash, 0)
      /\ desk = [cash |-> InitialCash, prices |-> [s \in Symbols |-> 0],
                 positions |-> [s \in Symbols |-> NoPosition],
                 resting |-> [s \in Symbols |-> {}], tracked |-> [s \in Symbols |-> NoLot],
                 session |-> new_session(InitialCash, 0)]
  BY DEF Init
<1>2. InitialCash \in Nat
  BY MoneyAssumption
<1>3. new_session(InitialCash, 0) \in SessionState
  BY <1>2 DEF new_session, SessionState
<1>4. desk \in Desk
  <2>1. NoPosition \in Position
    BY DEF NoPosition, Position
  <2> QED BY <1>1, <1>2, <1>3, <2>1 DEF Desk
<1>5. book \in PortfolioState
  <2>1. PICK d : d = desk
    OBVIOUS
  <2>2. get_portfolio(d) \in PortfolioState
    BY <1>4, <2>1, PortfolioType
  <2> QED BY <2>1, <2>2 DEF Init
<1>6. TypeOK
  BY <1>2, <1>4, <1>5 DEF Init, TypeOK
<1>7. ASSUME NEW s \in Symbols PROVE Squared(desk, s)
  <2>1. /\ desk.prices[s] = 0 /\ desk.positions[s] = NoPosition
        /\ desk.resting[s] = {} /\ desk.tracked[s] = NoLot
    BY <1>1
  <2>2. desk.positions[s].qty = 0 /\ desk.positions[s].value = 0
    BY <2>1 DEF NoPosition
  <2> QED BY <2>1, <2>2 DEF Squared, Flat
<1>8. SawTheTruth
  <2>1. PICK ss : ss = desk.session
    OBVIOUS
  <2>2. ss.day_peak_equity = InitialCash /\ ss.halted = FALSE
    BY <1>1, <2>1 DEF new_session
  <2>3. truth.peak = InitialCash /\ truth.reached = FALSE
    BY DEF Init
  <2> QED BY <2>1, <2>2, <2>3 DEF SawTheTruth
<1>9. Solvent(desk) /\ pc # "decide"
  BY <1>1, <1>2 DEF Solvent, Init
<1> QED BY <1>6, <1>7, <1>8, <1>9 DEF AccountInv

LEMMA MarkStep ==
  ASSUME AccountInv, Mark
  PROVE  \E s \in Symbols : \E e : desk' = e /\ Good(desk, e, s)
<1>1. PICK d : d = desk
  OBVIOUS
<1>2. d \in Desk /\ \A t \in Symbols : Squared(d, t)
  BY <1>1 DEF AccountInv, TypeOK
<1>3. PICK s \in todo, price \in Prices : desk' = set_price(desk, s, price)
  BY DEF Mark
<1>4. s \in Symbols /\ price \in Nat
  BY MoneyAssumption DEF AccountInv, TypeOK
<1>5. PICK e : e = set_price(d, s, price)
  OBVIOUS
<1>6. desk' = e
  BY <1>1, <1>3, <1>5
<1>7. Keeps(d, set_price(d, s, price), s)
  BY <1>2, <1>4, SetPriceKeeps
<1>8. Good(d, e, s)
  BY <1>2, <1>4, <1>5, <1>7, KeepsIsGood
<1> QED BY <1>1, <1>4, <1>6, <1>8

LEMMA TickStep ==
  ASSUME AccountInv, Tick
  PROVE  \E s \in Symbols : \E e : desk' = e /\ Good(desk, e, s)
<1>1. PICK d : d = desk
  OBVIOUS
<1>2. d \in Desk /\ \A t \in Symbols : Squared(d, t)
  BY <1>1 DEF AccountInv, TypeOK
<1>3. PICK s \in todo, trade \in Prices \cup {0} : desk' = on_price(desk, s, trade)
  BY DEF Tick
<1>4. s \in Symbols
  BY DEF AccountInv, TypeOK
<1>5. PICK e : e = on_price(d, s, trade)
  OBVIOUS
<1>6. desk' = e
  BY <1>1, <1>3, <1>5
<1>7. Keeps(d, on_price(d, s, trade), s)
  BY <1>2, <1>4, OnPriceKeeps
<1>8. Good(d, e, s)
  BY <1>2, <1>4, <1>5, <1>7, KeepsIsGood
<1> QED BY <1>1, <1>4, <1>6, <1>8

\* A step that leaves the desk alone is a good one.
LEMMA NothingIsGood ==
  ASSUME NEW d \in Desk, \A t \in Symbols : Squared(d, t), NEW s \in Symbols
  PROVE  Good(d, d, s)
<1>1. ASSUME NEW t \in Symbols PROVE ~(d.positions[t].qty > d.positions[t].qty)
  <2>1. PICK a \in Nat : a = d.positions[t].qty
    BY DeskFields
  <2> QED BY <2>1
<1> QED BY <1>1 DEF Good, Elsewhere, SameDay, Capped

LEMMA BuyStep ==
  ASSUME NoAddOns, AccountInv, Buy
  PROVE  \E s \in Symbols : \E e : desk' = e /\ Good(desk, e, s)
<1>1. PICK d : d = desk
  OBVIOUS
<1>2. d \in Desk /\ (\A t \in Symbols : Squared(d, t)) /\ book = get_portfolio(d)
  BY <1>1 DEF AccountInv, TypeOK, Buy
<1> DEFINE P(s, m) == Proposed(s, "BUY", m)
<1>3. PICK s \in Symbols, atr \in HalfAtrs, m \in Multipliers :
        LET f == [finite |-> TRUE, close |-> desk.prices[s], half_atr |-> atr]
            qty == entry_qty(P(s, m), f, book, Asset)
        IN /\ MayPropose(s)
           /\ approved(P(s, m), f, book, Asset, "LOW", desk.session)
           /\ desk' = IF can_buy(desk, s, qty)
                      THEN protect(fill_buy(desk, s, qty), s, qty, stop_px(P(s, m), f),
                                   take_px(P(s, m), f))
                      ELSE desk
  BY DEF Buy
<1>4. ~holds(d, s)
  BY <1>1, <1>3 DEF MayPropose, NoAddOns
<1>5. PICK p : p = Proposed(s, "BUY", m)
  OBVIOUS
<1>6. PICK f : f = [finite |-> TRUE, close |-> d.prices[s], half_atr |-> atr]
  OBVIOUS
<1>7. PICK portfolio : portfolio = get_portfolio(d)
  OBVIOUS
<1>8. PICK qty : qty = entry_qty(p, f, portfolio, Asset)
  OBVIOUS
<1>9. approved(p, f, portfolio, Asset, "LOW", d.session)
  BY <1>1, <1>2, <1>3, <1>5, <1>6, <1>7
<1>10. CASE can_buy(d, s, qty)
  <2>1. PICK e : e = protect(fill_buy(d, s, qty), s, qty, stop_px(p, f), take_px(p, f))
    OBVIOUS
  <2>2. desk' = e
    BY <1>1, <1>2, <1>3, <1>5, <1>6, <1>7, <1>8, <1>10, <2>1
  <2>3. Good(d, e, s)
    BY <1>2, <1>4, <1>5, <1>6, <1>7, <1>8, <1>9, <1>10, <2>1, PurchaseIsGood
  <2> QED BY <1>1, <2>2, <2>3
<1>11. CASE ~can_buy(d, s, qty)
  <2>1. desk' = d
    BY <1>1, <1>2, <1>3, <1>5, <1>6, <1>7, <1>8, <1>11
  <2>2. Good(d, d, s)
    BY <1>2, NothingIsGood
  <2> QED BY <1>1, <2>1, <2>2
<1> QED BY <1>10, <1>11

LEMMA SellStep ==
  ASSUME AccountInv, Sell
  PROVE  \E s \in Symbols : \E e : desk' = e /\ Good(desk, e, s)
<1>1. PICK d : d = desk
  OBVIOUS
<1>2. d \in Desk /\ (\A t \in Symbols : Squared(d, t)) /\ book = get_portfolio(d)
  BY <1>1 DEF AccountInv, TypeOK, Sell
<1> DEFINE P(s) == Proposed(s, "SELL", 100)
           F(s, atr) == [finite |-> TRUE, close |-> d.prices[s], half_atr |-> atr]
<1>3. PICK s \in fresh, atr \in HalfAtrs :
        /\ approved(P(s), F(s, atr), book, Asset, "LOW", d.session)
        /\ desk' = IF d.tracked[s] # NoLot THEN close(d, s, "agent")
                   ELSE fill_sell(d, s, exit_qty(P(s), book, Asset), d.prices[s])
  BY <1>1 DEF Sell
<1>4. s \in Symbols
  BY DEF AccountInv, TypeOK
<1>5. holds(d, s)
  <2>1. holds(book, s)
    BY <1>3 DEF approved, exit_allowed, Proposed
  <2> QED BY <1>2, <2>1, PortfolioType DEF holds
<1>6. d.tracked[s] # NoLot
  BY <1>2, <1>4, <1>5, DeskFields DEF Squared, Flat, Long, holds
<1>7. PICK e : e = close(d, s, "agent")
  OBVIOUS
<1>8. desk' = e
  BY <1>3, <1>6, <1>7
<1>9. Keeps(d, close(d, s, "agent"), s)
  BY <1>2, <1>4, <1>6, CloseKeeps
<1>10. Good(d, e, s)
  BY <1>2, <1>4, <1>7, <1>9, KeepsIsGood
<1> QED BY <1>1, <1>4, <1>8, <1>10


\* What observe_equity() is given is what the account is worth.
LEMMA ReadStep ==
  ASSUME AccountInv, Read
  PROVE  /\ AccountInv'
         /\ \E e : desk' = e /\ Capped(desk, e)
<1>1. PICK d : d = desk
  OBVIOUS
<1>2. /\ d \in Desk /\ (\A t \in Symbols : Squared(d, t)) /\ Solvent(d)
      /\ d.session.day_peak_equity = truth.peak /\ d.session.halted = truth.reached
      /\ truth \in [peak: Int, reached: BOOLEAN] /\ d.session \in SessionState
      /\ fresh \subseteq Symbols /\ todo \subseteq Symbols
  BY <1>1 DEF AccountInv, TypeOK, SawTheTruth, Desk
<1>3. PICK equity \in Int : equity = worth(d)
  BY <1>2, WorthType
<1>4. PICK portfolio : portfolio = get_portfolio(d)
  OBVIOUS
<1>5. portfolio \in PortfolioState /\ portfolio.equity = equity
  BY <1>2, <1>3, <1>4, PortfolioType, EquityIsWorth
<1>6. PICK ss : ss = observe_equity(d.session, equity)
  OBVIOUS
<1>7. PICK peak : peak = raised_peak(truth.peak, equity)
  OBVIOUS
<1>8. peak \in Int
  BY <1>2, <1>7 DEF raised_peak
<1>9. /\ ss \in SessionState /\ ss.day_peak_equity = peak
      /\ ss.halted = (truth.reached \/ limit_reached(peak, equity))
  <2>1. PICK old \in SessionState : old = d.session
    BY <1>2
  <2>2. ss = [old EXCEPT !.day_peak_equity = peak,
                         !.halted = old.halted \/ limit_reached(peak, equity)]
    BY <1>2, <1>6, <1>7, <2>1 DEF observe_equity
  <2>3. limit_reached(peak, equity) \in BOOLEAN
    BY DEF limit_reached
  <2>4. old.halted = truth.reached
    BY <1>2, <2>1
  <2> QED BY <1>8, <2>2, <2>3, <2>4 DEF SessionState
<1>10. PICK e : e = [d EXCEPT !.session = ss]
  OBVIOUS
<1>11. /\ e \in Desk /\ Solvent(e) /\ e.session = ss /\ (\A t \in Symbols : Squared(e, t))
       /\ get_portfolio(e) = get_portfolio(d) /\ Capped(d, e)
  BY <1>2, <1>9, <1>10, SessionStep
<1>12. book' = portfolio
  BY <1>1, <1>4 DEF Read
<1>13. desk' = e
  BY <1>1, <1>5, <1>6, <1>10, <1>12 DEF Read
<1>14. truth'.peak = peak /\ truth'.reached = (truth.reached \/ limit_reached(peak, equity))
  BY <1>1, <1>3, <1>7 DEF Read
<1>15. truth' \in [peak: Int, reached: BOOLEAN]
  <2>1. truth' = [peak |-> peak, reached |-> truth.reached \/ limit_reached(peak, equity)]
    BY <1>1, <1>3, <1>7 DEF Read
  <2>2. (truth.reached \/ limit_reached(peak, equity)) \in BOOLEAN
    OBVIOUS
  <2> QED BY <1>8, <2>1, <2>2
<1>16. fresh' = fresh /\ todo' = todo /\ pc' = "decide"
  BY DEF Read
<1>17. AccountInv'
  BY <1>2, <1>4, <1>5, <1>9, <1>11, <1>12, <1>13, <1>14, <1>15, <1>16, NextInv
<1> QED BY <1>1, <1>11, <1>13, <1>17

LEMMA CountBarStep ==
  ASSUME AccountInv, CountBar
  PROVE  /\ AccountInv'
         /\ \E e : desk' = e /\ Capped(desk, e)
<1>1. PICK d : d = desk
  OBVIOUS
<1>2. /\ d \in Desk /\ (\A t \in Symbols : Squared(d, t)) /\ Solvent(d)
      /\ d.session.day_peak_equity = truth.peak /\ d.session.halted = truth.reached
      /\ truth \in [peak: Int, reached: BOOLEAN] /\ d.session \in SessionState
      /\ fresh \subseteq Symbols /\ todo \subseteq Symbols /\ book \in PortfolioState
  BY <1>1 DEF AccountInv, TypeOK, SawTheTruth, Desk
<1>3. PICK ss : ss = advance_bar(d.session)
  OBVIOUS
<1>4. ss \in SessionState /\ ss.day_peak_equity = truth.peak /\ ss.halted = truth.reached
  <2>1. PICK old \in SessionState : old = d.session
    BY <1>2
  <2>2. PICK bar \in Nat : bar = old.bar_index + 1
    BY DEF SessionState
  <2>3. PICK until \in [Symbols -> Nat] : until = old.cooldown_until
    BY DEF SessionState
  <2>4. PICK kept : kept = unexpired(until, bar)
    OBVIOUS
  <2>5. kept \in [Symbols -> Nat]
    BY <2>4 DEF unexpired
  <2>6. ss = [old EXCEPT !.bar_index = bar, !.cooldown_until = kept]
    BY <1>3, <2>1, <2>2, <2>3, <2>4 DEF advance_bar
  <2>7. ss \in SessionState /\ ss.day_peak_equity = old.day_peak_equity /\ ss.halted = old.halted
    BY <2>5, <2>6 DEF SessionState
  <2> QED BY <1>2, <2>1, <2>7
<1>5. PICK e : e = [d EXCEPT !.session = ss]
  OBVIOUS
<1>6. /\ e \in Desk /\ Solvent(e) /\ e.session = ss /\ (\A t \in Symbols : Squared(e, t))
      /\ Capped(d, e)
  BY <1>2, <1>4, <1>5, SessionStep
<1>7. desk' = e /\ fresh' = fresh /\ todo' = todo /\ book' = book /\ truth' = truth /\ pc' = "gather"
  BY <1>1, <1>3, <1>5 DEF CountBar
<1>8. AccountInv'
  BY <1>2, <1>4, <1>6, <1>7, NextInv
<1> QED BY <1>1, <1>6, <1>7, <1>8

\* A step that leaves the desk alone, and does not go on to decide.
LEMMA IdleStep ==
  ASSUME AccountInv, desk' = desk, truth' = truth, book' = book,
         pc' \in {"gather", "mark", "tick", "read", "count"},
         fresh' \subseteq Symbols, todo' \subseteq Symbols
  PROVE  AccountInv'
<1>1. PICK d : d = desk
  OBVIOUS
<1>2. /\ d \in Desk /\ (\A t \in Symbols : Squared(d, t)) /\ Solvent(d)
      /\ d.session.day_peak_equity = truth.peak /\ d.session.halted = truth.reached
      /\ truth \in [peak: Int, reached: BOOLEAN] /\ book \in PortfolioState
  BY <1>1 DEF AccountInv, TypeOK, SawTheTruth
<1> QED BY <1>1, <1>2, NextInv

LEMMA IdleIsCapped ==
  ASSUME AccountInv
  PROVE  Capped(desk, desk)
<1>1. ASSUME NEW t \in Symbols PROVE ~(desk.positions[t].qty > desk.positions[t].qty)
  <2>1. PICK a \in Nat : a = desk.positions[t].qty
    BY DeskFields DEF AccountInv, TypeOK
  <2> QED BY <2>1
<1> QED BY <1>1 DEF Capped

\* Every step of a bar keeps the invariant, and the caps.
LEMMA NextKeepsAccount ==
  ASSUME NoAddOns, AccountInv, [Next]_vars
  PROVE  AccountInv' /\ \E e : desk' = e /\ Capped(desk, e)
<1> DEFINE Goal == AccountInv' /\ \E e : desk' = e /\ Capped(desk, e)
<1>1. fresh \subseteq Symbols /\ todo \subseteq Symbols /\ Capped(desk, desk)
  BY IdleIsCapped DEF AccountInv, TypeOK
<1>2. CASE Gather
  BY <1>1, <1>2, IdleStep DEF Gather
<1>3. CASE Mark
  <2>1. PICK s \in Symbols : \E e : desk' = e /\ Good(desk, e, s)
    BY <1>3, MarkStep
  <2>2. PICK e : desk' = e /\ Good(desk, e, s)
    BY <2>1
  <2>3. /\ pc' = "mark" /\ fresh' = fresh /\ todo' \subseteq Symbols
        /\ book' = book /\ truth' = truth
    BY <1>1, <1>3 DEF Mark
  <2> QED BY <1>1, <2>2, <2>3, GoodNext DEF Good
<1>4. CASE Marked
  BY <1>1, <1>4, IdleStep DEF Marked
<1>5. CASE Tick
  <2>1. PICK s \in Symbols : \E e : desk' = e /\ Good(desk, e, s)
    BY <1>5, TickStep
  <2>2. PICK e : desk' = e /\ Good(desk, e, s)
    BY <2>1
  <2>3. /\ pc' = "tick" /\ fresh' = fresh /\ todo' \subseteq Symbols
        /\ book' = book /\ truth' = truth
    BY <1>1, <1>5 DEF Tick
  <2> QED BY <1>1, <2>2, <2>3, GoodNext DEF Good
<1>6. CASE TickFails
  BY <1>1, <1>6, IdleStep DEF TickFails
<1>7. CASE Ticked
  BY <1>1, <1>7, IdleStep DEF Ticked
<1>8. CASE Read
  BY <1>8, ReadStep
<1>9. CASE Buy
  <2>1. PICK s \in Symbols : \E e : desk' = e /\ Good(desk, e, s)
    BY <1>9, BuyStep
  <2>2. PICK e : desk' = e /\ Good(desk, e, s)
    BY <2>1
  <2>3. pc' = "count" /\ fresh' = fresh /\ todo' = todo /\ book' = book /\ truth' = truth
    BY <1>9 DEF Buy
  <2> QED BY <1>1, <2>2, <2>3, GoodNext DEF Good
<1>10. CASE Sell
  <2>1. PICK s \in Symbols : \E e : desk' = e /\ Good(desk, e, s)
    BY <1>10, SellStep
  <2>2. PICK e : desk' = e /\ Good(desk, e, s)
    BY <2>1
  <2>3. pc' = "count" /\ fresh' = fresh /\ todo' = todo /\ book' = book /\ truth' = truth
    BY <1>10 DEF Sell
  <2> QED BY <1>1, <2>2, <2>3, GoodNext DEF Good
<1>11. CASE Stand
  BY <1>1, <1>11, IdleStep DEF Stand
<1>12. CASE CountBar
  BY <1>12, CountBarStep
<1>13. CASE UNCHANGED vars
  <2>1. AccountInv'
    BY <1>13 DEF AccountInv, TypeOK, Squared, Flat, Long, Solvent, SawTheTruth, vars
  <2> QED BY <1>1, <1>13, <2>1 DEF vars
<1> QED BY <1>2, <1>3, <1>4, <1>5, <1>6, <1>7, <1>8, <1>9, <1>10, <1>11, <1>12, <1>13 DEF Next

-----------------------------------------------------------------------------
(* Theorems                                                                *)

\* In every state the books of each symbol agree: market value, resting stop
\* and tracked lot are those of the quantity that the broker holds (_fill,
\* set_price, _trigger_resting, protect, _close).
THEOREM BooksAgree ==
  ASSUME NoAddOns
  PROVE  Spec => []AccountInv
<1>1. Init => AccountInv
  BY InitAccount
<1>2. AccountInv /\ [Next]_vars => AccountInv'
  BY NextKeepsAccount
<1> QED BY <1>1, <1>2, PTL DEF Spec

\* Quantities, prices and lots keep their types whatever fires, fills or
\* fails: a sale never takes more than there is (_fill, evaluate).
THEOREM AccountTypes ==
  ASSUME NoAddOns
  PROVE  Spec => []TypeOK
<1>1. AccountInv => TypeOK
  BY DEF AccountInv
<1> QED BY <1>1, BooksAgree, PTL

\* Cash never goes below zero, though risk leaves the fee out of its cash cap,
\* as long as a fee is of no more than the price: a position is sold once,
\* whole, and pays for the fee of its own sale (_fill).
THEOREM NeverOverdrawn ==
  ASSUME NoAddOns, FeeBps <= 10000
  PROVE  Spec => []CashNeverNegative
<1>1. AccountInv => CashNeverNegative
  BY DEF AccountInv, Solvent, CashNeverNegative
<1> QED BY <1>1, BooksAgree, PTL

\* The kill-switch trips when, and only when, the account lost the limit at
\* the last prices (get_portfolio, observe_equity).
THEOREM HaltTellsTheTruth ==
  ASSUME NoAddOns
  PROVE  Spec => []HaltIsEarned
<1>1. AccountInv => HaltIsEarned
  BY DEF AccountInv, SawTheTruth, HaltIsEarned
<1> QED BY <1>1, BooksAgree, PTL

\* A purchase is within the caps of what the account is worth when the broker
\* fills it, for every book, price and multiplier (evaluate, _fill).
THEOREM PurchasesWithinCaps ==
  ASSUME NoAddOns
  PROVE  Spec => CapsRespected
<1> DEFINE Within ==
      \A s \in Symbols : desk'.positions[s].qty > desk.positions[s].qty =>
        /\ 100 * desk'.positions[s].qty * desk.prices[s] <= MaxPositionPct * worth(desk)
        /\ 100 * gross_exposure(desk') <= MaxExposurePct * worth(desk)
        /\ open_count(desk') <= MaxOpenPositions
<1>1. AccountInv /\ [Next]_vars => Within
  <2> SUFFICES ASSUME AccountInv, [Next]_vars PROVE Within
    OBVIOUS
  <2>1. PICK e : desk' = e /\ Capped(desk, e)
    BY NextKeepsAccount
  <2>2. gross_exposure(desk') = gross_exposure(e) /\ open_count(desk') = open_count(e)
    BY <2>1 DEF gross_exposure, open_count, holds, total
  <2> QED BY <2>1, <2>2 DEF Capped
<1>2. AccountInv /\ [Next]_vars => [Within]_vars
  BY <1>1
<1> QED BY <1>2, BooksAgree, PTL DEF Spec, CapsRespected

=============================================================================
