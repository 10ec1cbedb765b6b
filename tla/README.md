# Verification of budapilot

budapilot is a crypto trading desk: once per bar it gathers prices and news, lets a
pipeline of language-model agents propose one trade, puts the proposal through a
deterministic risk engine, and executes what is approved on Alpaca paper (or on a simulated
broker), with two stops around every position. This directory holds TLA+ models of it, from
the order path to the dashboard, the TLC runs that check them on small instances, and the
theorems TLAPS proves about them.

Paths below are relative to `src/budapilot/` unless they say otherwise.

## 1. Inventory

| Component | State it keeps | Operations | Interacts with |
|---|---|---|---|
| `execution/stops.py` StopManager | `positions`, one lock per symbol; each position's quantity, stop id and `closing` mark | `protect`, `on_price`, `close_manually`, `_close`, `_cancel_confirmed`, `reconcile` | awaits the broker, writes the journal's positions table, calls back `TradingLoop._on_exit` |
| `execution/engine.py` ExecutionEngine | none | `execute` | submits entries, hands fills to `protect`, routes sells through `close_manually` |
| `execution/broker_sim.py`, `broker_alpaca.py` (BrokerPort) | orders, positions, cash, last prices | `submit`, `cancel`, `get_order`, `list_open_orders`, `get_portfolio`, `set_price` | the venue; `set_price` triggers resting stops |
| `journal/store.py` Journal | SQLite tables: positions, session_state, and audit tables | upsert/load/delete | everything; the only state that survives the process |
| `loop.py` TradingLoop | `symbols`, `session`, `running`, `paused`, `bar_count`, entry contexts | `startup`, `run_once`, `_gather`, `_tick_stops`, `_flatten_all`, `_on_exit`, `run_forever`, `pause`/`resume`/`stop` | all of the above; driven by `__main__.py` and the dashboard |
| `risk/session.py` | none (pure, over `SessionState`) | `new_session`, `roll_day`, `observe_equity`, `start_cooldown`, `advance_bar` | called by the loop |
| `risk/engine.py` | none (pure) | `evaluate`: gates, caps, sizing | reads features, portfolio, asset, session |
| `agents/bus.py`, `base.py`, `providers.py` | TTL caches, usage counters | `run_bar`, `reflect`, one call per agent with timeout, retry and a stub to degrade to | called by the loop |
| `agents/*` | none | prompts, schemas and deterministic stubs | called by the bus |
| `data/*`, `features/*` | none, or the position in a fixture | bars, news, latest price, asset; indicators | called by the loop |
| `web/app.py`, `__main__.py` | the relaunch closure and the task that runs the loop | views, loop control, watchlist | read the journal, drive the loop |

What is hard here:

- **Interleaving at awaits.** Everything runs on one event loop; a coroutine keeps control
  until it awaits. `_close()` awaits up to four times with the position half closed, and a
  price tick, an agent's SELL and the flattening of a halt may all want the same position.
- **An order that outlives its call.** A cancel may be only acknowledged, a market order
  only accepted, a reply lost, a resting stop filled or rejected while nobody looks.
- **Death of the process.** Between any two awaits; what is left is the venue and SQLite.
- **Absolute counters.** Cooldowns are bar indices, the kill-switch belongs to a UTC day;
  both must survive restarts and midnights in any order.

What makes each component correct:

- StopManager: never two live orders that could sell the same lot; never a held position
  that nothing watches; the closing mark never outlives its owner; a stop or a take that is
  reached gets the position closed; a restart restores all of it.
- ExecutionEngine: a fill ends up protected; a sell never bypasses a live stop.
- Journal: the row of a position, and of the session, is what memory says at every point
  where the process may die.
- Session: no entry after the loss limit was reached on a day, none while a symbol cools off.
- Risk engine: an approved order respects every cap; a sell is never blocked.
- Broker (simulated): cash, positions and orders add up.
- Loop control: paused means no new decision; stopped is stopped; started is running.
- Bus: an answer belongs to the bar and symbol it is used for; a failing agent degrades.

`PROJECT.json` lists the hazards one by one, each at its line.

## 2. The modules

| Module | Models | Uses |
|---|---|---|
| `Broker` | the venue: what a call does to the order book, and what the venue does on its own | |
| `StopManager` | `execution/stops.py`, with the positions table and the `cooling` set that `_on_exit` fills | extends `Broker` |
| `TradingDesk` | `ExecutionEngine.execute`, the run tasks, cooldowns ending, crash and restart; the specification, its fairness and its properties | extends `StopManager` |
| `LongBook` | the abstract specification of the order path: a book of long positions, owned, offered and watched | |
| `DeskBook` | `TradingDesk` as a `LongBook`: the refinement mapping and the property that it implements it | extends `TradingDesk`, instantiates `LongBook` |
| `TradingDeskProofs` | theorems for any number of callers | extends `TradingDesk` |
| `DeskBookProofs` | theorems for one caller: what is held, on sale and watched; that the desk implements the book; what a restart restores | extends `DeskBook`, `TradingDeskProofs` |
| `SessionRules` | `risk/session.py` and `SessionState` as pure operators | |
| `TradingSession` | `startup`, the steps of a bar that touch `self.session`, `_on_exit`, `_flatten_all`, and the session_state row; crash, relaunch, midnight | extends `SessionRules` |
| `TradingSessionProofs` | theorems | extends `TradingSession` |
| `RiskEngine` | `risk/engine.py` `evaluate()`: gates, sizing, snapping, over integers | extends `SessionRules` |
| `RiskEngineProofs` | theorems about any decision, and about sums over the symbols | extends `RiskEngine` |
| `Agents` | the stubs that stand in for the models, and `agents/arbiter.py` | extends `RiskEngine` |
| `PaperAccount` | `SimBroker`'s money under the bars of `run_once`, with sizes, stops, ticks and the session | extends `RiskEngine` |
| `PaperAccountProofs` | theorems | extends `PaperAccount`, `RiskEngineProofs` |
| `AgentBus` | `run_bar`, the two caches, `Agent.run`, and the ruling on the proposal | extends `Agents` |
| `AgentBusProofs` | theorems about the stand-in arbiter and about a bar of the pipeline | extends `AgentBus` |
| `DeskControl` | `run_forever`, `_gather`, `_tick_stops`, `serve()`, the routes that start, pause and edit the watchlist | |
| `DeskControlProofs` | theorems | extends `DeskControl` |
| `Dashboard` | `snapshot`, its panel, the stream's publisher and the two cached tapes, over the journal's agent_runs | |
| `DashboardProofs` | theorems | extends `Dashboard` |
| `MC*` | the instance TLC checks: symmetry, or values a cfg cannot write | each extends its module (`MCTradingDesk` extends `DeskBook`) |

**How they fit together.** The order path and the session are shared state under many
coroutines, so they are modelled one await at a time, apart from one another: `TradingDesk`
knows orders and no money, `TradingSession` knows the session's row and no orders.
`PaperAccount` puts the two together with the risk engine's sizes where the simulated broker
makes a bar atomic enough to count money. `AgentBus` is what produces the proposal that
`RiskEngine` rules on. `DeskControl` is the task that runs all of it and everybody who can
start, stop or redirect it; `Dashboard` is what is shown of it.

**Granularity.** An action is what a coroutine does from one await to the next, so an
interleaving of actions is an interleaving the event loop can produce. `submit()` is two
actions: the venue takes the order, and the reply resumes the caller; the process may die or
the reply be lost in between. A crash happens between two actions. Two SQLite writes without
an await in between are one step: a crash between them is not modelled.

**The order path (`TradingDesk`).** `op[c]` is where caller `c` stands: a task of
`run_forever`, or a ticker, a coroutine that only calls `on_price()`. Tickers stand for the
trade stream that `stops.py:10-11` and `loop.py:227-228` describe; `src/` does not start
one yet, so runs say whether they have one. `objs` are the
`ProtectedPosition` objects, `tracked` is `StopManager.positions`, `lock` the per-symbol
lock, `journal` the positions table, `recon` the local variables of `reconcile()`. Objects
and order slots are reused when nothing refers to them any more, which makes the state space
finite although runs are unbounded. `Broker` abstracts a price to its place relative to the
position's two levels, and a quantity to units, `Lot` per entry. What agents
propose and risk approves is left open (any BUY or SELL at any time) except that a cooling
symbol is not bought, and that without `"add_on"` a held symbol is not either. The price that
`on_price` is called with is the price at that moment; `SellTracked`, which closes at any
price, covers a stale one.

**The book (`LongBook`, `DeskBook`).** What the caller of the order path may rely on, without
coroutines, orders or calls: three numbers per symbol, the units owned, offered by live sell
orders, and watched by the software stop. It is bought whole and only when flat, offered at
most once and for no more than is owned, sold outright only while nothing is on offer, and
watched until nothing is owned. `DeskBook` reads the three numbers off the detailed state
(`held`; the sum over live sell orders; the quantity of the tracked object) and `KeepsTheBook`
says that every step of the desk is a step of the book, or none.

**The session (`TradingSession`).** `pc` is where `run_forever` is. Equity is any member of
`Equities` whenever the code asks for it. `open` is the set of tracked symbols that are still
held; orders are not modelled here. A position ends by `Exit`, which is what the desk closes
itself and `_on_exit` is told of, or by `StopFires`, its resting stop selling it at the venue:
`_close()` never gets past a stop that is FILLED and `reconcile()` drops the position, so nobody
is told. Three history variables know what the desk should remember: `seen` (today's peak and
whether the limit was reached in a bar), `wait` (bars each symbol still has to sit out since an
`Exit`) and `unheard` (the same since a `StopFires`); no crash touches them, so the properties
compare what the code decides with what happened. Equity is an integer and the limit a percentage,
which makes the comparison with the limit exact. `MCTradingSession` runs the module under both
settings of `HALT_FLATTENS_POSITIONS`: the one of the cfg in the cfg's `Env`, and, in behaviours of
its own, a desk that flattens in a process that nothing disturbs.

**Decisions (`RiskEngine`, `Agents`).** Money, prices and quantities are integers and limits
are percentages, compared without division, so that a cap is exact where the code's floats are
within rounding; `snap_to_increment` and a quantity that a headroom buys round down as in the
code. ATR comes as half of itself, because the stop multiples are halves. A non-finite input is
one flag of the features. `approved` is the conjunction of the gates in `evaluate()`'s order;
each rejection is an unfulfilled conjunct. `Agents` keeps what a stub decides and drops its
wording; scores are in hundredths and the arbiter's in millionths, so that `rounded` is the
only place that rounds.

**The account (`PaperAccount`).** A bar gathers (`have`, the symbols whose bars came), marks each
of them to its close, which fires its resting stops, ticks each tracked position with a latest
trade that need not be that close and may be missing, reads the account into the session,
decides and executes, and counts; a `latest_price()` that raises ends the bar, which is counted.
SimBroker suspends nowhere, so nothing else comes in between.
`desk` holds cash, last prices, positions with the `market_value` the code caches, resting
stops in their order, tracked lots and the session. `truth` is a history variable: the peak of
what the account is really worth at the last prices, and whether the limit was reached from
it.

**The bus (`AgentBus`).** `bar` holds the locals of `run_bar`; `bar.calls` are the calls of
the current wave, each of which ends by the stub (offline), an answer, a try at the fallback
vendor, or degradation. `asked` and `alarm` are history: the calls made this bar, and how long
ago a symbol was rated CRITICAL. A cached answer has an age, and passing time removes it at its
TTL.

**The driver (`DeskControl`).** `run[r]` is a task of `run_forever` with its locals, `server`
the locals of `serve()`, `desk` the loop's attributes that both and the dashboard share.
`past` is history: orders since the pause, and whether a mark was put down to another symbol.
Within a bar the awaits are those of `_gather` (bars, news, one price per tracked position) and
everything up to the order as one. A price comes (`Tick`), is missing (`NoPrice`: the position is
passed over) or raises (`PriceRaises`: a bar fails with the later positions unticked; a paused turn
has no except clause, and the run ends through its `finally`); the last two are `"feed_outage"`.

**The dashboard (`Dashboard`).** A row of agent_runs carries the number of its process in place
of its timestamp. The stream and the two tapes share nothing but the watchlist, so a behaviour
follows one of the three, its `view`. A snapshot is its bar, its panel and the watchlist: the account,
the prices and the flags that a real one carries too are not modelled, and what is said of stale
data is said of the panel's cards and of the two tapes.

**`Env`.** What the environment may do beyond the ordinary is a set of features that each cfg
chooses; each module that has one describes them. A property that holds under one set and not
under another is thus stated once, with the assumption visible in the cfg.

## 3. The runs

| Run | Instance | Shows |
|---|---|---|
| `DeskSync` | 1 symbol, 1 task, 3 order slots, 2 objects, lots of 2, up to 4 held; pending cancels, failing calls, late rejections, partial stop fills, exits that raise (27 thousand states) | types; at most one live order could sell a symbol, for no more than is held; when no bar is in flight whatever is held is watched; the desk implements `LongBook` |
| `DeskFaults` | lots of 1, 4 order slots; crashes, lost replies, failing order lists (210 thousand) | a closing order is only sent over a dead stop; memory and journal agree whenever nobody works on a position; `reconcile()` restores whatever had a row and is still held, with a live resting stop |
| `DeskTickers` | a task and a ticker, 3 objects; exits that raise, orders that fill late (1.1 million) | the closing mark has an owner; one closer per symbol |
| `DeskLiveness` | `FairSpec`; pending cancels, failing calls | a price that stays at the stop, or at the take, gets the position closed |
| `SessionKept` | 2 symbols, 4 equities around a 5% limit, cooldowns of 3 and 1 bars, 6 bars, 1 midnight; crashes, failing calls, and beside it `HALT_FLATTENS_POSITIONS` on in a process that nothing disturbs (273 thousand) | the row loses nothing; the kill-switch holds, also through the flattening; a cooldown that `_on_exit` started holds; a halt is sticky |
| `PaperAccount` | 3 symbols of which 2 may be held, 2 prices, 2 ATRs, 4 bars, an increment of 7, caps of 60% and 100%, a fee of 10 basis points; no add-ons; bars and ticks that fail (819 thousand) | cash never goes below zero; the kill-switch trips exactly on a real loss; every purchase is within the caps of what the account is then worth |
| `AgentBus` | 2 symbols, one of them held at its cap; 2 markets, 3 shortlists, 2 debate rounds, a regime that is cached for up to two units of time and news for up to one; all three modes (322 thousand) | the record of a bar has every call once; the stand-in arbiter proposes nothing bound to be rejected; a cached CRITICAL vetoes; a bar ends |
| `DeskControl` | 2 runs of 2 bars, 3 watchlists with 2 edits, a deadline, a feed with one more bar; a startup that raises, prices that are missing or raise (252 thousand) | one driver; a flag that tells the truth; a pause that holds but for the order in flight; full budgets; no task of `run_forever` left at the shutdown; ticking goes on if no feed is out for good; time is up |
| `Dashboard` | 2 processes, 4 writes, 2 edits, TTLs of 1 and 2, one proposal shown (506 thousand) | no stale card on the panel; no stale tape; snapshots that differ in bar, panel or watchlist do not pass for one another; the stream catches up |

The disagreements met between the code and what it says of itself, each a run that TLC finds
violated:

| Run | What happens | What the code says |
|---|---|---|
| `FindPhantomHalt` | an add-on takes its cost from cash and leaves `market_value` at the old quantity until the next `set_price()`; if the next bars of that symbol fail, the bar reads an equity short by the purchase, and the kill-switch trips with nothing lost (`execution/broker_sim.py:117`) | `contracts.py:411-412`: a stale copy "is how you get a kill-switch reading the wrong number" |
| `FindStopOutRebought` | a position that its resting stop sells gets no cooldown, and the next bar may buy it back: `_cancel_confirmed()` answers False to a stop that is FILLED, so `_close()` never reaches `on_exit` (`execution/stops.py:214`), and `reconcile()` drops what was sold while the desk was down (`stops.py:233`). With SimBroker this is the ordinary stop-out, as `set_price()` in `_gather()` comes before `_tick_stops()` | `config.py:153-154`, of the cooldown: "Stops the desk from immediately re-buying what just stopped it out." |
| `FindWatchlistSwap` | `_gather()` asks for the bars of `self.symbols`, awaits, and zips them with `self.symbols` again; reordered in between, bars of one symbol become the mark of another (`loop.py:211`) | `web/app.py:388`: "Takes effect on the next bar." |

**Assumptions known to be necessary.** Adding the feature to a passing run shows the
counterexample; the properties are stated under the assumption because the code is known not
to keep them without it:

- `"add_on"` (buying a held symbol) in any desk run: `protect()` replaces the tracked position
  and forgets its live stop (`execution/stops.py:90`), so a close meets a live stop, a restart
  restores only the second lot, and the book is not kept;
- `"async_fill"` in `DeskSync`: an entry that is ACCEPTED first and fills later never gets a
  stop (`execution/engine.py:78`), and a close that is ACCEPTED is taken for done
  (`execution/stops.py:188`);
- each of `"add_on"`, `"async_fill"`, `"lost_reply"` and `"crash"`, added to `DeskSync`, violates
  `SellsCovered`, `NoNakedPosition` and `KeepsTheBook`, and a ticker violates the first two: the
  theorems about the book assume none of them, and need to;
- `"late_reject"` in `DeskLiveness` violates `StopPriceFlattens`: a REJECTED stop is not live
  but never confirmed dead either (`execution/stops.py:214`). For the same reason a position
  that its resting stop sold stays tracked, without units; what that does to its cooldown is
  `FindStopOutRebought`, and why `CooldownHonoured` speaks of exits that `_on_exit` was told of;
- a ticker in `DeskFaults` violates `CancelBeforeClose`: `protect()` publishes the position
  before its stop is armed (`execution/stops.py:90`);
- `"list_fails"` is in `DeskFaults` and breaks nothing stated there, but makes `reconcile()`
  arm a second stop over a live one (`execution/broker_alpaca.py:176`); `"crash"` after the
  venue took a stop and before its id was saved makes `reconcile()` cancel the stop of a held
  position as an orphan (`execution/stops.py:247`);
- `"crash"` in a desk that flattens violates `NoEntryAfterBreach`: the halt is saved only after
  `_flatten_all()` returned (`loop.py:126-127`), so that desk of `SessionKept` runs undisturbed;
- `"corrupt_row"` in `SessionKept` violates `HaltIsSticky`: an unreadable row is answered like
  no row (`journal/store.py:236`);
- `"stream"` in `SessionKept` violates `CooldownHonoured`: an exit during `startup()` finds no
  session to record its cooldown in (`loop.py:262`). `src/` starts no such stream, so this one and
  the ticker's are hazards of a desk to come and not of this one;
- `"double_start"` in `DeskControl` violates `OneDriver`: Start looks at `running`, which the
  task it created sets only when it first runs (`web/app.py:430`, `loop.py:302`);
- a scout that names a symbol twice violates `CriticalHolds`: two candidates are rated apart, the
  cache keeps the later rating, and nothing in `run_bar` takes doubles out. The prompt asks for
  one candidate per symbol (`agents/scout.py:66`); the theorems about the bus that need it say
  so (`NamedOnce`);
- `"add_on"` in `PaperAccount` violates `HaltIsEarned`, see `FindPhantomHalt`: the theorems about
  the account assume `NoAddOns`; a fee above 100% of the price makes a sale cost money;
- each of `"async_fill"`, `"pending_cancel"`, `"late_reject"`, `"partial_stop"`, `"call_fails"` and
  `"add_on"`, and a ticker, added to `DeskFaults`, violates `RestartRestoresProtection`:
  the theorem is about the rest, `Recoverable`;
- `CriticalHolds` is about candidates of the bar: a proposal of any other symbol is ruled on
  with news risk LOW (`loop.py:150`);
- `RunningMeansDriven` excepts a latest launch whose `startup()` raised: that one leaves the flag
  set (`loop.py:309`). A later launch is held to it again;
- `TrackedIsTicked` assumes that no feed is out for good (`FairSpec`): one that answers 0 to each call
  leaves a position to its resting stop (`loop.py:346`), and TLC shows it without the assumption.

**Bounds.** One symbol is enough for the order path: locks, rows and stops are per symbol and the
code never relates two of them, and `reconcile()` handles rows one after the other. Two objects let
a restored position coexist with the one it replaces; three order slots hold a live stop, a closing
order and a forgotten stop at one time, four add the stop that a lost reply hides. Lots of 2 tell a
partial fill from a full one. `MaxHeld` bounds purchases. In the session, `MaxBar` is twice the
longest cooldown, so that a cooldown starts late, spans a midnight and ends; the equities are one
below the limit of every peak, exactly at the limit, one step above it, and the peak itself. In
`PaperAccount` four bars buy, are stopped out, cool off and buy again; one ATR makes the risk budget
the binding cap and the other the position cap; the increment divides none of the caps, and the caps
are wide so that the second entry is bound by cash, where the fee makes the difference; a third
symbol lets a purchase meet the limit of two positions. `FindPhantomHalt` has the limits of
`config.py`. In `AgentBus` the held symbol stands at its cap and scores higher than the other one,
so the arbiter must pass it over; `Pass` may come between any two calls or not for bars on end, so
that an answer expires within a bar or outlives several. Two runs are the first one and a relaunch;
one bar left in the feed lets one run end by its budget and another by the feed. In `Dashboard` one
shown proposal makes the count stop growing, which is when only `bar_index` tells two snapshots
apart. Symmetry sets are interchangeable model values and no temporal property is checked with them
except action properties, for which it is sound; the runs of `DeskControl`, `AgentBus` and
`Dashboard`, which check liveness, have none. Deadlock is checked except where the system stops: the
process of `DeskControl` ends, and the bars of `PaperAccount` are bounded.

**Fairness.** `TradingDesk`: a coroutine whose call has answered resumes (asyncio's ready queue
is first in, first out: weak fairness of `Resume`). A call that may fail does not fail every
time it is retried (strong fairness of the succeeding outcomes): the code retries on each tick
and can do nothing about a venue that is down for good. `run_forever` calls `on_price` for
each tracked symbol on every pass, paused or not, so a tick at the level recurs as long as the
level is met (strong fairness of `OnPrice`). The venue settles the market orders and cancels
it accepted. Nothing is assumed of prices, nor of a resting stop, whose limit may never be met.
`AgentBus`: `wait_for()` bounds each try, so some call of the wave ends, by whichever outcome;
success is not assumed. `DeskControl`: weak fairness of each run's next step, that steps of
`loop.py` are taken at all, paused or not; and strong fairness of a price for each symbol: a feed
that is asked for it again and again does not answer 0 or raise every time, as the code can
do nothing about one that does. Nothing is assumed of the dashboard or the clock.
`Dashboard`: the publisher polls each second, and a bar that was journaled is counted.

**Mutants.** Each property of a passing run has a mutant of the code it is about: an operator
just before the one it would replace, such as a cancel confirmed by its acknowledgement, a
failed close that leaves the mark, a midnight that forgets the cooldowns, a sell that leaves
the emptied position in the book, a fallback that goes back to the primary, or a Start that does
not look at `running`. TLC finds the property violated with each.

## 4. The proofs

`TradingDeskProofs`, for any symbols, tasks, tickers, slots, lot and `Env`:

- `TypeCorrect`: `TypeOK` is inductive as it stands; the proof goes caller by caller and
  action by action.
- `CloseOwned`: `CloseHasOwner` is not inductive: it says that a mark has an owner and
  that closers exclude each other, but nothing ties a closer to the lock. `CloseInv` adds that
  whoever is inside `_close()` holds the lock of its symbol, that its object is marked, that a
  marked tracked object is worked on by the holder of its lock, and that objects being armed or
  awaiting the lock are where the code left them. The lemmas follow the code's shape: entering
  `_close()`, leaving it, tracking and untracking a position, arming, moving on.

`DeskBookProofs`, for one caller (`Callers = {c}`: one run task and no trade stream, which is
what `src/` runs) and again any constants and any `Env`:

- `CloseOverDeadStop`: `CancelBeforeClose`. `StopDown` carries the argument: whoever cancels,
  cancels the stop of the position it closes; a canceled order stays canceled; nobody else can
  arm the position meanwhile, because there is nobody else.
- `JournalAgrees`: `JournalCoversTracked`. It needs `Place`: what the loop works on is tracked
  until it is forgotten, so the row that a failed close writes is that of the tracked position.

With a second caller both are false, see the list in section 3.

and, for a `Steady` venue, which is `DeskSync`'s `Env` and any part of it: pending cancels,
failing calls, late rejections, partial fills and raising callbacks, but no add-on, late fill,
lost reply or crash. For any symbols, slots, objects and lots:

- `NeverOversold` and `NeverNaked`: `SellsCovered` and `NoNakedPosition`. Neither is inductive,
  because what may be sold depends on orders that nobody holds a reference to any more.
  `BookInv` says of every order alive that it is a resting stop for no more than is owned
  (`Resting`) and that it is the one the tracked position names (`Claimed`); of what is owned,
  that it is watched or was bought in this very step of the task (`Watched`); and what the task
  knows where it stands: at an entry nothing is owned, while it arms the position is the one just
  bought, at an exit the stop is dead. Two live sells would be the stop of one tracked position,
  hence one order. `BookInvariant` rests on `CloseInv` and on `StopDown`.
- `DeskKeepsTheBook`: `KeepsTheBook`. `BookInv` leaves at most one live sell order per symbol,
  so the sum in `units_offered` is that order's quantity or zero; lemmas say how it moves when
  nothing, or only one order, changes. Then every action of the desk has a lemma of its own:
  which step of the book it is, or that it is none.

and, for a `Recoverable` environment: crashes at any await, lost replies, listings of orders that
fail and exits that raise, in any order and number:

- `RestartProtects`: `RestartRestoresProtection`. What makes it hard is that `reconcile()` acts on
  two listings while the venue goes on: a stop that was listed may have sold its position since,
  and a crash may have left stops that nobody knows. `RestartInv` has three parts. `WholeLots`:
  whatever is owned, watched or offered is one lot, so that what was listed as held is what is
  held, or nothing is. `NamesItsStop`: a stop that a position, a row, the task or the locals of the
  recovery name is a stop of that symbol, because a slot that is named is not reused.
  `Recovering`: where `reconcile()` stands, what it listed is alive or its symbol has been sold
  (`Snapshot`), and each row it is done with, if still held, is tracked and has a live stop that
  will not be cancelled as an orphan (`Guarded`), or is being armed (`Restored`). At the end
  nothing is left to cancel, and what remains is the property. There is a lemma for each step
  of the recovery, and one for what the venue may do under it.

`TradingSessionProofs`, for any symbols, equities, limits, cooldown lengths, bars and days:

- lemmas on each function of `risk/session.py` (what it returns, what it preserves);
- `SessionTypeCorrect`: needs that a bar in progress always has a session.
- `NothingIsLost`, assuming `HALT_FLATTENS_POSITIONS` is off: memory and row agree at every await;
  inductive together with the fact that `_flatten_all()` is never entered.
- `KillSwitchHolds`, under the same assumption and a readable row: no BUY after the limit was
  reached on the day. The invariant `RowRemembers` says that the row has the history's day and peak
  and is halted if the limit was reached; that the peak is part of it is what makes the breach of
  the next bar visible to the code.
- `KillSwitchFlattens`, for either setting, a readable row and no crash: the same. While the desk
  flattens, and after a bar that failed in it, the row lags behind; `MemoryInv` says that memory
  remembers what `RowRemembers` says of the row, and that the two agree everywhere else.
- `CooldownHolds`, without a trade stream and with a readable row: no BUY of a symbol before the
  bars of an exit that `_on_exit` was told of are over. `CoolInv` bounds what is left to wait by the
  row's absolute index, `bar_index + wait <= cooldown_until`, and says that memory and row count
  alike and that a tracked symbol has nothing left to wait, which is why an exit never shortens a
  cooldown.
- `HaltSticks`, with a readable row: `HaltIsSticky`, with and without flattening and across crashes.
  The row is always replaced by a session that `Succeeds` it: of a later day, or of the same day and
  halted if the row was. `StickyInv` says that memory succeeds the row and that neither is of a day
  to come; succession is transitive, and each function of `session.py` takes a session to one that
  succeeds it.

`RiskEngineProofs`, for any limits, prices, portfolios and increments (the limits only as
`RiskLimitsAssumption` has them, the symbols finite as `SymbolsAssumption` has them):

- `total`, the sum over the symbols, is a function defined by recursion over the subsets. That
  such a function exists (`PartialSums`), is an integer (`TotalType`) and moves by the difference
  if one summand does (`TotalMoves`) is proved by least counterexample: a smallest subset for which
  it fails, which a well-founded order has, loses one symbol and no longer fails.
- `ExitIgnoresSession`, `ExitWithinHolding`: neither kill-switch nor cooldown decides on a
  SELL, and it is of no more than is held.
- `EntryWithinCaps`, `StopLossWithinBudget`: after an approved BUY position, book and cash are
  within their caps, and what the stop would lose is within the risk budget. Both rest on
  `QuotientFits` (a rounded-down quotient times the divisor fits) and `SnapTakes`: the code
  takes a minimum of quotients and snaps it after that.

`AgentBusProofs`, for any watchlist, answers, caches, books, TTLs and number of candidates:

- `ArbiterStands`: whatever the stand-in arbiter proposes meets the conviction floor, is about
  an opinion that is not CRITICAL and, if a BUY, is of a position with headroom under the very
  cap that `evaluate()` applies. The arbiter's own test asks for half a percent more. That a
  highest score exists among finitely many opinions is `LeaderIsOne`, over FiniteSetTheorems.
- `BusTypes`, `Journaled`, `ArbitersProposalStands`, `VetoHolds`: the invariants of the run. None
  is inductive. `IInv` adds of the bar in progress that its record and the calls under way
  add up to what was asked, each once (`Ledger`, over bags: calls of the same wave end in any
  order, and some rows are only listed when the wave is over); that an answer is missing only
  while its call is under way (`Answering`); that what was decided for a silent portfolio manager
  is the arbiter's proposal over the opinions of the bar (`Decision`); and that a rating of
  CRITICAL that is remembered is in the cache and in the opinions (`Vetoes`). The last two of the
  four assume `NamedOnce`.

`DeskControlProofs`, for any symbols, watchlists, number of runs, budgets and edits, assuming
`"double_start" \notin Env`: `ControlTypes`, `OneDriverAlways`, `RunningIsDriven`, `PauseIsKept`,
`FullBudget` and `QuietShutdown`, one for each safety invariant of the run. None of the last five is
inductive. `IInv` adds: `serve()` always holds the one task that is alive (`Latest`, without which a
relaunch, or the shutdown, would meet a task it does not know); a desk that says it runs has a task
or a latest launch that raised (`Driver`, which is `RunningMeansDriven`); a desk that answers and is
not running has nobody inside the try (`Idle`); the bars of a run are what `bar_count` grew by since
it began, and between two bars one is left to make (`Budget`); and the one late order was the last
act of its bar (`Late`). `QuietShutdown` is about tasks of `run_forever`: a request of `/api/deep`
(`web/app.py:490`) also writes a row when it ends, and whether one may end after the journal was
closed is not modelled.

`DashboardProofs`, for any agents, watchlists, TTLs and number of processes:

- `DashboardTypes`, `CardsAreOwn`, `TapeIsFresh`, `NothingIsMissed`: the invariants of the run. `IInv`
  adds that the rows of the journal are in the order of the processes that wrote them
  (`Chronicle`, so that the last row of an agent is the newest); that a bar that is due was not
  counted (`Counted`); that data for another watchlist, cached or on its way, is as old as the
  change (`AgedTape`, which a request that began before the edit must keep too); and that what the
  client was sent under the present `bar_index` is what there is to see (`Current`).

`PaperAccountProofs`, for any symbols, prices, sizes, fee, limits, increment and number of bars, with
bars and ticks that fail, assuming `NoAddOns`:

- `BooksAgree`: each symbol is `Squared` at every step: its market value is its quantity at the last
  price, and it is either `Flat` (nothing held, nothing resting, at most a spent lot tracked) or
  `Long` (the tracked lot is what is held, with one resting stop of it). This is the inductive
  part; lemmas say of each operation (`set_price` with the stops it fires, `close`, `protect`)
  that it keeps the symbol squared and the others alone.
- `AccountTypes`, `NeverOverdrawn`, `HaltTellsTheTruth`, `PurchasesWithinCaps`: `TypeOK`,
  `CashNeverNegative` (for a fee of at most 100%), `HaltIsEarned` and `CapsRespected`. With every
  symbol squared, the equity that the code sums from cached market values is what the account is
  worth (`EquityIsWorth`), so session and history see the same peak; a purchase moves one summand,
  and `EntryWithinCaps` does the rest.

Only model-checked: `StopPriceFlattens`, `TakePriceFlattens`, `BarDecides`, `TrackedIsTicked`,
`TimeIsUp` and `StreamCatchesUp`, which are liveness under fairness and out of the prover's reach,
and the three refuted properties. Every invariant and action property of a passing run is
stated by a theorem, under the assumptions above.

## 5. Plan

Done: all components of the inventory that decide something, and a theorem for each invariant and
action property of the runs. Left:

1. A relaunch inside the process, which finds `StopManager` still tracking, in `TradingDesk`.
2. The four hazards that no property covers (`PROJECT.json` says why of each): a position whose
   process died before its row was written, a stop that fills between the two listings of
   `reconcile()`, and the two consequences of buying on top of, or filling after, a reply.
3. What holds of the book with a ticker beside the task: less than `BookInv`, more than nothing.

## 6. Not modelled

Prompts and the wording of agents, indicators (floating-point series), HTTP and SDK details of
Alpaca, the page the browser renders, argument and environment parsing. The stubs of the regime,
debate, reflection and deep agents feed prompts only. The audit tables of the journal (orders,
decisions, equity, lessons) decide nothing. The handler of `/api/deep` trades nothing and its row of
agent_runs is one of the dashboard's writes by others (`LogOther`), but its task is not followed.
The average entry price of a position is only shown. Floats are integers: an error of the last digit
in a sum or a comparison is out of scope. A relaunch inside the same process is in `TradingSession`
and `DeskControl` but not in `TradingDesk`.
