--------------------------- MODULE TradingSession ---------------------------
(***************************************************************************)
(* The session bookkeeping of TradingLoop (loop.py): startup, the steps of *)
(* a bar that read or write self.session, _on_exit, and the session_state  *)
(* row of the journal, across crashes, relaunches and midnights.           *)
(*                                                                         *)
(* An action goes from one await to the next.  What happens to orders is   *)
(* TradingDesk's subject: here a position is a symbol that StopManager     *)
(* tracks, and the broker's equity is any member of Equities whenever it   *)
(* is asked for.                                                           *)
(*                                                                         *)
(* A position ends in one of two ways: the desk closes it and _on_exit()   *)
(* is told (Exit), or its resting stop sells it at the venue and nobody is *)
(* (StopFires).                                                            *)
(***************************************************************************)
EXTENDS SessionRules

CONSTANTS NoSession, NoSymbol,
          HaltFlattens,   \* HALT_FLATTENS_POSITIONS
          Env,            \* the features of the environment that are present
          MaxBar,         \* bound: bars counted by a session
          MaxDay          \* bound: midnights

\*   "crash"       the process dies between two awaits
\*   "calls_fail"  a call that a bar, or startup(), awaits raises
\*   "stream"      a trade stream calls on_price() at any await (loop.py:227)
\*   "corrupt_row" load_session() cannot read the row, and returns None
ASSUME EnvAssumption == Env \subseteq {"crash", "calls_fail", "stream", "corrupt_row"}
ASSUME FlattensAssumption == HaltFlattens \in BOOLEAN
ASSUME NullAssumption == NoSession \notin SessionState /\ NoSymbol \notin Symbols

VARIABLES today,     \* the UTC date
          session,   \* self.session
          saved,     \* the session_state row
          open,      \* the symbols of StopManager.positions that are still held
          pc,        \* where run_forever is
          buying,    \* the symbol of the BUY that execute() waits for
          seen,      \* history: the day's peak and whether the limit was reached
          wait,      \* history: bars each symbol still has to sit out since an
                     \* exit that _on_exit() was told of
          unheard    \* history: the same since its resting stop sold it

vars == <<today, session, saved, open, pc, buying, seen, wait, unheard>>

Place == {"off", "starting", "dead", "sleep", "gather", "flatten", "deciding", "buying", "ending"}

Init ==
  /\ today = 0
  /\ session = NoSession /\ saved = NoSession
  /\ open = {}
  /\ pc = "off" /\ buying = NoSymbol
  /\ seen = [day |-> 0, peak |-> 0, breached |-> FALSE]
  /\ wait = [s \in Symbols |-> 0]
  /\ unheard = [s \in Symbols |-> 0]

-----------------------------------------------------------------------------
(* History: what the desk has been told, kept where no crash reaches.      *)

\* The session's day begins at the first equity that anybody reads on it.
SeenToday(equity) ==
  IF saved = NoSession \/ seen.day # today
  THEN [day |-> today, peak |-> equity, breached |-> FALSE] ELSE seen

SeenInBar(equity) ==
  LET peak == raised_peak(SeenToday(equity).peak, equity)
  IN [SeenToday(equity) EXCEPT !.peak = peak, !.breached = @ \/ limit_reached(peak, equity)]

-----------------------------------------------------------------------------
(* startup                                                                 *)

\* run_forever() starts, in a new process or again in this one.  reconcile()
\* drops the positions that are gone, without a word to _on_exit(): those that
\* their stop sold (StopFires) and closes whose answer a crash kept from us.
Launch ==
  /\ pc = "off"
  /\ open' \in SUBSET open
  /\ pc' = "starting"
  /\ UNCHANGED <<today, session, saved, buying, seen, wait, unheard>>

\* Mutant: startup() that always opens a new session.
StartupForgets ==
  /\ pc = "starting"
  /\ \E equity \in Equities :
       /\ session' = new_session(equity, today)
       /\ seen' = SeenToday(equity)
  /\ saved' = session'
  /\ pc' = "sleep"
  /\ UNCHANGED <<today, open, buying, wait, unheard>>

\* get_portfolio(), then restore the session, or open a new one, and save it.
Startup ==
  /\ pc = "starting"
  /\ \E equity \in Equities, row \in {saved} \cup (IF "corrupt_row" \in Env THEN {NoSession} ELSE {}) :
       /\ session' = IF row = NoSession THEN new_session(equity, today)
                                        ELSE roll_day(row, equity, today)
       /\ seen' = SeenToday(equity)
  /\ saved' = session'
  /\ pc' = "sleep"
  /\ UNCHANGED <<today, open, buying, wait, unheard>>

\* get_portfolio() raises out of run_forever(), which leaves running = True:
\* only a new process starts the desk again.
StartupFails ==
  /\ pc = "starting" /\ "calls_fail" \in Env
  /\ pc' = "dead"
  /\ UNCHANGED <<today, session, saved, open, buying, seen, wait, unheard>>

-----------------------------------------------------------------------------
(* run_once                                                                *)

StartBar ==
  /\ pc = "sleep" /\ session.bar_index < MaxBar
  /\ pc' = "gather"
  /\ UNCHANGED <<today, session, saved, open, buying, seen, wait, unheard>>

\* get_portfolio(): roll the day, update the peak, trip the kill-switch, save.
GotPortfolio ==
  /\ pc = "gather"
  /\ \E equity \in Equities :
       LET rolled == IF session = NoSession THEN new_session(equity, today)
                                            ELSE roll_day(session, equity, today)
           state == observe_equity(rolled, equity)
       IN /\ session' = state
          /\ seen' = SeenInBar(equity)
          /\ \/ /\ HaltFlattens /\ state.halted /\ ~rolled.halted
                /\ pc' = "flatten" /\ UNCHANGED saved
             \/ /\ ~(HaltFlattens /\ state.halted /\ ~rolled.halted)
                /\ pc' = "deciding" /\ saved' = state
  /\ UNCHANGED <<today, open, buying, wait, unheard>>

\* Mutant: _on_exit() that leaves the cooldown to the next save.
ExitUnsaved(s, reason) ==
  /\ s \in open
  /\ open' = open \ {s}
  /\ wait' = [wait EXCEPT ![s] = raised_peak(@, cooldown_bars(reason))]
  /\ session' = IF session = NoSession THEN session ELSE start_cooldown(session, s, reason)
  /\ UNCHANGED <<today, saved, buying, seen, unheard>>

\* The position of s closes: _on_exit() starts the cooldown and saves it.
Exit(s, reason) ==
  /\ s \in open
  /\ open' = open \ {s}
  /\ wait' = [wait EXCEPT ![s] = raised_peak(@, cooldown_bars(reason))]
  /\ \/ session = NoSession /\ UNCHANGED <<session, saved>>
     \/ /\ session # NoSession
        /\ session' = start_cooldown(session, s, reason)
        /\ saved' = session'
  /\ UNCHANGED <<today, buying, seen, unheard>>

\* _flatten_all(), one position at a time; a close may fail.
FlattenOne(s) == pc = "flatten" /\ Exit(s, "agent") /\ UNCHANGED pc
FlattenDone ==
  /\ pc = "flatten"
  /\ saved' = session
  /\ pc' = "deciding"
  /\ UNCHANGED <<today, session, open, buying, seen, wait, unheard>>

\* A BUY that risk.evaluate() approves goes to the broker in the same step.
Buy(s) ==
  /\ pc = "deciding"
  /\ ~session.halted
  /\ ~cooling_down(session, s)
  /\ pc' = "buying" /\ buying' = s
  /\ UNCHANGED <<today, session, saved, open, seen, wait, unheard>>

\* A SELL is gated by neither, and closes the position ...
Sell(s) == pc = "deciding" /\ Exit(s, "agent") /\ pc' = "ending"

\* ... or fails to; or the bar holds, or risk rejects what it proposed.
Decline ==
  /\ pc = "deciding"
  /\ pc' = "ending"
  /\ UNCHANGED <<today, session, saved, open, buying, seen, wait, unheard>>

\* The BUY filled and is protected, or came to nothing.
BuyReplied ==
  /\ pc = "buying"
  /\ open' \in {open, open \cup {buying}}
  /\ pc' = "ending" /\ buying' = NoSymbol
  /\ UNCHANGED <<today, session, saved, seen, wait, unheard>>

\* run_once() raises, or returns early without features.
BarFails ==
  /\ "calls_fail" \in Env
  /\ pc \in {"gather", "flatten", "deciding", "buying"}
  /\ pc' = "ending" /\ buying' = NoSymbol
  /\ UNCHANGED <<today, session, saved, open, seen, wait, unheard>>

BarLess(bars) == [s \in Symbols |-> IF bars[s] > 0 THEN bars[s] - 1 ELSE 0]

\* After the bar, whatever came of it: count it and save.
AdvanceBar ==
  /\ pc = "ending"
  /\ session' = advance_bar(session)
  /\ saved' = session'
  /\ wait' = BarLess(wait) /\ unheard' = BarLess(unheard)
  /\ pc' = "sleep"
  /\ UNCHANGED <<today, open, buying, seen>>

\* The bar or time budget is spent.
RunEnds ==
  /\ pc = "sleep"
  /\ pc' = "off"
  /\ UNCHANGED <<today, session, saved, open, buying, seen, wait, unheard>>

\* _tick_stops(), in a bar or between two while paused, and the trade stream.
TickExit(s, reason) ==
  /\ pc \in {"sleep", "gather"} \/ ("stream" \in Env /\ pc # "off")
  /\ Exit(s, reason)
  /\ UNCHANGED pc

-----------------------------------------------------------------------------
(* What the desk does not do                                               *)

\* The resting stop of s sells it, in set_price() or at the venue, at any
\* await or while no desk runs.  StopManager goes on tracking the symbol but
\* never closes it, as the stop is not confirmed dead, and reconcile() drops
\* it: either way _on_exit() is not called.
StopFires(s) ==
  /\ s \in open
  /\ open' = open \ {s}
  /\ unheard' = [unheard EXCEPT ![s] = raised_peak(@, cooldown_bars("stop"))]
  /\ UNCHANGED <<today, session, saved, pc, buying, seen, wait>>

Crash ==
  /\ "crash" \in Env /\ pc # "off"
  /\ session' = NoSession /\ pc' = "off" /\ buying' = NoSymbol
  /\ UNCHANGED <<today, saved, open, seen, wait, unheard>>

Midnight ==
  /\ today < MaxDay
  /\ today' = today + 1
  /\ UNCHANGED <<session, saved, open, pc, buying, seen, wait, unheard>>

Next ==
  \/ Launch \/ Startup \/ StartupFails
  \/ StartBar \/ GotPortfolio \/ FlattenDone
  \/ \E s \in Symbols : FlattenOne(s) \/ Buy(s) \/ Sell(s)
  \/ Decline \/ BuyReplied \/ BarFails \/ AdvanceBar \/ RunEnds
  \/ \E s \in Symbols, reason \in {"stop", "take"} : TickExit(s, reason)
  \/ \E s \in Symbols : StopFires(s)
  \/ Crash \/ Midnight

Spec == Init /\ [][Next]_vars

-----------------------------------------------------------------------------
\* Every variable has its type.
TypeOK ==
  /\ today \in Nat
  /\ session \in SessionState \cup {NoSession} /\ saved \in SessionState \cup {NoSession}
  /\ open \subseteq Symbols
  /\ pc \in Place /\ buying \in Symbols \cup {NoSymbol}
  /\ seen \in [day: Nat, peak: Int, breached: BOOLEAN]
  /\ wait \in [Symbols -> Nat] /\ unheard \in [Symbols -> Nat]

\* At every await, save while a halt is being flattened, the row is what memory
\* says: a crash there loses nothing of the halt, the peak or the cooldowns
\* (save_session after each change).
NothingToLose == session # NoSession /\ pc # "flatten" => saved = session

\* Once the drawdown from the day's peak has reached the limit, no BUY goes to
\* the broker until the day rolls, whatever crashes, restarts or recoveries of
\* equity come in between (observe_equity, startup, evaluate).
NoEntryAfterBreach == [][\A s \in Symbols : Buy(s) => ~seen.breached]_vars

\* After an exit that _on_exit() was told of, a symbol is not bought before as
\* many bars as the exit's reason asks for are over, across midnights and
\* restarts (_on_exit, advance_bar).
CooldownHonoured == [][\A s \in Symbols : Buy(s) => wait[s] = 0]_vars

\* The same of a symbol that its resting stop sold: the cooldown keeps the desk
\* from "immediately re-buying what just stopped it out" (config.py:152-154).
StopOutHonoured == [][\A s \in Symbols : Buy(s) => unheard[s] = 0]_vars

\* The row of a halted session is only replaced by one that is halted, or by
\* one of another day.
HaltIsSticky ==
  [][saved # NoSession /\ saved.halted
       => saved'.halted \/ saved'.trading_day # saved.trading_day]_vars

=============================================================================
