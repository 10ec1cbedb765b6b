------------------------ MODULE TradingSessionProofs ------------------------
(***************************************************************************)
(* Theorems about TradingSession, for any set of symbols, any limits, any  *)
(* equity and any bound on bars and days.                                  *)
(***************************************************************************)
EXTENDS TradingSession, TLAPS

USE DEF vars

-----------------------------------------------------------------------------
(* The functions of session.py return a SessionState.                      *)

LEMMA NewSessionType ==
  ASSUME NEW e \in Equities, NEW day \in Nat
  PROVE  new_session(e, day) \in SessionState
BY EquitiesAssumption DEF new_session, SessionState

LEMMA RollType ==
  ASSUME NEW st \in SessionState, NEW e \in Equities, NEW day \in Nat
  PROVE  /\ roll_day(st, e, day) \in SessionState
         /\ roll_day(st, e, day).bar_index = st.bar_index
         /\ roll_day(st, e, day).cooldown_until = st.cooldown_until
         /\ roll_day(st, e, day).trading_day = day
         /\ roll_day(st, e, day).day_peak_equity
              = IF st.trading_day = day THEN st.day_peak_equity ELSE e
         /\ roll_day(st, e, day).halted = (st.trading_day = day /\ st.halted)
BY EquitiesAssumption DEF roll_day, SessionState

LEMMA ObserveType ==
  ASSUME NEW st \in SessionState, NEW e \in Equities
  PROVE  /\ observe_equity(st, e) \in SessionState
         /\ observe_equity(st, e).bar_index = st.bar_index
         /\ observe_equity(st, e).cooldown_until = st.cooldown_until
         /\ observe_equity(st, e).trading_day = st.trading_day
         /\ observe_equity(st, e).day_peak_equity = raised_peak(st.day_peak_equity, e)
         /\ st.halted => observe_equity(st, e).halted
         /\ limit_reached(raised_peak(st.day_peak_equity, e), e) => observe_equity(st, e).halted
<1>1. raised_peak(st.day_peak_equity, e) \in Int
  BY EquitiesAssumption DEF raised_peak, SessionState
<1>2. limit_reached(raised_peak(st.day_peak_equity, e), e) \in BOOLEAN
  BY DEF limit_reached
<1> DEFINE peak == raised_peak(st.day_peak_equity, e)
           reached == limit_reached(peak, e)
<1>3. observe_equity(st, e) = [st EXCEPT !.day_peak_equity = peak, !.halted = st.halted \/ reached]
  BY DEF observe_equity, SessionState
<1> HIDE DEF peak, reached
<1>4. peak \in Int /\ reached \in BOOLEAN
  BY <1>1, <1>2 DEF peak, reached
<1>5. /\ observe_equity(st, e) \in SessionState
      /\ observe_equity(st, e).bar_index = st.bar_index
      /\ observe_equity(st, e).cooldown_until = st.cooldown_until
      /\ observe_equity(st, e).trading_day = st.trading_day
      /\ observe_equity(st, e).day_peak_equity = peak
  BY <1>3, <1>4 DEF SessionState
<1>6. (st.halted => observe_equity(st, e).halted) /\ (reached => observe_equity(st, e).halted)
  BY <1>3, <1>4 DEF SessionState
<1> QED
  BY <1>5, <1>6 DEF peak, reached

LEMMA CooldownType ==
  ASSUME NEW st \in SessionState, NEW s \in Symbols, NEW reason \in ExitReason
  PROVE  /\ start_cooldown(st, s, reason) \in SessionState
         /\ start_cooldown(st, s, reason).bar_index = st.bar_index
         /\ start_cooldown(st, s, reason).trading_day = st.trading_day
         /\ start_cooldown(st, s, reason).day_peak_equity = st.day_peak_equity
         /\ start_cooldown(st, s, reason).halted = st.halted
         /\ start_cooldown(st, s, reason).cooldown_until[s] = st.bar_index + cooldown_bars(reason)
         /\ \A r \in Symbols : r # s =>
              start_cooldown(st, s, reason).cooldown_until[r] = st.cooldown_until[r]
         /\ cooldown_bars(reason) \in Nat
<1>1. cooldown_bars(reason) \in Nat
  BY LimitsAssumption DEF cooldown_bars
<1>2. st.bar_index + cooldown_bars(reason) \in Nat
  BY <1>1 DEF SessionState
<1> DEFINE until == st.bar_index + cooldown_bars(reason)
<1>3. start_cooldown(st, s, reason)
        = [st EXCEPT !.cooldown_until = [st.cooldown_until EXCEPT ![s] = until]]
  BY DEF start_cooldown, SessionState
<1> HIDE DEF until
<1>4. [st.cooldown_until EXCEPT ![s] = until] \in [Symbols -> Nat]
  BY <1>2 DEF SessionState, until
<1> QED
  BY <1>1, <1>3, <1>4 DEF SessionState, until

LEMMA AdvanceType ==
  ASSUME NEW st \in SessionState
  PROVE  /\ advance_bar(st) \in SessionState
         /\ advance_bar(st).bar_index = st.bar_index + 1
         /\ advance_bar(st).trading_day = st.trading_day
         /\ advance_bar(st).day_peak_equity = st.day_peak_equity
         /\ advance_bar(st).halted = st.halted
         /\ \A s \in Symbols : advance_bar(st).cooldown_until[s]
              = IF st.cooldown_until[s] > st.bar_index + 1 THEN st.cooldown_until[s] ELSE 0
<1> DEFINE bar == st.bar_index + 1
           kept == unexpired(st.cooldown_until, bar)
<1>1. /\ kept \in [Symbols -> Nat]
      /\ \A s \in Symbols : kept[s] = IF st.cooldown_until[s] > bar THEN st.cooldown_until[s] ELSE 0
  BY DEF unexpired, SessionState
<1>2. bar \in Nat
  BY DEF SessionState
<1>3. advance_bar(st) = [st EXCEPT !.bar_index = bar, !.cooldown_until = kept]
  BY DEF advance_bar
<1> HIDE DEF bar, kept
<1>4. /\ advance_bar(st) \in SessionState
      /\ advance_bar(st).bar_index = bar
      /\ advance_bar(st).trading_day = st.trading_day
      /\ advance_bar(st).day_peak_equity = st.day_peak_equity
      /\ advance_bar(st).halted = st.halted
      /\ advance_bar(st).cooldown_until = kept
  <2>1. kept \in [Symbols -> Nat]
    BY <1>1
  <2> QED
    BY <2>1, <1>2, <1>3 DEF SessionState
<1> QED
  BY <1>1, <1>4 DEF bar

-----------------------------------------------------------------------------
(* Type correctness.  A bar runs over a session: inside run_forever, once   *)
(* startup() is over, self.session is not None.                             *)

InBar == {"sleep", "gather", "flatten", "deciding", "buying", "ending"}
TypeInv ==
  /\ TypeOK
  /\ pc \in InBar => session \in SessionState
  /\ pc = "buying" => buying \in Symbols

LEMMA TypeInit == Init => TypeInv
BY DEF Init, TypeInv, TypeOK, Place, InBar

LEMMA ExitType ==
  ASSUME TypeInv, NEW s \in Symbols, NEW reason \in ExitReason, Exit(s, reason)
  PROVE  /\ session' \in SessionState \cup {NoSession} /\ saved' \in SessionState \cup {NoSession}
         /\ session \in SessionState => session' \in SessionState
         /\ open' \subseteq Symbols /\ wait' \in [Symbols -> Nat]
         /\ UNCHANGED <<today, buying, seen, unheard>>
<1>1. wait' \in [Symbols -> Nat]
  BY CooldownType, LimitsAssumption DEF Exit, TypeInv, TypeOK, raised_peak, cooldown_bars
<1>2. session \in SessionState => start_cooldown(session, s, reason) \in SessionState
  BY CooldownType
<1> QED
  BY <1>1, <1>2, NullAssumption DEF Exit, TypeInv, TypeOK

LEMMA SeenType ==
  ASSUME TypeInv, NEW e \in Equities
  PROVE  /\ SeenToday(e) \in [day: Nat, peak: Int, breached: BOOLEAN]
         /\ SeenInBar(e) \in [day: Nat, peak: Int, breached: BOOLEAN]
         /\ SeenInBar(e).day = SeenToday(e).day
         /\ SeenInBar(e).peak = raised_peak(SeenToday(e).peak, e)
         /\ SeenInBar(e).breached
              => SeenToday(e).breached \/ limit_reached(raised_peak(SeenToday(e).peak, e), e)
<1>1. SeenToday(e) \in [day: Nat, peak: Int, breached: BOOLEAN]
  BY EquitiesAssumption DEF SeenToday, TypeInv, TypeOK
<1> DEFINE peak == raised_peak(SeenToday(e).peak, e)
           reached == limit_reached(peak, e)
<1>2. peak \in Int /\ reached \in BOOLEAN
  BY <1>1, EquitiesAssumption DEF raised_peak, limit_reached
<1>3. SeenInBar(e) = [SeenToday(e) EXCEPT !.peak = peak, !.breached = SeenToday(e).breached \/ reached]
  BY <1>1 DEF SeenInBar
<1> HIDE DEF peak, reached
<1>4. /\ SeenInBar(e) \in [day: Nat, peak: Int, breached: BOOLEAN]
      /\ SeenInBar(e).day = SeenToday(e).day
      /\ SeenInBar(e).peak = peak
      /\ SeenInBar(e).breached => SeenToday(e).breached \/ reached
  BY <1>1, <1>2, <1>3
<1> QED
  BY <1>1, <1>4 DEF peak, reached

LEMMA TypeStep == TypeInv /\ [Next]_vars => TypeInv'
<1> SUFFICES ASSUME TypeInv, [Next]_vars PROVE TypeInv'
  OBVIOUS
<1> USE DEF Place, InBar
<1>1. CASE Launch \/ StartupFails \/ StartBar \/ Decline \/ BarFails \/ RunEnds \/ Crash \/ Midnight
           \/ FlattenDone \/ UNCHANGED vars
  BY <1>1 DEF Launch, StartupFails, StartBar, Decline, BarFails, RunEnds, Crash, Midnight,
              FlattenDone, TypeInv, TypeOK
<1>2. CASE Startup
  <2>1. PICK e \in Equities, row \in SessionState \cup {NoSession} :
          /\ session' = IF row = NoSession THEN new_session(e, today) ELSE roll_day(row, e, today)
          /\ seen' = SeenToday(e)
    BY <1>2 DEF Startup, TypeInv, TypeOK
  <2>2. session' \in SessionState
    BY <2>1, NewSessionType, RollType DEF TypeInv, TypeOK
  <2> QED
    BY <1>2, <2>1, <2>2, SeenType DEF Startup, TypeInv, TypeOK
<1>3. CASE GotPortfolio
  <2>1. pc = "gather" /\ session \in SessionState /\ session # NoSession
    BY <1>3, NullAssumption DEF GotPortfolio, TypeInv
  <2>2. PICK e \in Equities :
          /\ session' = observe_equity(roll_day(session, e, today), e)
          /\ seen' = SeenInBar(e)
          /\ pc' \in {"flatten", "deciding"}
          /\ saved' \in {saved, session'}
    BY <1>3, <2>1 DEF GotPortfolio
  <2>3. session' \in SessionState
    BY <2>1, <2>2, RollType, ObserveType DEF TypeInv, TypeOK
  <2> QED
    BY <1>3, <2>2, <2>3, SeenType DEF GotPortfolio, TypeInv, TypeOK
<1>4. CASE AdvanceBar
  <2>1. session \in SessionState /\ session' = advance_bar(session)
    BY <1>4 DEF AdvanceBar, TypeInv
  <2>2. wait' \in [Symbols -> Nat] /\ unheard' \in [Symbols -> Nat]
    BY <1>4 DEF AdvanceBar, BarLess, TypeInv, TypeOK
  <2> QED
    BY <1>4, <2>1, <2>2, AdvanceType DEF AdvanceBar, TypeInv, TypeOK
<1>5. CASE BuyReplied
  BY <1>5 DEF BuyReplied, TypeInv, TypeOK
<1>6. ASSUME NEW s \in Symbols, Buy(s)
      PROVE  TypeInv'
  BY <1>6 DEF Buy, TypeInv, TypeOK
<1>7. ASSUME NEW s \in Symbols, NEW reason \in ExitReason, Exit(s, reason),
             pc' = pc \/ (pc = "deciding" /\ pc' = "ending")
      PROVE  TypeInv'
  BY <1>7, ExitType DEF TypeInv, TypeOK
<1>8. ASSUME NEW s \in Symbols, FlattenOne(s) \/ Sell(s)
      PROVE  TypeInv'
  BY <1>7, <1>8 DEF FlattenOne, Sell, ExitReason
<1>9. ASSUME NEW s \in Symbols, NEW reason \in {"stop", "take"}, TickExit(s, reason)
      PROVE  TypeInv'
  BY <1>7, <1>9 DEF TickExit, ExitReason
<1>10. ASSUME NEW s \in Symbols, StopFires(s)
       PROVE  TypeInv'
  <2>1. unheard' \in [Symbols -> Nat] /\ open' \subseteq Symbols
    BY <1>10, LimitsAssumption DEF StopFires, TypeInv, TypeOK, raised_peak, cooldown_bars
  <2> QED
    BY <1>10, <2>1 DEF StopFires, TypeInv, TypeOK
<1> QED
  BY <1>1, <1>2, <1>3, <1>4, <1>5, <1>6, <1>8, <1>9, <1>10 DEF Next

LEMMA TypeInvariant == Spec => []TypeInv
<1> QED
  BY TypeInit, TypeStep, PTL DEF Spec

\* Every reachable state of the session bookkeeping is well typed; no bar
\* counter or cooldown goes below zero.
THEOREM SessionTypeCorrect == Spec => []TypeOK
<1>1. TypeInv => TypeOK
  BY DEF TypeInv
<1> QED
  BY <1>1, TypeInvariant, PTL

-----------------------------------------------------------------------------
(* What a crash would lose.  Only _flatten_all() awaits between a change of *)
(* the session and its save.                                                *)

SavedInv == TypeInv /\ pc # "flatten" /\ NothingToLose

LEMMA SavedStep ==
  ASSUME HaltFlattens = FALSE, SavedInv, [Next]_vars
  PROVE  SavedInv'
<1> USE DEF SavedInv, NothingToLose
<1>1. TypeInv'
  BY TypeStep
<1>2. CASE Launch \/ Startup \/ StartupFails \/ StartBar \/ FlattenDone \/ Decline \/ BuyReplied
           \/ BarFails \/ AdvanceBar \/ RunEnds \/ Crash \/ Midnight \/ UNCHANGED vars
  BY <1>1, <1>2 DEF Launch, Startup, StartupFails, StartBar, FlattenDone, Decline, BuyReplied,
                    BarFails, AdvanceBar, RunEnds, Crash, Midnight
<1>3. CASE GotPortfolio
  BY <1>1, <1>3 DEF GotPortfolio
<1>4. ASSUME NEW s \in Symbols, Buy(s) \/ StopFires(s) PROVE SavedInv'
  BY <1>1, <1>4 DEF Buy, StopFires
<1>5. ASSUME NEW s \in Symbols, FlattenOne(s) \/ Sell(s) PROVE SavedInv'
  BY <1>1, <1>5 DEF FlattenOne, Sell, Exit
<1>6. ASSUME NEW s \in Symbols, NEW reason \in {"stop", "take"}, TickExit(s, reason) PROVE SavedInv'
  BY <1>1, <1>6 DEF TickExit, Exit
<1> QED
  BY <1>2, <1>3, <1>4, <1>5, <1>6 DEF Next

\* With HALT_FLATTENS_POSITIONS off, its default, a crash at any await loses
\* nothing that the session knew.
THEOREM NothingIsLost ==
  ASSUME HaltFlattens = FALSE
  PROVE  Spec => []NothingToLose
<1>1. Init => SavedInv
  BY TypeInit DEF Init, SavedInv, NothingToLose
<1>2. SavedInv /\ [Next]_vars => SavedInv'
  BY SavedStep
<1>3. SavedInv => NothingToLose
  BY DEF SavedInv
<1> QED
  BY <1>1, <1>2, <1>3, PTL DEF Spec

-----------------------------------------------------------------------------
(* The kill-switch.  The row remembers all that the desk has been told of   *)
(* the day: whose peak, and that the limit was reached.                     *)

RowRemembers ==
  saved # NoSession =>
    /\ seen.day = saved.trading_day
    /\ seen.peak = saved.day_peak_equity
    /\ seen.breached => saved.halted

HaltInv == SavedInv /\ RowRemembers

LEMMA StartupRemembers ==
  ASSUME HaltInv, Startup, "corrupt_row" \notin Env
  PROVE  RowRemembers'
<1>1. PICK e \in Equities :
        /\ session' = IF saved = NoSession THEN new_session(e, today) ELSE roll_day(saved, e, today)
        /\ seen' = SeenToday(e)
        /\ saved' = session'
  BY DEF Startup
<1>2. CASE saved = NoSession
  BY <1>1, <1>2 DEF SeenToday, new_session, RowRemembers
<1>3. CASE saved # NoSession
  <2> DEFINE rolled == roll_day(saved, e, today)
  <2>1. saved \in SessionState /\ today \in Nat
    BY <1>3 DEF HaltInv, SavedInv, TypeInv, TypeOK
  <2>2. /\ rolled.trading_day = today
        /\ rolled.day_peak_equity = IF saved.trading_day = today THEN saved.day_peak_equity ELSE e
        /\ rolled.halted = (saved.trading_day = today /\ saved.halted)
    BY <2>1, RollType
  <2>3. saved' = rolled
    BY <1>1, <1>3
  <2> HIDE DEF rolled
  <2>4. /\ seen'.day = today
        /\ seen'.peak = IF saved.trading_day = today THEN saved.day_peak_equity ELSE e
        /\ seen'.breached => saved.trading_day = today /\ saved.halted
    BY <1>1, <1>3 DEF SeenToday, RowRemembers, HaltInv
  <2> QED
    BY <2>2, <2>3, <2>4 DEF RowRemembers
<1> QED
  BY <1>2, <1>3

LEMMA PortfolioRemembers ==
  ASSUME HaltFlattens = FALSE, HaltInv, GotPortfolio
  PROVE  RowRemembers'
<1>1. /\ session \in SessionState /\ session # NoSession /\ saved = session
      /\ today \in Nat
  BY NullAssumption DEF GotPortfolio, HaltInv, SavedInv, NothingToLose, TypeInv, TypeOK, InBar
<1>2. PICK e \in Equities :
        /\ saved' = observe_equity(roll_day(session, e, today), e)
        /\ seen' = SeenInBar(e)
  BY <1>1 DEF GotPortfolio
<1> DEFINE rolled == roll_day(session, e, today)
<1>3. /\ rolled \in SessionState
      /\ rolled.trading_day = today
      /\ rolled.day_peak_equity = IF session.trading_day = today THEN session.day_peak_equity ELSE e
      /\ rolled.halted = (session.trading_day = today /\ session.halted)
  BY <1>1, RollType
<1>4. /\ SeenToday(e).day = rolled.trading_day
      /\ SeenToday(e).peak = rolled.day_peak_equity
      /\ SeenToday(e).breached => rolled.halted
  BY <1>1, <1>3 DEF SeenToday, HaltInv, RowRemembers
<1> HIDE DEF rolled
<1>5. /\ saved'.trading_day = rolled.trading_day
      /\ saved'.day_peak_equity = raised_peak(rolled.day_peak_equity, e)
      /\ rolled.halted => saved'.halted
      /\ limit_reached(raised_peak(rolled.day_peak_equity, e), e) => saved'.halted
  BY <1>2, <1>3, ObserveType DEF rolled
<1>6. /\ seen'.day = SeenToday(e).day
      /\ seen'.peak = raised_peak(SeenToday(e).peak, e)
      /\ seen'.breached
           => SeenToday(e).breached \/ limit_reached(raised_peak(SeenToday(e).peak, e), e)
  BY <1>2, SeenType DEF HaltInv, SavedInv
<1> QED
  BY <1>4, <1>5, <1>6 DEF RowRemembers

LEMMA ExitRemembers ==
  ASSUME HaltInv, NEW s \in Symbols, NEW reason \in ExitReason, Exit(s, reason)
  PROVE  RowRemembers'
<1>1. CASE session = NoSession
  BY <1>1 DEF Exit, HaltInv, RowRemembers
<1>2. CASE session # NoSession
  <2>1. session \in SessionState /\ saved = session
    BY <1>2 DEF HaltInv, SavedInv, NothingToLose, TypeInv, TypeOK
  <2>2. /\ saved'.trading_day = saved.trading_day
        /\ saved'.day_peak_equity = saved.day_peak_equity
        /\ saved'.halted = saved.halted
    BY <1>2, <2>1, CooldownType DEF Exit
  <2> QED
    BY <1>2, <2>1, <2>2 DEF Exit, HaltInv, RowRemembers
<1> QED
  BY <1>1, <1>2

LEMMA HaltStep ==
  ASSUME HaltFlattens = FALSE, "corrupt_row" \notin Env, HaltInv, [Next]_vars
  PROVE  HaltInv'
<1>1. SavedInv'
  BY SavedStep DEF HaltInv
<1>2. CASE Launch \/ StartupFails \/ StartBar \/ Decline \/ BuyReplied \/ BarFails \/ RunEnds
           \/ Crash \/ Midnight \/ UNCHANGED vars
  BY <1>1, <1>2 DEF Launch, StartupFails, StartBar, Decline, BuyReplied, BarFails, RunEnds, Crash,
                    Midnight, HaltInv, RowRemembers
<1>3. CASE Startup
  BY <1>1, <1>3, StartupRemembers DEF HaltInv
<1>4. CASE GotPortfolio
  BY <1>1, <1>4, PortfolioRemembers DEF HaltInv
<1>5. CASE FlattenDone
  BY <1>5 DEF FlattenDone, HaltInv, SavedInv
<1>6. CASE AdvanceBar
  <2>1. session \in SessionState /\ session # NoSession /\ saved = session
    BY <1>6, NullAssumption DEF AdvanceBar, HaltInv, SavedInv, NothingToLose, TypeInv, InBar
  <2>2. /\ saved'.trading_day = saved.trading_day
        /\ saved'.day_peak_equity = saved.day_peak_equity
        /\ saved'.halted = saved.halted
    BY <1>6, <2>1, AdvanceType DEF AdvanceBar
  <2> QED
    BY <1>1, <1>6, <2>1, <2>2 DEF AdvanceBar, HaltInv, RowRemembers
<1>7. ASSUME NEW s \in Symbols, Buy(s) \/ StopFires(s) PROVE HaltInv'
  BY <1>1, <1>7 DEF Buy, StopFires, HaltInv, RowRemembers
<1>8. ASSUME NEW s \in Symbols, FlattenOne(s) \/ Sell(s) PROVE HaltInv'
  BY <1>1, <1>8, ExitRemembers DEF FlattenOne, Sell, HaltInv, ExitReason
<1>9. ASSUME NEW s \in Symbols, NEW reason \in {"stop", "take"}, TickExit(s, reason) PROVE HaltInv'
  BY <1>1, <1>9, ExitRemembers DEF TickExit, HaltInv, ExitReason
<1> QED
  BY <1>2, <1>3, <1>4, <1>5, <1>6, <1>7, <1>8, <1>9 DEF Next

LEMMA HaltRefusesEntry ==
  ASSUME HaltInv, NEW s \in Symbols, Buy(s)
  PROVE  ~seen.breached
BY NullAssumption DEF Buy, HaltInv, SavedInv, NothingToLose, RowRemembers, TypeInv, TypeOK, InBar

\* With HALT_FLATTENS_POSITIONS off and a row that can be read, no BUY goes to
\* the broker between the bar that saw the daily loss limit reached and the
\* next day, across any crashes and relaunches.
THEOREM KillSwitchHolds ==
  ASSUME HaltFlattens = FALSE, "corrupt_row" \notin Env
  PROVE  Spec => NoEntryAfterBreach
<1>1. Init => HaltInv
  BY TypeInit DEF Init, HaltInv, SavedInv, NothingToLose, RowRemembers
<1>2. HaltInv /\ [Next]_vars => HaltInv'
  BY HaltStep
<1>3. HaltInv /\ [Next]_vars => [\A s \in Symbols : Buy(s) => ~seen.breached]_vars
  BY HaltRefusesEntry
<1> QED
  BY <1>1, <1>2, <1>3, PTL DEF Spec, NoEntryAfterBreach

-----------------------------------------------------------------------------
(* The kill-switch while the desk flattens.  Then the row lags behind until *)
(* _flatten_all() is over, or until the bar that it failed in is counted,   *)
(* and memory alone remembers: which is enough as long as the process lives.*)

MemoryRemembers ==
  session # NoSession =>
    /\ seen.day = session.trading_day
    /\ seen.peak = session.day_peak_equity
    /\ seen.breached => session.halted

MemoryInv ==
  /\ TypeInv
  /\ session = NoSession <=> saved = NoSession
  /\ pc \notin {"flatten", "ending"} => saved = session
  /\ MemoryRemembers

LEMMA PortfolioSeen ==
  ASSUME MemoryInv, GotPortfolio
  PROVE  MemoryInv'
<1>1. /\ session \in SessionState /\ session # NoSession /\ saved # NoSession
      /\ today \in Nat
  BY NullAssumption DEF GotPortfolio, MemoryInv, TypeInv, TypeOK, InBar
<1>2. PICK e \in Equities :
        /\ session' = observe_equity(roll_day(session, e, today), e)
        /\ seen' = SeenInBar(e)
        /\ \/ pc' = "flatten" /\ saved' = saved
           \/ pc' = "deciding" /\ saved' = session'
  BY <1>1 DEF GotPortfolio
<1> DEFINE rolled == roll_day(session, e, today)
<1>3. /\ rolled \in SessionState
      /\ rolled.trading_day = today
      /\ rolled.day_peak_equity = IF session.trading_day = today THEN session.day_peak_equity ELSE e
      /\ rolled.halted = (session.trading_day = today /\ session.halted)
  BY <1>1, RollType
<1>4. /\ SeenToday(e).day = rolled.trading_day
      /\ SeenToday(e).peak = rolled.day_peak_equity
      /\ SeenToday(e).breached => rolled.halted
  BY <1>1, <1>3 DEF SeenToday, MemoryInv, MemoryRemembers
<1>5. session' = observe_equity(rolled, e)
  BY <1>2
<1> HIDE DEF rolled
<1>6. /\ session'.trading_day = rolled.trading_day
      /\ session'.day_peak_equity = raised_peak(rolled.day_peak_equity, e)
      /\ rolled.halted => session'.halted
      /\ limit_reached(raised_peak(rolled.day_peak_equity, e), e) => session'.halted
  BY <1>3, <1>5, ObserveType
<1>7. /\ seen'.day = SeenToday(e).day
      /\ seen'.peak = raised_peak(SeenToday(e).peak, e)
      /\ seen'.breached
           => SeenToday(e).breached \/ limit_reached(raised_peak(SeenToday(e).peak, e), e)
  BY <1>2, SeenType DEF MemoryInv
<1>8. MemoryRemembers'
  BY <1>4, <1>6, <1>7 DEF MemoryRemembers
<1>9. TypeInv' /\ session' # NoSession
  <2>1. TypeInv'
    BY TypeStep DEF Next, MemoryInv
  <2> QED
    BY <1>3, <1>5, <2>1, ObserveType, NullAssumption
<1> QED
  BY <1>1, <1>2, <1>8, <1>9 DEF MemoryInv

LEMMA StartupSeen ==
  ASSUME MemoryInv, Startup, "corrupt_row" \notin Env
  PROVE  MemoryInv'
<1>1. PICK e \in Equities :
        /\ session' = IF saved = NoSession THEN new_session(e, today) ELSE roll_day(saved, e, today)
        /\ seen' = SeenToday(e)
        /\ saved' = session'
  BY DEF Startup
<1>2. TypeInv'
  BY TypeStep DEF Next, MemoryInv
<1>3. saved = session
  BY DEF Startup, MemoryInv
<1>4. MemoryRemembers'
  <2>1. CASE saved = NoSession
    BY <1>1, <2>1 DEF SeenToday, new_session, MemoryRemembers
  <2>2. CASE saved # NoSession
    BY <1>1, <1>3, <2>2, RollType
       DEF SeenToday, MemoryRemembers, MemoryInv, TypeInv, TypeOK
  <2> QED
    BY <2>1, <2>2
<1> QED
  BY <1>1, <1>2, <1>4 DEF MemoryInv

LEMMA ExitSeen ==
  ASSUME MemoryInv, TypeInv', NEW s \in Symbols, NEW reason \in ExitReason, Exit(s, reason),
         pc' = pc \/ pc' = "ending"
  PROVE  MemoryInv'
<1>1. CASE session = NoSession
  BY <1>1 DEF Exit, MemoryInv, MemoryRemembers
<1>2. CASE session # NoSession
  <2>1. session \in SessionState
    BY <1>2 DEF MemoryInv, TypeInv, TypeOK
  <2>2. /\ session' \in SessionState /\ saved' = session' /\ seen' = seen
        /\ session'.trading_day = session.trading_day
        /\ session'.day_peak_equity = session.day_peak_equity
        /\ session'.halted = session.halted
    BY <1>2, <2>1, CooldownType DEF Exit
  <2> QED
    BY <1>2, <2>2, NullAssumption DEF MemoryInv, MemoryRemembers
<1> QED
  BY <1>1, <1>2

LEMMA MemoryStep ==
  ASSUME {"crash", "corrupt_row"} \cap Env = {}, MemoryInv, [Next]_vars
  PROVE  MemoryInv'
<1>1. TypeInv'
  BY TypeStep DEF MemoryInv
<1>2. CASE Launch \/ StartupFails \/ StartBar \/ Decline \/ BuyReplied \/ BarFails \/ RunEnds
           \/ Midnight \/ UNCHANGED vars
  BY <1>1, <1>2 DEF Launch, StartupFails, StartBar, Decline, BuyReplied, BarFails, RunEnds,
                    Midnight, MemoryInv, MemoryRemembers
<1>3. CASE Startup
  BY <1>3, StartupSeen
<1>4. CASE GotPortfolio
  BY <1>4, PortfolioSeen
<1>5. CASE FlattenDone
  BY <1>1, <1>5 DEF FlattenDone, MemoryInv, MemoryRemembers
<1>6. CASE AdvanceBar
  <2>1. session \in SessionState /\ session # NoSession
    BY <1>6, NullAssumption DEF AdvanceBar, MemoryInv, TypeInv, InBar
  <2>2. /\ session' \in SessionState /\ saved' = session' /\ seen' = seen
        /\ session'.trading_day = session.trading_day
        /\ session'.day_peak_equity = session.day_peak_equity
        /\ session'.halted = session.halted
    BY <1>6, <2>1, AdvanceType DEF AdvanceBar
  <2> QED
    BY <1>1, <2>1, <2>2, NullAssumption DEF MemoryInv, MemoryRemembers
<1>7. ASSUME NEW s \in Symbols, Buy(s) \/ StopFires(s) PROVE MemoryInv'
  BY <1>1, <1>7 DEF Buy, StopFires, MemoryInv, MemoryRemembers
<1>8. ASSUME NEW s \in Symbols, FlattenOne(s) \/ Sell(s) PROVE MemoryInv'
  BY <1>1, <1>8, ExitSeen DEF FlattenOne, Sell, ExitReason
<1>9. ASSUME NEW s \in Symbols, NEW reason \in {"stop", "take"}, TickExit(s, reason) PROVE MemoryInv'
  BY <1>1, <1>9, ExitSeen DEF TickExit, ExitReason
<1>10. ~Crash
  BY DEF Crash
<1> QED
  BY <1>2, <1>3, <1>4, <1>5, <1>6, <1>7, <1>8, <1>9, <1>10 DEF Next

\* With HALT_FLATTENS_POSITIONS on as well, no BUY goes to the broker between
\* the bar that saw the daily loss limit reached and the next day, whatever
\* fails while the desk flattens and however often it is relaunched, as long
\* as the process lives and the row can be read.
THEOREM KillSwitchFlattens ==
  ASSUME {"crash", "corrupt_row"} \cap Env = {}
  PROVE  Spec => NoEntryAfterBreach
<1>1. Init => MemoryInv
  BY TypeInit DEF Init, MemoryInv, MemoryRemembers
<1>2. MemoryInv /\ [Next]_vars => MemoryInv'
  BY MemoryStep
<1>3. MemoryInv /\ [Next]_vars => [\A s \in Symbols : Buy(s) => ~seen.breached]_vars
  BY NullAssumption DEF Buy, MemoryInv, MemoryRemembers, TypeInv, InBar
<1> QED
  BY <1>1, <1>2, <1>3, PTL DEF Spec, NoEntryAfterBreach

-----------------------------------------------------------------------------
(* A halt is sticky.  What the code makes of a session is of its day or a   *)
(* later one, and halted if it is of the same day; memory succeeds the row. *)

Succeeds(row, state) ==
  /\ row.trading_day <= state.trading_day
  /\ row.halted => state.halted \/ state.trading_day # row.trading_day

LEMMA SuccessionChains ==
  ASSUME NEW a \in SessionState, NEW b \in SessionState, NEW c \in SessionState,
         Succeeds(a, b), Succeeds(b, c)
  PROVE  Succeeds(a, c)
BY DEF Succeeds, SessionState

LEMMA RollSucceeds ==
  ASSUME NEW st \in SessionState, NEW e \in Equities, NEW day \in Nat, st.trading_day <= day
  PROVE  Succeeds(st, roll_day(st, e, day))
BY RollType DEF Succeeds, SessionState

LEMMA SameDaySucceeds ==
  ASSUME NEW st \in SessionState, NEW next \in SessionState,
         next.trading_day = st.trading_day, st.halted => next.halted
  PROVE  Succeeds(st, next)
BY DEF Succeeds, SessionState

StickyInv ==
  /\ TypeInv
  /\ saved # NoSession => saved.trading_day <= today
  /\ session # NoSession => session.trading_day <= today
  /\ session # NoSession /\ saved # NoSession => Succeeds(saved, session)

\* What a step may do to memory and row: the row is replaced by a session that
\* succeeds it, which is then what memory holds.
LEMMA RowReplaced ==
  ASSUME StickyInv, TypeInv', NEW next \in SessionState, session' = next, today' = today,
         next.trading_day <= today, saved # NoSession => Succeeds(saved, next),
         saved' \in {saved, next}
  PROVE  StickyInv' /\ (saved # NoSession => Succeeds(saved, saved'))
<1>1. next # NoSession
  BY NullAssumption
<1>2. saved # NoSession => saved \in SessionState /\ Succeeds(saved, saved)
  BY SameDaySucceeds DEF StickyInv, TypeInv, TypeOK
<1>3. Succeeds(next, next)
  BY SameDaySucceeds
<1>4. CASE saved' = saved
  BY <1>1, <1>2, <1>4 DEF StickyInv, Succeeds
<1>5. CASE saved' = next
  BY <1>1, <1>3, <1>5 DEF StickyInv, Succeeds
<1> QED BY <1>4, <1>5

\* Memory moves on to a session that succeeds it.
LEMMA MemoryMovesOn ==
  ASSUME StickyInv, TypeInv', session \in SessionState, NEW next \in SessionState,
         Succeeds(session, next), next.trading_day <= today,
         session' = next, today' = today, saved' \in {saved, next}
  PROVE  StickyInv' /\ (saved # NoSession => Succeeds(saved, saved'))
<1>1. session # NoSession
  BY NullAssumption
<1>2. ASSUME saved # NoSession PROVE Succeeds(saved, next)
  <2>1. saved \in SessionState /\ Succeeds(saved, session)
    BY <1>1, <1>2 DEF StickyInv, TypeInv, TypeOK
  <2> QED BY <2>1, SuccessionChains
<1> QED BY <1>2, RowReplaced

LEMMA ExitSticks ==
  ASSUME StickyInv, TypeInv', NEW s \in Symbols, NEW reason \in ExitReason, Exit(s, reason)
  PROVE  StickyInv' /\ (saved # NoSession => Succeeds(saved, saved'))
<1>1. CASE session = NoSession
  <2>1. saved # NoSession => Succeeds(saved, saved)
    BY SameDaySucceeds DEF StickyInv, TypeInv, TypeOK
  <2> QED BY <1>1, <2>1 DEF Exit, StickyInv, Succeeds
<1>2. CASE session # NoSession
  <2>1. session \in SessionState
    BY <1>2 DEF StickyInv, TypeInv, TypeOK
  <2>2. PICK next : next = start_cooldown(session, s, reason)
    OBVIOUS
  <2>3. next \in SessionState /\ next.trading_day = session.trading_day /\ next.halted = session.halted
    BY <2>1, <2>2, CooldownType
  <2>4. Succeeds(session, next) /\ next.trading_day <= today
    BY <1>2, <2>1, <2>3, SameDaySucceeds DEF StickyInv
  <2>5. session' = next /\ saved' = next /\ today' = today
    BY <1>2, <2>2 DEF Exit
  <2> QED BY <2>1, <2>3, <2>4, <2>5, MemoryMovesOn
<1> QED BY <1>1, <1>2

LEMMA StickyStep ==
  ASSUME "corrupt_row" \notin Env, StickyInv, [Next]_vars
  PROVE  StickyInv' /\ (saved # NoSession => Succeeds(saved, saved'))
<1>1. TypeInv'
  BY TypeStep DEF StickyInv
<1>2. (saved # NoSession => Succeeds(saved, saved)) /\ today \in Nat
  BY SameDaySucceeds DEF StickyInv, TypeInv, TypeOK
<1>3. CASE Launch \/ StartupFails \/ StartBar \/ Decline \/ BuyReplied \/ BarFails \/ RunEnds
           \/ UNCHANGED vars
  <2>1. UNCHANGED <<today, session, saved>>
    BY <1>3 DEF Launch, StartupFails, StartBar, Decline, BuyReplied, BarFails, RunEnds
  <2> QED BY <1>1, <1>2, <2>1 DEF StickyInv, Succeeds
<1>4. CASE Crash
  <2>1. session' = NoSession /\ saved' = saved /\ today' = today
    BY <1>4 DEF Crash
  <2> QED BY <1>1, <1>2, <2>1 DEF StickyInv
<1>5. CASE Midnight
  <2>1. session' = session /\ saved' = saved /\ today' = today + 1
    BY <1>5 DEF Midnight
  <2>2. /\ session # NoSession => session.trading_day \in Nat
        /\ saved # NoSession => saved.trading_day \in Nat
    BY DEF StickyInv, TypeInv, TypeOK, SessionState
  <2>3. /\ session # NoSession => session.trading_day <= today + 1
        /\ saved # NoSession => saved.trading_day <= today + 1
    BY <1>2, <2>2 DEF StickyInv
  <2> QED BY <1>1, <1>2, <2>1, <2>3 DEF StickyInv, Succeeds
<1>6. CASE Startup
  <2>1. PICK e \in Equities :
          /\ session' = IF saved = NoSession THEN new_session(e, today) ELSE roll_day(saved, e, today)
          /\ saved' = session' /\ today' = today
    BY <1>6 DEF Startup
  <2>2. PICK next : next = session'
    OBVIOUS
  <2>3. /\ next \in SessionState /\ next.trading_day = today
        /\ saved # NoSession => Succeeds(saved, next)
    <3>1. CASE saved = NoSession
      <4>1. next = new_session(e, today)
        BY <2>1, <2>2, <3>1
      <4>2. next.trading_day = today
        BY <4>1 DEF new_session
      <4> QED BY <1>2, <3>1, <4>1, <4>2, NewSessionType
    <3>2. CASE saved # NoSession
      <4>1. saved \in SessionState /\ saved.trading_day <= today /\ next = roll_day(saved, e, today)
        BY <2>1, <2>2, <3>2 DEF StickyInv, TypeInv, TypeOK
      <4> QED BY <1>2, <4>1, RollType, RollSucceeds
    <3> QED BY <3>1, <3>2
  <2>4. next.trading_day <= today
    BY <1>2, <2>3
  <2> QED BY <1>1, <2>1, <2>2, <2>3, <2>4, RowReplaced
<1>7. CASE GotPortfolio
  <2>1. session \in SessionState /\ session # NoSession /\ session.trading_day <= today
    BY <1>7, NullAssumption DEF GotPortfolio, StickyInv, TypeInv, InBar
  <2>2. PICK e \in Equities :
          /\ session' = observe_equity(roll_day(session, e, today), e)
          /\ saved' \in {saved, session'} /\ today' = today
    BY <1>7, <2>1 DEF GotPortfolio
  <2>3. PICK rolled : rolled = roll_day(session, e, today)
    OBVIOUS
  <2>4. rolled \in SessionState /\ rolled.trading_day = today /\ Succeeds(session, rolled)
    BY <1>2, <2>1, <2>3, RollType, RollSucceeds
  <2>5. PICK next : next = observe_equity(rolled, e)
    OBVIOUS
  <2>6. next \in SessionState /\ next.trading_day = today /\ Succeeds(rolled, next)
    BY <2>4, <2>5, ObserveType, SameDaySucceeds
  <2>7. Succeeds(session, next) /\ next.trading_day <= today
    BY <1>2, <2>1, <2>4, <2>6, SuccessionChains
  <2>8. session' = next /\ saved' \in {saved, next}
    BY <2>2, <2>3, <2>5
  <2> QED BY <1>1, <2>1, <2>2, <2>6, <2>7, <2>8, MemoryMovesOn
<1>8. CASE FlattenDone
  <2>1. session \in SessionState /\ session # NoSession /\ session.trading_day <= today
    BY <1>8, NullAssumption DEF FlattenDone, StickyInv, TypeInv, InBar
  <2>2. PICK next : next = session
    OBVIOUS
  <2>3. Succeeds(session, next)
    BY <2>1, <2>2, SameDaySucceeds
  <2>4. session' = next /\ saved' = next /\ today' = today
    BY <1>8, <2>2 DEF FlattenDone
  <2> QED BY <1>1, <2>1, <2>2, <2>3, <2>4, MemoryMovesOn
<1>9. CASE AdvanceBar
  <2>1. session \in SessionState /\ session # NoSession /\ session.trading_day <= today
    BY <1>9, NullAssumption DEF AdvanceBar, StickyInv, TypeInv, InBar
  <2>2. PICK next : next = advance_bar(session)
    OBVIOUS
  <2>3. next \in SessionState /\ next.trading_day = session.trading_day /\ next.halted = session.halted
    BY <2>1, <2>2, AdvanceType
  <2>4. Succeeds(session, next) /\ next.trading_day <= today
    BY <2>1, <2>3, SameDaySucceeds
  <2>5. session' = next /\ saved' = next /\ today' = today
    BY <1>9, <2>2 DEF AdvanceBar
  <2> QED BY <1>1, <2>1, <2>3, <2>4, <2>5, MemoryMovesOn
<1>10. ASSUME NEW s \in Symbols, Buy(s) \/ StopFires(s)
       PROVE  StickyInv' /\ (saved # NoSession => Succeeds(saved, saved'))
  <2>1. UNCHANGED <<today, session, saved>>
    BY <1>10 DEF Buy, StopFires
  <2> QED BY <1>1, <1>2, <2>1 DEF StickyInv, Succeeds
<1>11. ASSUME NEW s \in Symbols, FlattenOne(s) \/ Sell(s)
       PROVE  StickyInv' /\ (saved # NoSession => Succeeds(saved, saved'))
  BY <1>1, <1>11, ExitSticks DEF FlattenOne, Sell, ExitReason
<1>12. ASSUME NEW s \in Symbols, NEW reason \in {"stop", "take"}, TickExit(s, reason)
       PROVE  StickyInv' /\ (saved # NoSession => Succeeds(saved, saved'))
  BY <1>1, <1>12, ExitSticks DEF TickExit, ExitReason
<1> QED
  BY <1>3, <1>4, <1>5, <1>6, <1>7, <1>8, <1>9, <1>10, <1>11, <1>12 DEF Next

\* With a row that can be read a halted session is only ever replaced by a
\* halted one or by one of another day, even while _flatten_all() has not
\* saved the halt yet (startup, observe_equity, roll_day).
THEOREM HaltSticks ==
  ASSUME "corrupt_row" \notin Env
  PROVE  Spec => HaltIsSticky
<1> DEFINE Kept == saved # NoSession /\ saved.halted
                     => saved'.halted \/ saved'.trading_day # saved.trading_day
<1>1. Init => StickyInv
  BY TypeInit DEF Init, StickyInv
<1>2. StickyInv /\ [Next]_vars => StickyInv'
  BY StickyStep
<1>3. StickyInv /\ [Next]_vars => [Kept]_vars
  BY StickyStep DEF Succeeds
<1> QED
  BY <1>1, <1>2, <1>3, PTL DEF Spec, HaltIsSticky

-----------------------------------------------------------------------------
(* Cooldowns.  The row holds, for every symbol, at least the bars it still  *)
(* has to sit out, and memory counts and cools as the row does.             *)

RowCools ==
  \A s \in Symbols : wait[s] > 0 =>
    saved # NoSession /\ saved.bar_index + wait[s] <= saved.cooldown_until[s]

CoolInv ==
  /\ TypeInv
  /\ RowCools
  /\ session # NoSession => /\ saved # NoSession
                            /\ session.bar_index = saved.bar_index
                            /\ session.cooldown_until = saved.cooldown_until
  /\ \A s \in open : wait[s] = 0
  /\ pc = "buying" => wait[buying] = 0

LEMMA ExitCools ==
  ASSUME CoolInv, session \in SessionState, NEW s \in Symbols, NEW reason \in ExitReason,
         Exit(s, reason), pc' # "buying", TypeInv'
  PROVE  CoolInv'
<1>1. /\ session # NoSession /\ saved \in SessionState /\ wait[s] = 0
      /\ session.bar_index = saved.bar_index
      /\ session.cooldown_until = saved.cooldown_until
  BY NullAssumption DEF Exit, CoolInv, TypeInv, TypeOK
<1> DEFINE cooled == start_cooldown(session, s, reason)
<1>2. /\ cooled \in SessionState
      /\ cooled.bar_index = session.bar_index
      /\ cooled.cooldown_until[s] = session.bar_index + cooldown_bars(reason)
      /\ \A r \in Symbols : r # s => cooled.cooldown_until[r] = session.cooldown_until[r]
      /\ cooldown_bars(reason) \in Nat
  BY CooldownType
<1> HIDE DEF cooled
<1>3. session' = cooled /\ saved' = cooled /\ open' = open \ {s}
  BY <1>1 DEF Exit, cooled
<1>4. /\ wait \in [Symbols -> Nat]
      /\ wait' = [wait EXCEPT ![s] = cooldown_bars(reason)]
  <2>1. raised_peak(wait[s], cooldown_bars(reason)) = cooldown_bars(reason)
    BY <1>1, <1>2 DEF raised_peak
  <2>2. wait' = [wait EXCEPT ![s] = raised_peak(wait[s], cooldown_bars(reason))]
    BY DEF Exit
  <2> QED
    BY <2>1, <2>2 DEF CoolInv, TypeInv, TypeOK
<1>5. RowCools'
  BY <1>1, <1>2, <1>3, <1>4, NullAssumption DEF CoolInv, RowCools, SessionState
<1>6. \A r \in open' : wait'[r] = 0
  BY <1>3, <1>4 DEF CoolInv, TypeInv, TypeOK
<1> QED
  BY <1>2, <1>3, <1>5, <1>6, NullAssumption DEF CoolInv

LEMMA CoolStep ==
  ASSUME "stream" \notin Env, "corrupt_row" \notin Env, CoolInv, [Next]_vars
  PROVE  CoolInv'
<1>1. TypeInv'
  BY TypeStep DEF CoolInv
<1>2. CASE Launch \/ StartupFails \/ StartBar \/ Decline \/ BarFails \/ RunEnds \/ Crash
           \/ Midnight \/ UNCHANGED vars
  BY <1>1, <1>2 DEF Launch, StartupFails, StartBar, Decline, BarFails, RunEnds, Crash, Midnight,
                    CoolInv, RowCools
<1>10. CASE FlattenDone
  <2>1. session # NoSession
    BY <1>10, NullAssumption DEF FlattenDone, CoolInv, TypeInv, InBar
  <2> QED
    BY <1>1, <1>10, <2>1 DEF FlattenDone, CoolInv, RowCools
<1>3. CASE Startup
  <2>1. PICK e \in Equities :
          /\ session' = IF saved = NoSession THEN new_session(e, today) ELSE roll_day(saved, e, today)
          /\ saved' = session'
    BY <1>3 DEF Startup
  <2>2. saved' # NoSession
    BY <2>1, NewSessionType, RollType, NullAssumption DEF CoolInv, TypeInv, TypeOK
  <2>3. saved # NoSession => /\ saved'.bar_index = saved.bar_index
                             /\ saved'.cooldown_until = saved.cooldown_until
    BY <2>1, RollType DEF CoolInv, TypeInv, TypeOK
  <2> QED
    BY <1>1, <1>3, <2>1, <2>2, <2>3 DEF Startup, CoolInv, RowCools
<1>4. CASE GotPortfolio
  <2>1. session \in SessionState /\ session # NoSession
    BY <1>4, NullAssumption DEF GotPortfolio, CoolInv, TypeInv, InBar
  <2>2. PICK e \in Equities :
          /\ session' = observe_equity(roll_day(session, e, today), e)
          /\ saved' \in {saved, session'}
          /\ pc' # "buying"
    BY <1>4, <2>1 DEF GotPortfolio
  <2>3. /\ session' # NoSession
        /\ session'.bar_index = session.bar_index
        /\ session'.cooldown_until = session.cooldown_until
    <3> DEFINE rolled == roll_day(session, e, today)
    <3>1. /\ rolled \in SessionState
          /\ rolled.bar_index = session.bar_index
          /\ rolled.cooldown_until = session.cooldown_until
      BY <2>1, RollType DEF CoolInv, TypeInv, TypeOK
    <3>2. session' = observe_equity(rolled, e)
      BY <2>2
    <3> HIDE DEF rolled
    <3> QED
      BY <3>1, <3>2, ObserveType, NullAssumption
  <2> QED
    BY <1>1, <1>4, <2>1, <2>2, <2>3 DEF GotPortfolio, CoolInv, RowCools
<1>5. CASE BuyReplied
  BY <1>1, <1>5 DEF BuyReplied, CoolInv, RowCools
<1>6. CASE AdvanceBar
  <2>1. /\ session \in SessionState /\ session # NoSession /\ saved \in SessionState
        /\ session.bar_index = saved.bar_index
        /\ session.cooldown_until = saved.cooldown_until
    BY <1>6, NullAssumption DEF AdvanceBar, CoolInv, TypeInv, TypeOK, InBar
  <2> DEFINE next == advance_bar(session)
  <2>2. /\ next \in SessionState
        /\ next.bar_index = session.bar_index + 1
        /\ \A s \in Symbols : next.cooldown_until[s]
             = IF session.cooldown_until[s] > session.bar_index + 1
               THEN session.cooldown_until[s] ELSE 0
    BY <2>1, AdvanceType
  <2> HIDE DEF next
  <2>3. session' = next /\ saved' = next /\ open' = open /\ pc' = "sleep"
    BY <1>6 DEF AdvanceBar, next
  <2>4. /\ wait \in [Symbols -> Nat]
        /\ \A s \in Symbols : wait'[s] = IF wait[s] > 0 THEN wait[s] - 1 ELSE 0
    BY <1>6 DEF AdvanceBar, BarLess, CoolInv, TypeInv, TypeOK
  <2>5. RowCools'
    <3> SUFFICES ASSUME NEW s \in Symbols, wait'[s] > 0
                 PROVE  saved' # NoSession /\ saved'.bar_index + wait'[s] <= saved'.cooldown_until[s]
      BY DEF RowCools
    <3>1. wait[s] \in Nat /\ wait[s] > 1 /\ wait'[s] = wait[s] - 1
      BY <2>4
    <3>2. saved.bar_index + wait[s] <= saved.cooldown_until[s]
      BY <3>1 DEF CoolInv, RowCools
    <3>3. saved.bar_index \in Nat /\ saved.cooldown_until[s] \in Nat
      BY <2>1 DEF SessionState
    <3> QED
      BY <2>1, <2>2, <2>3, <3>1, <3>2, <3>3, NullAssumption
  <2>6. \A s \in open' : wait'[s] = 0
    BY <2>3, <2>4 DEF CoolInv, TypeInv, TypeOK
  <2> QED
    BY <1>1, <2>2, <2>3, <2>5, <2>6, NullAssumption DEF CoolInv
<1>7. ASSUME NEW s \in Symbols, Buy(s) PROVE CoolInv'
  <2>1. session \in SessionState /\ session # NoSession /\ saved \in SessionState
    BY <1>7, NullAssumption DEF Buy, CoolInv, TypeInv, TypeOK, InBar
  <2>2. wait[s] = 0
    BY <1>7, <2>1 DEF Buy, cooling_down, CoolInv, RowCools, TypeInv, TypeOK, SessionState
  <2> QED
    BY <1>1, <1>7, <2>2 DEF Buy, CoolInv, RowCools
<1>8. ASSUME NEW s \in Symbols, FlattenOne(s) \/ Sell(s) PROVE CoolInv'
  BY <1>1, <1>8, ExitCools DEF FlattenOne, Sell, CoolInv, TypeInv, InBar, ExitReason
<1>9. ASSUME NEW s \in Symbols, NEW reason \in {"stop", "take"}, TickExit(s, reason) PROVE CoolInv'
  BY <1>1, <1>9, ExitCools DEF TickExit, CoolInv, TypeInv, InBar, ExitReason
<1>11. ASSUME NEW s \in Symbols, StopFires(s) PROVE CoolInv'
  BY <1>1, <1>11 DEF StopFires, CoolInv, RowCools
<1> QED
  BY <1>2, <1>3, <1>4, <1>5, <1>6, <1>7, <1>8, <1>9, <1>10, <1>11 DEF Next

LEMMA CoolRefusesEntry ==
  ASSUME CoolInv, NEW s \in Symbols, Buy(s)
  PROVE  wait[s] = 0
<1>1. session \in SessionState /\ session # NoSession /\ saved \in SessionState
  BY NullAssumption DEF Buy, CoolInv, TypeInv, TypeOK, InBar
<1> QED
  BY <1>1 DEF Buy, cooling_down, CoolInv, RowCools, TypeInv, TypeOK, SessionState

\* While stops are only ticked by the loop itself, and the row can be read, a
\* symbol is never bought before the cooldown of an exit that _on_exit() was
\* told of is over, whatever crashes, relaunches and midnights come in between.
\* Nothing of the kind holds of a position that its resting stop sold.
THEOREM CooldownHolds ==
  ASSUME "stream" \notin Env, "corrupt_row" \notin Env
  PROVE  Spec => CooldownHonoured
<1>1. Init => CoolInv
  BY TypeInit DEF Init, CoolInv, RowCools
<1>2. CoolInv /\ [Next]_vars => CoolInv'
  BY CoolStep
<1>3. CoolInv /\ [Next]_vars => [\A s \in Symbols : Buy(s) => wait[s] = 0]_vars
  BY CoolRefusesEntry
<1> QED
  BY <1>1, <1>2, <1>3, PTL DEF Spec, CooldownHonoured

=============================================================================
