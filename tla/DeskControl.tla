----------------------------- MODULE DeskControl -----------------------------
(***************************************************************************)
(* Who drives the desk, and what the dashboard can do to it: run_forever() *)
(* and _gather() of loop.py, serve() of __main__.py, and the two routes of *)
(* web/app.py that write.  Every run of run_forever is a task; the HTTP    *)
(* handlers and the server's shutdown run between any two of its awaits    *)
(* and share the loop's attributes with it.                                *)
(*                                                                         *)
(* A bar is its awaits: bars, news, one price for each tracked position,   *)
(* then everything up to the order as one.  What a bar decides, and when a *)
(* position closes, is left open.                                          *)
(*                                                                         *)
(* Env: "startup_fails"  get_portfolio() raises in startup();              *)
(*      "double_start"   a second Start is handled before the task that    *)
(*                       the first one created has run;                    *)
(*      "feed_outage"    latest_price() answers 0, or raises.              *)
(***************************************************************************)
EXTENDS Integers, FiniteSets, Sequences

CONSTANTS Symbols,       \* UNIVERSE
          Watchlists,    \* the lists the dashboard may post
          Runs,          \* bound: the runs that may be launched
          MaxBars,       \* --max-bars
          TimeBudget,    \* whether there is a --max-minutes
          FeedBars,      \* how often the feed can advance
          MaxEdits,      \* bound: writes of the watchlist
          Env,
          NoSymbol

ASSUME ControlAssumption ==
  /\ Watchlists \subseteq Seq(Symbols) /\ NoSymbol \notin Symbols
  /\ Runs # {} /\ MaxBars \in Nat \ {0} /\ {FeedBars, MaxEdits} \subseteq Nat /\ TimeBudget \in BOOLEAN
  /\ Env \subseteq {"startup_fails", "double_start", "feed_outage"}

VARIABLES desk,     \* the attributes of TradingLoop
          run,      \* the tasks of run_forever with their locals
          server,   \* the locals of serve()
          tracked,  \* StopManager.positions
          feed,     \* bars the feed still has
          edits,    \* bound: writes of the watchlist so far
          ticked,   \* the symbol that was fed a price in the last step
          past      \* history: orders sent since the pause, marks that were not
                    \* of their own symbol

vars == <<desk, run, server, tracked, feed, edits, ticked, past>>

PC == {"unlaunched", "created", "startup", "bars", "news", "tick", "decide", "sleep", "ended"}
Why == {"none", "stopped", "time", "bars", "feed", "price", "raised"}
Run == [pc: PC, first_bar: Nat, made: Nat, why: Why,
        bars: Seq(Symbols), news: Seq(Symbols),
        todo: SUBSET Symbols, deciding: BOOLEAN, features: SUBSET Symbols]
Desk == [running: BOOLEAN, paused: BOOLEAN, deadline: {"none", "ahead", "past"},
         bar_count: Nat, symbols: Watchlists]

FirstRun == CHOOSE r \in Runs : TRUE
Active(r) == run[r].pc \notin {"unlaunched", "created", "ended"}
shorter(a, b) == IF Len(a) <= Len(b) THEN a ELSE b

-----------------------------------------------------------------------------
(* run_forever                                                             *)

Init ==
  /\ desk \in {[running |-> FALSE, paused |-> FALSE, deadline |-> "none", bar_count |-> 0,
                symbols |-> w] : w \in Watchlists}
  /\ run = [r \in Runs |->
              [pc |-> IF r = FirstRun THEN "created" ELSE "unlaunched",
               first_bar |-> 0, made |-> 0, why |-> "none", bars |-> <<>>, news |-> <<>>,
               todo |-> {}, deciding |-> FALSE, features |-> {}]]
  /\ server \in [state: {"serving"}, trading: {FirstRun}]
  /\ tracked \in SUBSET Symbols
  /\ feed = FeedBars
  /\ edits = 0
  /\ ticked = NoSymbol
  /\ past = [late |-> 0, crossed |-> FALSE]

ended(l, why) == [l EXCEPT !.pc = "ended", !.why = why, !.todo = {}, !.bars = <<>>, !.news = <<>>,
                           !.features = {}]

\* Mutant: a run that ends leaves the flag as it is.
End_silent(r, l, why) ==
  /\ run' = [run EXCEPT ![r] = ended(l, why)]
  /\ UNCHANGED desk

\* The finally clause of a run.
End(r, l, why) ==
  /\ run' = [run EXCEPT ![r] = ended(l, why)]
  /\ desk' = [desk EXCEPT !.running = FALSE]

\* Mutant: the bars of earlier runs count.
RunStarts_at_zero(r) ==
  /\ run[r].pc = "created"
  /\ run' = [run EXCEPT ![r] = [@ EXCEPT !.pc = "startup"]]
  /\ desk' = [desk EXCEPT !.running = TRUE, !.deadline = IF TimeBudget THEN "ahead" ELSE "none"]
  /\ UNCHANGED <<server, tracked, feed, edits, past>>

\* Up to the await in startup().
RunStarts(r) ==
  /\ run[r].pc = "created"
  /\ run' = [run EXCEPT ![r] = [@ EXCEPT !.pc = "startup", !.first_bar = desk.bar_count]]
  /\ desk' = [desk EXCEPT !.running = TRUE, !.deadline = IF TimeBudget THEN "ahead" ELSE "none"]
  /\ UNCHANGED <<server, tracked, feed, edits, past>>

\* startup() is not inside the try: the flag stays set.
StartupRaises(r) ==
  /\ "startup_fails" \in Env /\ run[r].pc = "startup"
  /\ run' = [run EXCEPT ![r] = ended(@, "raised")]
  /\ UNCHANGED <<desk, server, tracked, feed, edits, past>>

\* _tick_stops() over the positions there are; it ends at once if there are
\* none.
ticking(l, deciding, features) ==
  [l EXCEPT !.pc = "tick", !.todo = tracked, !.deciding = deciding, !.features = features,
            !.bars = <<>>, !.news = <<>>]

\* Mutants: a paused desk that watches nothing, or that goes on deciding.
Rest_idle(r, l) == run' = [run EXCEPT ![r] = [@ EXCEPT !.pc = "sleep"]] /\ UNCHANGED desk
Rest_deciding(r, l) ==
  /\ run' = [run EXCEPT ![r] = [l EXCEPT !.pc = "bars", !.bars = desk.symbols, !.made = @ + 1]]
  /\ desk' = [desk EXCEPT !.bar_count = @ + 1]

\* A paused turn: no new decisions, but the stops are ticked.
Rest(r, l) == run' = [run EXCEPT ![r] = ticking(l, FALSE, {})] /\ UNCHANGED desk

BeginBar(r, l) ==
  /\ run' = [run EXCEPT ![r] = [l EXCEPT !.pc = "bars", !.bars = desk.symbols, !.made = @ + 1]]
  /\ desk' = [desk EXCEPT !.bar_count = @ + 1]

\* Mutant: only a desk that is not paused looks at the time.
Due_unpaused ==
  IF ~desk.running THEN "stopped"
  ELSE IF desk.deadline = "past" /\ ~desk.paused THEN "time" ELSE "none"

\* Why the while loop ends here.
Due ==
  IF ~desk.running THEN "stopped" ELSE IF desk.deadline = "past" THEN "time" ELSE "none"

\* One turn of the while loop, up to its first await.
TurnBegins(r) ==
  /\ run[r].pc \in {"startup", "sleep"}
  /\ \/ Due # "none" /\ End(r, run[r], Due)
     \/ Due = "none" /\ desk.paused /\ Rest(r, run[r])
     \/ Due = "none" /\ ~desk.paused /\ BeginBar(r, run[r])
  /\ UNCHANGED <<server, tracked, feed, edits, past>>

\* Mutant: advance() is not asked whether there was a next bar.
BarOver_replaying(r, l) ==
  IF desk.bar_count - l.first_bar >= MaxBars THEN End(r, l, "bars") /\ UNCHANGED feed
  ELSE /\ run' = [run EXCEPT ![r] = [l EXCEPT !.pc = "sleep", !.features = {}, !.bars = <<>>,
                                              !.news = <<>>, !.todo = {}]]
       /\ feed' = feed - 1
       /\ UNCHANGED desk

\* What follows a bar, however it ended: the budget, the replay's end, and
\* the sleep.
BarOver(r, l) ==
  IF desk.bar_count - l.first_bar >= MaxBars THEN End(r, l, "bars") /\ UNCHANGED feed
  ELSE IF feed = 0 THEN End(r, l, "feed") /\ UNCHANGED feed
  ELSE /\ run' = [run EXCEPT ![r] = [l EXCEPT !.pc = "sleep", !.features = {}, !.bars = <<>>,
                                              !.news = <<>>, !.todo = {}]]
       /\ feed' = feed - 1
       /\ UNCHANGED desk

-----------------------------------------------------------------------------
(* _gather and the rest of a bar                                           *)

\* The bars have come; the news is asked for what the watchlist is now.
GotBars(r) ==
  /\ run[r].pc = "bars"
  /\ run' = [run EXCEPT ![r] = [@ EXCEPT !.pc = "news", !.news = desk.symbols]]
  /\ UNCHANGED <<desk, server, tracked, feed, edits, past>>

\* The three lists are zipped: bars go to the symbol that now has their
\* place, and lists of different lengths raise when the shortest one is
\* through.  The n-th bars may be missing.
Zipped(r) ==
  LET l == run[r]
      length == Len(shorter(shorter(desk.symbols, l.bars), l.news))
      agree == Len(desk.symbols) = length /\ Len(l.bars) = length /\ Len(l.news) = length
  IN /\ l.pc = "news"
     /\ \E got \in SUBSET (1..length) :
          /\ past' = [past EXCEPT !.crossed = @ \/ \E n \in got : desk.symbols[n] # l.bars[n]]
          /\ \/ /\ agree
                /\ run' = [run EXCEPT ![r] = ticking(l, TRUE, {desk.symbols[n] : n \in got})]
                /\ UNCHANGED <<desk, feed>>
             \/ ~agree /\ BarOver(r, l)
     /\ UNCHANGED <<server, tracked, edits>>

\* One position, in any order, is through.
passed(l, s) == [l EXCEPT !.todo = l.todo \ {s}]

\* A price of s has come: on_price() gets it, and may close the position.
Tick(r, s) ==
  /\ run[r].pc = "tick" /\ s \in run[r].todo
  /\ ticked' = s
  /\ tracked' \in {tracked, tracked \ {s}}
  /\ run' = [run EXCEPT ![r] = passed(@, s)]
  /\ UNCHANGED <<desk, server, feed, edits, past>>

\* The feed has no price: the position is passed over.
NoPrice(r) ==
  /\ "feed_outage" \in Env /\ run[r].pc = "tick"
  /\ \E s \in run[r].todo : run' = [run EXCEPT ![r] = passed(@, s)]
  /\ UNCHANGED <<desk, server, tracked, feed, edits, past>>

\* latest_price() raises, and what has not been ticked yet is not.  A bar has
\* failed; in a paused turn nobody catches it and the run ends.
PriceRaises(r) ==
  LET l == run[r]
  IN /\ "feed_outage" \in Env /\ l.pc = "tick" /\ l.todo # {}
     /\ \/ l.deciding /\ BarOver(r, l)
        \/ ~l.deciding /\ End(r, l, "price") /\ UNCHANGED feed
     /\ UNCHANGED <<server, tracked, edits, past>>

\* All are ticked: back to sleep if paused, no decision without features.
Ticked(r) ==
  LET l == run[r]
  IN /\ l.pc = "tick" /\ l.todo = {}
     /\ \/ /\ ~l.deciding
           /\ run' = [run EXCEPT ![r] = [@ EXCEPT !.pc = "sleep"]]
           /\ UNCHANGED <<desk, feed>>
        \/ l.deciding /\ l.features = {} /\ BarOver(r, l)
        \/ /\ l.deciding /\ l.features # {}
           /\ run' = [run EXCEPT ![r] = [@ EXCEPT !.pc = "decide"]]
           /\ UNCHANGED <<desk, feed>>
     /\ UNCHANGED <<server, tracked, edits, past>>

\* HOLD, a rejection, or a failure.
NoOrder(r) ==
  /\ run[r].pc = "decide"
  /\ BarOver(r, run[r])
  /\ UNCHANGED <<server, tracked, edits, past>>

\* An order of a symbol that had features: nobody looks at the pause again.
SendOrder(r) ==
  /\ run[r].pc = "decide"
  /\ \E s \in run[r].features : tracked' = IF s \in tracked THEN tracked \ {s} ELSE tracked \cup {s}
  /\ past' = [past EXCEPT !.late = IF desk.paused THEN @ + 1 ELSE @]
  /\ BarOver(r, run[r])
  /\ UNCHANGED <<server, edits>>

\* A closed process does nothing.
Open == server.state # "closed"

RunStep(r) ==
  \/ Open /\ \E s \in Symbols : Tick(r, s)
  \/ /\ Open /\ ticked' = NoSymbol
     /\ \/ RunStarts(r) \/ StartupRaises(r) \/ TurnBegins(r) \/ GotBars(r) \/ Zipped(r)
        \/ NoPrice(r) \/ PriceRaises(r) \/ Ticked(r) \/ NoOrder(r) \/ SendOrder(r)

-----------------------------------------------------------------------------
(* The dashboard's writes                                                  *)

Serving == server.state = "serving"

Pause ==
  /\ Serving /\ desk' = [desk EXCEPT !.paused = TRUE]
  /\ UNCHANGED <<run, server, tracked, feed, edits, past>>

\* Start while the loop runs.
Resume ==
  /\ Serving /\ desk.running
  /\ desk' = [desk EXCEPT !.paused = FALSE]
  /\ past' = [past EXCEPT !.late = 0]
  /\ UNCHANGED <<run, server, tracked, feed, edits>>

\* Mutant: serve() keeps its first task.
Launch_unnoticed(r) ==
  /\ run[r].pc = "unlaunched"
  /\ run' = [run EXCEPT ![r] = [@ EXCEPT !.pc = "created"]]
  /\ desk' = [desk EXCEPT !.paused = FALSE]
  /\ past' = [past EXCEPT !.late = 0]
  /\ UNCHANGED <<server, tracked, feed, edits>>

\* launch(): the task exists, but has not run yet.
Launch(r) ==
  /\ run[r].pc = "unlaunched"
  /\ run' = [run EXCEPT ![r] = [@ EXCEPT !.pc = "created"]]
  /\ desk' = [desk EXCEPT !.paused = FALSE]
  /\ server' = [server EXCEPT !.trading = r]
  /\ past' = [past EXCEPT !.late = 0]
  /\ UNCHANGED <<tracked, feed, edits>>

\* Mutant: Start launches whether or not the loop runs.
Relaunch_always ==
  /\ Serving
  /\ \E r \in Runs : Launch(r)

\* Start when the loop does not run.
Relaunch ==
  /\ Serving /\ ~desk.running
  /\ "double_start" \in Env \/ \A r \in Runs : run[r].pc # "created"
  /\ \E r \in Runs : Launch(r)

SetWatchlist ==
  /\ Serving /\ edits < MaxEdits
  /\ \E w \in Watchlists : desk' = [desk EXCEPT !.symbols = w]
  /\ edits' = edits + 1
  /\ UNCHANGED <<run, server, tracked, feed, past>>

-----------------------------------------------------------------------------
(* The process                                                             *)

\* A signal, or, without --serve-after-done, the end of the first run: the
\* loop is told to stop, and the server answers nothing new.
Finish ==
  /\ Serving
  /\ server' = [server EXCEPT !.state = "closing"]
  /\ desk' = [desk EXCEPT !.running = FALSE]
  /\ UNCHANGED <<run, tracked, feed, edits, past>>

\* The task of the latest launch is cancelled at its await, which is inside
\* the try or not; then the journal is closed.
Close ==
  /\ server.state = "closing"
  /\ server' = [server EXCEPT !.state = "closed"]
  /\ LET l == run[server.trading]
     IN IF l.pc \in {"created", "startup", "ended"}
        THEN run' = [run EXCEPT ![server.trading] = ended(l, "stopped")] /\ UNCHANGED desk
        ELSE End(server.trading, l, "stopped")
  /\ UNCHANGED <<tracked, feed, edits, past>>

DeadlinePasses ==
  /\ Open /\ desk.deadline = "ahead"
  /\ desk' = [desk EXCEPT !.deadline = "past"]
  /\ UNCHANGED <<run, server, tracked, feed, edits, past>>

Outside ==
  /\ Pause \/ Resume \/ Relaunch \/ SetWatchlist \/ Finish \/ Close \/ DeadlinePasses
  /\ ticked' = NoSymbol

Next == Outside \/ \E r \in Runs : RunStep(r)

Spec == Init /\ [][Next]_vars

\* Every await of a task comes back, and the event loop resumes it.  No feed is
\* out for good: a symbol whose price is asked for again and again gets one.
FairSpec ==
  /\ Spec
  /\ \A r \in Runs : WF_vars(RunStep(r))
  /\ \A s \in Symbols : SF_vars(Open /\ \E r \in Runs : Tick(r, s))

-----------------------------------------------------------------------------
(* Properties                                                              *)

\* Every variable has its type.
TypeOK ==
  /\ desk \in Desk /\ run \in [Runs -> Run] /\ tracked \subseteq Symbols
  /\ server \in [state: {"serving", "closing", "closed"}, trading: Runs]
  /\ feed \in 0..FeedBars /\ edits \in 0..MaxEdits /\ ticked \in Symbols \cup {NoSymbol}
  /\ past \in [late: Nat, crossed: BOOLEAN]

\* Whatever is clicked, one task at a time trades (loop_control, launch).
OneDriver == \A r, q \in Runs : Active(r) /\ Active(q) => r = q

\* A desk that says it runs is run by somebody: every way out of a run, a price
\* that raises included, clears the flag (run_forever's finally), save for a
\* startup() that raised in the latest launch.
RunningMeansDriven ==
  desk.running /\ Serving => (\E r \in Runs : Active(r)) \/ run[server.trading].why = "raised"

\* After Pause the bar in flight may still send its one order; no later bar
\* sends any (pause, run_forever).
PauseHolds == past.late <= 1

\* A budget is per run: no run makes more bars than --max-bars, and one that
\* stops because of it made them all (run_forever).
FullAllowance ==
  \A r \in Runs : run[r].made <= MaxBars /\ (run[r].why = "bars" => run[r].made = MaxBars)

\* When the journal is closed no task of run_forever() is left to write to it
\* (serve).  A request that the server still answers is not a task.
ClosedMeansQuiet == server.state = "closed" => ~\E r \in Runs : Active(r)

\* Bars are only ever put down to the symbol they are of (_gather).
OwnBars == ~past.crossed

Driven == desk.running /\ \E r \in Runs : Active(r)

\* If no feed is out for good, a position is fed prices as long as the desk is
\* driven: paused or not, also when the dashboard took its symbol off the
\* watchlist, and past any prices that are missing or raise (_tick_stops).
TrackedIsTicked ==
  \A s \in Symbols : (s \in tracked /\ Driven) ~> (ticked = s \/ s \notin tracked \/ ~Driven)

\* Once its time is up the desk stops, paused or not (run_forever).
TimeIsUp == (desk.deadline = "past" /\ Driven) ~> ~Driven

=============================================================================
