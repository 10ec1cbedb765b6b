-------------------------- MODULE DeskControlProofs --------------------------
(***************************************************************************)
(* Who drives the desk, for any watchlists, budgets and number of runs:    *)
(* the invariants of DeskControl, from one that is inductive.              *)
(***************************************************************************)
EXTENDS DeskControl, TLAPS

\* A run that was launched and is not over.
Live(r) == run[r].pc \notin {"unlaunched", "ended"}
\* A bar that may still end in an order.
Deciding(l) == l.pc \in {"bars", "news", "decide"} \/ (l.pc = "tick" /\ l.deciding)

\* serve() knows the only task there is, if there is one.
Latest == \A r \in Runs : Live(r) => r = server.trading
\* While the dashboard answers, a desk that is not running has no task in
\* run_forever's try.
Idle == server.state = "serving" /\ ~desk.running => \A r \in Runs : ~Active(r)
Driver ==
  desk.running /\ server.state = "serving" =>
    (\E r \in Runs : Active(r)) \/ run[server.trading].why = "raised"
Closed == server.state = "closed" => \A r \in Runs : ~Live(r)
\* The bars of a run are those that bar_count grew by since it began, and
\* between two bars there is one to go.
Budget(l, d) ==
  /\ l.made <= MaxBars
  /\ l.why = "bars" => l.made = MaxBars
  /\ l.pc \notin {"unlaunched", "created", "ended"} => d.bar_count = l.first_bar + l.made
  /\ l.pc \in {"unlaunched", "created", "startup"} => l.made = 0
  /\ l.pc = "sleep" \/ (l.pc = "tick" /\ ~l.deciding) => l.made < MaxBars
\* The one late order was the last thing its bar did, and there is no other.
Late ==
  /\ past.late <= 1
  /\ past.late = 1 => desk.paused /\ \A r \in Runs : ~Deciding(run[r])

IInv ==
  /\ TypeOK /\ Latest /\ Idle /\ Driver /\ Closed /\ Late
  /\ \A r \in Runs : Budget(run[r], desk)

LEMMA InitInv == ASSUME Init PROVE IInv
<1>0. FirstRun \in Runs
  BY ControlAssumption DEF FirstRun
<1>1. TypeOK
  <2>1. desk \in Desk
    <3>1. PICK w \in Watchlists :
            desk = [running |-> FALSE, paused |-> FALSE, deadline |-> "none", bar_count |-> 0,
                    symbols |-> w]
      BY DEF Init
    <3> QED BY <3>1 DEF Desk
  <2>2. run \in [Runs -> Run]
    <3>1. <<>> \in Seq(Symbols)
      OBVIOUS
    <3> QED BY <3>1 DEF Init, Run, PC, Why
  <2>3. server \in [state: {"serving", "closing", "closed"}, trading: Runs]
    BY <1>0 DEF Init
  <2>4. /\ tracked \subseteq Symbols /\ feed \in 0..FeedBars /\ edits \in 0..MaxEdits
        /\ ticked \in Symbols \cup {NoSymbol} /\ past \in [late: Nat, crossed: BOOLEAN]
    BY ControlAssumption DEF Init
  <2> QED BY <2>1, <2>2, <2>3, <2>4 DEF TypeOK
<1>2. \A r \in Runs : run[r].pc \in {"created", "unlaunched"}
                      /\ (run[r].pc = "created" => r = FirstRun)
                      /\ run[r].made = 0 /\ run[r].why = "none"
  BY DEF Init
<1>3. desk.running = FALSE /\ server.state = "serving" /\ server.trading = FirstRun /\ past.late = 0
  BY DEF Init
<1>4. Latest /\ Idle /\ Driver /\ Closed /\ Late
  BY <1>2, <1>3 DEF Latest, Idle, Driver, Closed, Late, Live, Active
<1>5. \A r \in Runs : Budget(run[r], desk)
  BY <1>2, ControlAssumption DEF Budget
<1> QED BY <1>1, <1>4, <1>5 DEF IInv

-----------------------------------------------------------------------------
(* The steps of a run                                                      *)

\* What every step of a run comes to: the run it moves is the only one, and
\* either goes on in a desk that runs or ends and says so.
LEMMA RunMoves ==
  ASSUME IInv, TypeOK', NEW r \in Runs, NEW n \in Run,
         Live(r), run' = [run EXCEPT ![r] = n], UNCHANGED server,
         server.state # "closed",
         Budget(n, desk'),
         \/ /\ n.pc \notin {"unlaunched", "created", "ended"}
            /\ desk'.running \/ (desk'.running = desk.running /\ Active(r))
         \/ /\ n.pc = "ended"
            /\ ~desk'.running \/ n.why = "raised",
         past'.late <= 1,
         past'.late = 1 => desk'.paused /\ ~Deciding(n)
  PROVE  IInv'
<1>1. /\ run'[r] = n
      /\ \A q \in Runs : q # r => run'[q] = run[q] /\ ~Live(q)
      /\ r = server.trading /\ r = server'.trading
  BY DEF IInv, TypeOK, Latest
<1>2. \A q \in Runs : q # r => ~Live(q)' /\ ~Active(q)' /\ ~Deciding(run'[q])
  BY <1>1 DEF Live, Active, Deciding
<1>3. Latest'
  BY <1>1, <1>2 DEF Latest
<1>4. Closed'
  BY DEF Closed
<1>5. Active(r)' <=> n.pc \notin {"unlaunched", "created", "ended"}
  BY <1>1 DEF Active
<1>6. Idle'
  BY <1>1, <1>2, <1>5 DEF Idle, IInv
<1>7. Driver'
  BY <1>1, <1>5 DEF Driver
<1>8. Late'
  BY <1>1, <1>2 DEF Late
<1>9. \A q \in Runs : Budget(run[q], desk)'
  <2> TAKE q \in Runs
  <2>1. CASE q = r
    BY <1>1, <2>1
  <2>2. CASE q # r
    BY <1>1, <2>2 DEF Budget, IInv, Live
  <2> QED BY <2>1, <2>2
<1> QED BY <1>3, <1>4, <1>6, <1>7, <1>8, <1>9 DEF IInv

\* The typed parts that a step leaves alone or that any step sets alike.
Rest_OK ==
  /\ tracked' \subseteq Symbols /\ feed' \in 0..FeedBars /\ edits' \in 0..MaxEdits
  /\ ticked' \in Symbols \cup {NoSymbol} /\ past' \in [late: Nat, crossed: BOOLEAN]

LEMMA MovedType ==
  ASSUME TypeOK, NEW r \in Runs, NEW n \in Run, run' = [run EXCEPT ![r] = n],
         desk' \in Desk, UNCHANGED server, Rest_OK
  PROVE  TypeOK'
  BY DEF TypeOK, Rest_OK

\* A run whose locals change one by one is a run.
LEMMA SetPc == ASSUME NEW l \in Run, NEW x \in PC PROVE [l EXCEPT !.pc = x] \in Run
  BY DEF Run
LEMMA SetFirst == ASSUME NEW l \in Run, NEW x \in Nat PROVE [l EXCEPT !.first_bar = x] \in Run
  BY DEF Run
LEMMA SetMade == ASSUME NEW l \in Run, NEW x \in Nat PROVE [l EXCEPT !.made = x] \in Run
  BY DEF Run
LEMMA SetWhy ==
  ASSUME NEW l \in Run, NEW x \in Why
  PROVE  [l EXCEPT !.why = x] \in Run
  BY DEF Run
LEMMA SetBars == ASSUME NEW l \in Run, NEW x \in Seq(Symbols) PROVE [l EXCEPT !.bars = x] \in Run
  BY DEF Run
LEMMA SetNews == ASSUME NEW l \in Run, NEW x \in Seq(Symbols) PROVE [l EXCEPT !.news = x] \in Run
  BY DEF Run
LEMMA SetTodo == ASSUME NEW l \in Run, NEW x \in SUBSET Symbols PROVE [l EXCEPT !.todo = x] \in Run
  BY DEF Run
LEMMA SetDeciding == ASSUME NEW l \in Run, NEW x \in BOOLEAN PROVE [l EXCEPT !.deciding = x] \in Run
  BY DEF Run
LEMMA SetFeatures ==
  ASSUME NEW l \in Run, NEW x \in SUBSET Symbols PROVE [l EXCEPT !.features = x] \in Run
  BY DEF Run
LEMMA NoneOfThem == <<>> \in Seq(Symbols) /\ {} \in SUBSET Symbols
  OBVIOUS

LEMMA EndedType ==
  ASSUME NEW l \in Run, NEW why \in Why
  PROVE  /\ ended(l, why) \in Run /\ ended(l, why).pc = "ended"
         /\ ended(l, why).why = why /\ ended(l, why).made = l.made
<1>1. [l EXCEPT !.pc = "ended"] \in Run
  BY SetPc DEF PC
<1>2. [l EXCEPT !.pc = "ended", !.why = why] \in Run
  BY <1>1, SetWhy
<1>3. [l EXCEPT !.pc = "ended", !.why = why, !.todo = {}] \in Run
  BY <1>2, SetTodo, NoneOfThem
<1>4. [l EXCEPT !.pc = "ended", !.why = why, !.todo = {}, !.bars = <<>>] \in Run
  BY <1>3, SetBars, NoneOfThem
<1>5. [l EXCEPT !.pc = "ended", !.why = why, !.todo = {}, !.bars = <<>>, !.news = <<>>] \in Run
  BY <1>4, SetNews, NoneOfThem
<1>6. ended(l, why) \in Run
  BY <1>5, SetFeatures, NoneOfThem DEF ended
<1> QED BY <1>6 DEF ended, Run

\* The end of a bar.
LEMMA BarOverMoves ==
  ASSUME IInv, NEW r \in Runs, Deciding(run[r]), BarOver(r, run[r]),
         UNCHANGED <<server, edits>>, server.state # "closed",
         tracked' \subseteq Symbols, ticked' \in Symbols \cup {NoSymbol},
         past' \in [late: Nat, crossed: BOOLEAN], past'.late <= 1,
         past'.late = 1 => desk.paused
  PROVE  IInv'
<1> DEFINE l == run[r]
<1>1. /\ TypeOK /\ l \in Run /\ desk \in Desk /\ feed \in 0..FeedBars /\ edits \in 0..MaxEdits
      /\ Budget(l, desk) /\ Live(r) /\ Active(r)
  BY DEF IInv, TypeOK, Deciding, Live, Active
<1>2. /\ desk.bar_count = l.first_bar + l.made /\ l.made <= MaxBars
      /\ l.made \in Nat /\ l.first_bar \in Nat
  BY <1>1 DEF Budget, Active, Run
<1>3. CASE desk.bar_count - l.first_bar >= MaxBars
  <2> DEFINE n == ended(l, "bars")
  <2>1. /\ run' = [run EXCEPT ![r] = n] /\ desk' = [desk EXCEPT !.running = FALSE]
        /\ UNCHANGED feed
    BY <1>3 DEF BarOver, End
  <2>2. n \in Run /\ n.pc = "ended" /\ n.why = "bars" /\ n.made = l.made
    BY <1>1, EndedType DEF Why
  <2>3. l.made = MaxBars
    BY <1>2, <1>3, ControlAssumption
  <2>4. Budget(n, desk')
    BY <2>2, <2>3, ControlAssumption DEF Budget
  <2>5. desk' \in Desk /\ ~desk'.running /\ desk'.paused = desk.paused
    BY <1>1, <2>1 DEF Desk
  <2> HIDE DEF n
  <2>6. TypeOK'
    BY <1>1, <2>1, <2>2, <2>5, MovedType DEF Rest_OK
  <2> QED BY <1>1, <2>1, <2>2, <2>4, <2>5, <2>6, RunMoves DEF Deciding
<1>4. CASE ~(desk.bar_count - l.first_bar >= MaxBars) /\ feed = 0
  <2> DEFINE n == ended(l, "feed")
  <2>1. /\ run' = [run EXCEPT ![r] = n] /\ desk' = [desk EXCEPT !.running = FALSE]
        /\ UNCHANGED feed
    BY <1>4 DEF BarOver, End
  <2>2. n \in Run /\ n.pc = "ended" /\ n.why = "feed" /\ n.made = l.made
    BY <1>1, EndedType DEF Why
  <2>3. Budget(n, desk')
    BY <1>2, <2>2 DEF Budget
  <2>4. desk' \in Desk /\ ~desk'.running /\ desk'.paused = desk.paused
    BY <1>1, <2>1 DEF Desk
  <2> HIDE DEF n
  <2>5. TypeOK'
    BY <1>1, <2>1, <2>2, <2>4, MovedType DEF Rest_OK
  <2> QED BY <1>1, <2>1, <2>2, <2>3, <2>4, <2>5, RunMoves DEF Deciding
<1>5. CASE ~(desk.bar_count - l.first_bar >= MaxBars) /\ feed # 0
  <2> DEFINE n == [l EXCEPT !.pc = "sleep", !.features = {}, !.bars = <<>>, !.news = <<>>,
                            !.todo = {}]
  <2>1. run' = [run EXCEPT ![r] = n] /\ desk' = desk /\ feed' = feed - 1
    BY <1>5 DEF BarOver
  <2>2. /\ n \in Run /\ n.pc = "sleep" /\ n.why = l.why /\ n.made = l.made
        /\ n.first_bar = l.first_bar
    <3>1. [l EXCEPT !.pc = "sleep"] \in Run
      BY <1>1, SetPc DEF PC
    <3>2. [l EXCEPT !.pc = "sleep", !.features = {}] \in Run
      BY <3>1, SetFeatures, NoneOfThem
    <3>3. [l EXCEPT !.pc = "sleep", !.features = {}, !.bars = <<>>] \in Run
      BY <3>2, SetBars, NoneOfThem
    <3>4. [l EXCEPT !.pc = "sleep", !.features = {}, !.bars = <<>>, !.news = <<>>] \in Run
      BY <3>3, SetNews, NoneOfThem
    <3>5. n \in Run
      BY <3>4, SetTodo, NoneOfThem
    <3> QED BY <1>1, <3>5 DEF Run
  <2>3. l.made < MaxBars
    BY <1>2, <1>5, ControlAssumption DEF Desk
  <2>4. Budget(n, desk')
    BY <1>1, <1>2, <2>1, <2>2, <2>3 DEF Budget
  <2>5. feed' \in 0..FeedBars
    BY <1>1, <1>5, <2>1, ControlAssumption
  <2> HIDE DEF n
  <2>6. TypeOK'
    BY <1>1, <2>1, <2>2, <2>5, MovedType DEF Rest_OK
  <2> QED BY <1>1, <2>1, <2>2, <2>4, <2>6, RunMoves DEF Deciding
<1> QED BY <1>3, <1>4, <1>5

\* A run that goes on in a desk that runs, or where it was going on already.
LEMMA GoesOn ==
  ASSUME IInv, NEW r \in Runs, NEW n \in Run, Active(r),
         run' = [run EXCEPT ![r] = n], UNCHANGED <<desk, server>>, Rest_OK,
         server.state # "closed",
         n.pc \notin {"unlaunched", "created", "ended"},
         Budget(n, desk), past' = past, Deciding(n) => Deciding(run[r])
  PROVE  IInv'
<1>1. TypeOK /\ desk \in Desk /\ Live(r) /\ Late
  BY DEF IInv, TypeOK, Live, Active
<1>2. TypeOK'
  BY <1>1, MovedType
<1>3. past'.late <= 1 /\ (past'.late = 1 => desk.paused /\ ~Deciding(n))
  BY <1>1 DEF Late
<1> QED BY <1>1, <1>2, <1>3, RunMoves

LEMMA RunStartsMoves ==
  ASSUME IInv, NEW r \in Runs, RunStarts(r), ticked' = NoSymbol, server.state # "closed"
  PROVE  IInv'
<1> DEFINE l == run[r]
           n == [l EXCEPT !.pc = "startup", !.first_bar = desk.bar_count]
           t == IF TimeBudget THEN "ahead" ELSE "none"
<1>1. /\ TypeOK /\ l \in Run /\ desk \in Desk /\ Budget(l, desk) /\ Live(r) /\ Late
      /\ l.pc = "created"
  BY DEF IInv, TypeOK, RunStarts, Live
<1>2. run' = [run EXCEPT ![r] = n] /\ desk' = [desk EXCEPT !.running = TRUE, !.deadline = t]
  BY DEF RunStarts
<1>3. desk' \in Desk /\ desk'.running /\ desk'.paused = desk.paused
      /\ desk'.bar_count = desk.bar_count
  <2>1. t \in {"none", "ahead", "past"}
    OBVIOUS
  <2> HIDE DEF t
  <2>2. [desk EXCEPT !.running = TRUE] \in Desk
    BY <1>1 DEF Desk
  <2>3. [desk EXCEPT !.running = TRUE, !.deadline = t] \in Desk
    BY <2>1, <2>2 DEF Desk
  <2> QED BY <1>1, <1>2, <2>3 DEF Desk
<1>4. /\ n \in Run /\ n.pc = "startup" /\ n.first_bar = desk.bar_count /\ n.made = l.made
      /\ n.why = l.why
  <2>1. [l EXCEPT !.pc = "startup"] \in Run
    BY <1>1, SetPc DEF PC
  <2>2. n \in Run
    BY <1>1, <2>1, SetFirst DEF Desk
  <2> QED BY <1>1, <2>2 DEF Run
<1>5. Budget(n, desk')
  BY <1>1, <1>3, <1>4, ControlAssumption DEF Budget, Desk
<1> HIDE DEF n, l
<1>6. TypeOK' /\ UNCHANGED <<server, past>>
  BY <1>1, <1>2, <1>3, <1>4, MovedType DEF Rest_OK, RunStarts, TypeOK
<1> QED BY <1>1, <1>2, <1>3, <1>4, <1>5, <1>6, RunMoves DEF Deciding, Late

LEMMA StartupRaisesMoves ==
  ASSUME IInv, NEW r \in Runs, StartupRaises(r), ticked' = NoSymbol, server.state # "closed"
  PROVE  IInv'
<1> DEFINE n == ended(run[r], "raised")
<1>1. TypeOK /\ run[r] \in Run /\ desk \in Desk /\ Budget(run[r], desk) /\ Live(r) /\ Late
  BY DEF IInv, TypeOK, StartupRaises, Live
<1>2. run' = [run EXCEPT ![r] = n] /\ UNCHANGED <<desk, server, tracked, feed, edits, past>>
  BY DEF StartupRaises
<1>3. n \in Run /\ n.pc = "ended" /\ n.why = "raised" /\ n.made = run[r].made
  BY <1>1, EndedType DEF Why
<1>4. Budget(n, desk')
  BY <1>1, <1>3 DEF Budget
<1> HIDE DEF n
<1>5. TypeOK'
  BY <1>1, <1>2, <1>3, MovedType DEF Rest_OK, TypeOK
<1> QED BY <1>1, <1>2, <1>3, <1>4, <1>5, RunMoves DEF Deciding, Late

LEMMA TickingType ==
  ASSUME NEW l \in Run, tracked \in SUBSET Symbols, NEW d \in BOOLEAN, NEW f \in SUBSET Symbols
  PROVE  LET n == ticking(l, d, f)
         IN /\ n \in Run /\ n.pc = "tick" /\ n.deciding = d /\ n.made = l.made
            /\ n.first_bar = l.first_bar /\ n.why = l.why
<1>1. [l EXCEPT !.pc = "tick"] \in Run
  BY SetPc DEF PC
<1>2. [l EXCEPT !.pc = "tick", !.todo = tracked] \in Run
  BY <1>1, SetTodo
<1>3. [l EXCEPT !.pc = "tick", !.todo = tracked, !.deciding = d] \in Run
  BY <1>2, SetDeciding
<1>4. [l EXCEPT !.pc = "tick", !.todo = tracked, !.deciding = d, !.features = f] \in Run
  BY <1>3, SetFeatures
<1>5. [l EXCEPT !.pc = "tick", !.todo = tracked, !.deciding = d, !.features = f,
                !.bars = <<>>] \in Run
  BY <1>4, SetBars, NoneOfThem
<1>6. ticking(l, d, f) \in Run
  BY <1>5, SetNews, NoneOfThem DEF ticking
<1> QED BY <1>6 DEF ticking, Run

LEMMA TurnBeginsMoves ==
  ASSUME IInv, NEW r \in Runs, TurnBegins(r), ticked' = NoSymbol, server.state # "closed"
  PROVE  IInv'
<1> DEFINE l == run[r]
<1>1. /\ TypeOK /\ l \in Run /\ desk \in Desk /\ Budget(l, desk) /\ Live(r) /\ Active(r) /\ Late
      /\ l.pc \in {"startup", "sleep"} /\ UNCHANGED <<server, tracked, feed, edits, past>>
  BY DEF IInv, TypeOK, TurnBegins, Live, Active
<1>2. l.made < MaxBars /\ desk.bar_count = l.first_bar + l.made /\ l.made \in Nat
      /\ l.first_bar \in Nat /\ desk.bar_count \in Nat
  BY <1>1, ControlAssumption DEF Budget, Run, Desk
<1>3. CASE Due # "none" /\ End(r, l, Due)
  <2> DEFINE n == ended(l, Due)
  <2>1. run' = [run EXCEPT ![r] = n] /\ desk' = [desk EXCEPT !.running = FALSE]
    BY <1>3 DEF End
  <2>2. Due \in {"stopped", "time"}
    BY <1>3 DEF Due
  <2>3. n \in Run /\ n.pc = "ended" /\ n.why = Due /\ n.made = l.made
    BY <1>1, <2>2, EndedType DEF Why
  <2>4. Budget(n, desk')
    BY <1>1, <1>2, <2>2, <2>3 DEF Budget
  <2>5. desk' \in Desk /\ ~desk'.running /\ desk'.paused = desk.paused
    BY <1>1, <2>1 DEF Desk
  <2> HIDE DEF n
  <2>6. TypeOK'
    BY <1>1, <2>1, <2>3, <2>5, MovedType DEF Rest_OK, TypeOK
  <2> QED BY <1>1, <2>1, <2>3, <2>4, <2>5, <2>6, RunMoves DEF Deciding, Late
<1>4. CASE Rest(r, l)
  <2> DEFINE n == ticking(l, FALSE, {})
  <2>1. run' = [run EXCEPT ![r] = n] /\ UNCHANGED desk
    BY <1>4 DEF Rest
  <2>2. /\ n \in Run /\ n.pc = "tick" /\ n.deciding = FALSE /\ n.made = l.made
        /\ n.first_bar = l.first_bar /\ n.why = l.why
    BY <1>1, TickingType, NoneOfThem DEF TypeOK
  <2> HIDE DEF n
  <2>3. Budget(n, desk) /\ ~Deciding(n)
    BY <1>1, <1>2, <2>2 DEF Budget, Deciding
  <2>4. Rest_OK
    BY <1>1 DEF Rest_OK, TypeOK
  <2> QED BY <1>1, <2>1, <2>2, <2>3, <2>4, GoesOn
<1>5. CASE Due = "none" /\ ~desk.paused /\ BeginBar(r, l)
  <2> DEFINE n == [l EXCEPT !.pc = "bars", !.bars = desk.symbols, !.made = @ + 1]
  <2>1. run' = [run EXCEPT ![r] = n] /\ desk' = [desk EXCEPT !.bar_count = @ + 1]
    BY <1>5 DEF BeginBar
  <2>2. /\ n \in Run /\ n.pc = "bars" /\ n.made = l.made + 1 /\ n.first_bar = l.first_bar
        /\ n.why = l.why
    <3>1. [l EXCEPT !.pc = "bars"] \in Run
      BY <1>1, SetPc DEF PC
    <3>2. [l EXCEPT !.pc = "bars", !.bars = desk.symbols] \in Run
      BY <1>1, <3>1, SetBars, ControlAssumption DEF Desk
    <3> DEFINE m == [l EXCEPT !.pc = "bars", !.bars = desk.symbols]
    <3>3. n = [m EXCEPT !.made = l.made + 1]
      BY <1>1 DEF Run
    <3>4. m \in Run /\ l.made + 1 \in Nat
      BY <1>2, <3>2
    <3> HIDE DEF m
    <3>5. [m EXCEPT !.made = l.made + 1] \in Run
      BY <3>4, SetMade
    <3>6. n \in Run
      BY <3>3, <3>5
    <3> QED BY <1>1, <3>6 DEF Run
  <2>3. /\ desk' \in Desk /\ desk'.running /\ desk'.paused = desk.paused
        /\ desk'.bar_count = desk.bar_count + 1
    <3>1. desk.running
      BY <1>5 DEF Due
    <3> QED BY <1>1, <2>1, <3>1 DEF Desk
  <2>4. l.why # "bars"
    BY <1>1, <1>2 DEF Budget
  <2> HIDE DEF n
  <2>5. Budget(n, desk')
    <3>1. n.made <= MaxBars /\ desk'.bar_count = n.first_bar + n.made
      <4> DEFINE made == l.made
                 first == l.first_bar
      <4>1. /\ made \in Nat /\ first \in Nat /\ MaxBars \in Nat /\ made < MaxBars
            /\ n.made = made + 1 /\ n.first_bar = first
            /\ desk'.bar_count = (first + made) + 1
        BY <1>2, <2>2, <2>3, ControlAssumption
      <4> HIDE DEF made, first
      <4> QED BY <4>1
    <3> QED BY <2>2, <2>4, <3>1 DEF Budget
  <2>6. past'.late <= 1 /\ past'.late # 1
    BY <1>1, <1>5 DEF Late
  <2>7. TypeOK'
    BY <1>1, <2>1, <2>2, <2>3, MovedType DEF Rest_OK, TypeOK
  <2> QED BY <1>1, <2>1, <2>2, <2>3, <2>5, <2>6, <2>7, RunMoves
<1> QED BY <1>3, <1>4, <1>5 DEF TurnBegins

LEMMA GotBarsMoves ==
  ASSUME IInv, NEW r \in Runs, GotBars(r), ticked' = NoSymbol, server.state # "closed"
  PROVE  IInv'
<1> DEFINE l == run[r]
           n == [l EXCEPT !.pc = "news", !.news = desk.symbols]
<1>1. /\ TypeOK /\ l \in Run /\ desk \in Desk /\ Budget(l, desk) /\ Active(r) /\ l.pc = "bars"
  BY DEF IInv, TypeOK, GotBars, Active
<1>2. run' = [run EXCEPT ![r] = n] /\ UNCHANGED <<desk, server, tracked, feed, edits, past>>
  BY DEF GotBars
<1>3. /\ n \in Run /\ n.pc = "news" /\ n.made = l.made /\ n.first_bar = l.first_bar
      /\ n.why = l.why
  <2>1. [l EXCEPT !.pc = "news"] \in Run
    BY <1>1, SetPc DEF PC
  <2>2. n \in Run
    BY <1>1, <2>1, SetNews, ControlAssumption DEF Desk
  <2> QED BY <1>1, <2>2 DEF Run
<1>4. Budget(n, desk)
  BY <1>1, <1>3 DEF Budget
<1>5. Deciding(l)
  BY <1>1 DEF Deciding
<1> HIDE DEF n
<1>6. Rest_OK
  BY <1>1, <1>2 DEF Rest_OK, TypeOK
<1> QED BY <1>1, <1>2, <1>3, <1>4, <1>5, <1>6, GoesOn

LEMMA ZippedMoves ==
  ASSUME IInv, NEW r \in Runs, Zipped(r), ticked' = NoSymbol, server.state # "closed"
  PROVE  IInv'
<1> DEFINE l == run[r]
           length == Len(shorter(shorter(desk.symbols, l.bars), l.news))
           agree == Len(desk.symbols) = length /\ Len(l.bars) = length /\ Len(l.news) = length
<1>1. /\ TypeOK /\ l \in Run /\ desk \in Desk /\ Budget(l, desk) /\ Active(r) /\ l.pc = "news"
      /\ UNCHANGED <<server, tracked, edits>> /\ Late
  BY DEF IInv, TypeOK, Zipped, Active
<1>2. Deciding(l)
  BY <1>1 DEF Deciding
<1>3. PICK got \in SUBSET (1..length) :
        /\ past' = [past EXCEPT !.crossed = @ \/ \E n \in got : desk.symbols[n] # l.bars[n]]
        /\ \/ /\ agree
              /\ run' = [run EXCEPT ![r] = ticking(l, TRUE, {desk.symbols[n] : n \in got})]
              /\ UNCHANGED <<desk, feed>>
           \/ ~agree /\ BarOver(r, l)
  BY DEF Zipped
<1>4. past' \in [late: Nat, crossed: BOOLEAN] /\ past'.late = past.late
  <2> DEFINE x == past.crossed \/ \E n \in got : desk.symbols[n] # l.bars[n]
  <2>1. past' = [past EXCEPT !.crossed = x] /\ x \in BOOLEAN
    BY <1>1, <1>3 DEF TypeOK
  <2> HIDE DEF x
  <2> QED BY <1>1, <2>1 DEF TypeOK
<1>5. past'.late <= 1 /\ (past'.late = 1 => desk.paused)
  BY <1>1, <1>4 DEF Late
<1>6. CASE ~agree /\ BarOver(r, l)
  <2>1. UNCHANGED <<server, edits>> /\ tracked' \subseteq Symbols
        /\ ticked' \in Symbols \cup {NoSymbol}
    BY <1>1 DEF TypeOK
  <2> QED BY <1>2, <1>4, <1>5, <1>6, <2>1, BarOverMoves
<1>7. CASE /\ agree
           /\ run' = [run EXCEPT ![r] = ticking(l, TRUE, {desk.symbols[n] : n \in got})]
           /\ UNCHANGED <<desk, feed>>
  <2> DEFINE F == {desk.symbols[n] : n \in got}
             m == ticking(l, TRUE, F)
  <2>1. F \in SUBSET Symbols
    <3>1. desk.symbols \in Seq(Symbols)
      BY <1>1, ControlAssumption DEF Desk
    <3>2. \A n \in got : n \in 1..Len(desk.symbols)
      BY <1>7
    <3>3. \A n \in 1..Len(desk.symbols) : desk.symbols[n] \in Symbols
      BY <3>1
    <3> QED BY <3>2, <3>3
  <2> HIDE DEF F
  <2>2. /\ m \in Run /\ m.pc = "tick" /\ m.deciding = TRUE /\ m.made = l.made
        /\ m.first_bar = l.first_bar /\ m.why = l.why
    BY <1>1, <2>1, TickingType DEF TypeOK
  <2>3. run' = [run EXCEPT ![r] = m]
    BY <1>7 DEF F
  <2> HIDE DEF m
  <2>4. Budget(m, desk) /\ Live(r)
    BY <1>1, <2>2 DEF Budget, Live, Active
  <2>5. Rest_OK
    BY <1>1, <1>4, <1>7 DEF Rest_OK, TypeOK
  <2>6. TypeOK'
    BY <1>1, <1>7, <2>2, <2>3, <2>5, MovedType
  <2>7. past'.late # 1
    BY <1>1, <1>2, <1>4 DEF Late
  <2>8. desk' = desk /\ UNCHANGED server
    BY <1>1, <1>7
  <2> QED BY <1>1, <1>5, <2>2, <2>3, <2>4, <2>6, <2>7, <2>8, RunMoves
<1> QED BY <1>3, <1>6, <1>7

LEMMA PassedType ==
  ASSUME NEW l \in Run, NEW s
  PROVE  LET n == passed(l, s)
         IN /\ n \in Run /\ n.pc = l.pc /\ n.made = l.made /\ n.first_bar = l.first_bar
            /\ n.why = l.why /\ n.deciding = l.deciding
<1>1. passed(l, s) \in Run
  BY SetTodo DEF passed, Run
<1> QED BY <1>1 DEF passed, Run

\* A position that is through, with its price or without.
LEMMA PassedMoves ==
  ASSUME IInv, NEW r \in Runs, run[r].pc = "tick", NEW s, run' = [run EXCEPT ![r] = passed(@, s)],
         UNCHANGED <<desk, server, feed, edits, past>>, server.state # "closed",
         tracked' \in {tracked, tracked \ {s}}, ticked' \in Symbols \cup {NoSymbol}
  PROVE  IInv'
<1> DEFINE l == run[r]
           n == passed(l, s)
<1>1. TypeOK /\ l \in Run /\ desk \in Desk /\ Budget(l, desk) /\ Active(r) /\ l.pc = "tick"
  BY DEF IInv, TypeOK, Active
<1>2. /\ n \in Run /\ n.pc = "tick" /\ n.made = l.made /\ n.first_bar = l.first_bar
      /\ n.why = l.why /\ n.deciding = l.deciding
  BY <1>1, PassedType
<1>3. run' = [run EXCEPT ![r] = n]
  OBVIOUS
<1> HIDE DEF n
<1>4. Budget(n, desk) /\ (Deciding(n) => Deciding(l))
  BY <1>1, <1>2 DEF Budget, Deciding
<1>5. Rest_OK
  BY <1>1 DEF Rest_OK, TypeOK
<1> QED BY <1>1, <1>2, <1>3, <1>4, <1>5, GoesOn

LEMMA TickMoves ==
  ASSUME IInv, NEW r \in Runs, NEW s \in Symbols, Tick(r, s), server.state # "closed"
  PROVE  IInv'
BY PassedMoves DEF Tick

LEMMA NoPriceMoves ==
  ASSUME IInv, NEW r \in Runs, NoPrice(r), ticked' = NoSymbol, server.state # "closed"
  PROVE  IInv'
<1>1. PICK s : run' = [run EXCEPT ![r] = passed(@, s)]
  BY DEF NoPrice
<1> QED BY <1>1, PassedMoves DEF NoPrice

LEMMA PriceRaisesMoves ==
  ASSUME IInv, NEW r \in Runs, PriceRaises(r), ticked' = NoSymbol, server.state # "closed"
  PROVE  IInv'
<1> DEFINE l == run[r]
<1>1. /\ TypeOK /\ l \in Run /\ desk \in Desk /\ Budget(l, desk) /\ Live(r) /\ l.pc = "tick"
      /\ UNCHANGED <<server, tracked, edits, past>> /\ Late
  BY DEF IInv, TypeOK, PriceRaises, Live
<1>2. CASE l.deciding /\ BarOver(r, l)
  <2>1. Deciding(l) /\ past' \in [late: Nat, crossed: BOOLEAN] /\ past'.late <= 1
        /\ (past'.late = 1 => desk.paused)
    BY <1>1, <1>2 DEF Deciding, Late, TypeOK
  <2>2. tracked' \subseteq Symbols /\ ticked' \in Symbols \cup {NoSymbol}
    BY <1>1 DEF TypeOK
  <2> QED BY <1>1, <1>2, <2>1, <2>2, BarOverMoves
<1>3. CASE End(r, l, "price") /\ UNCHANGED feed
  <2> DEFINE n == ended(l, "price")
  <2>1. run' = [run EXCEPT ![r] = n] /\ desk' = [desk EXCEPT !.running = FALSE]
    BY <1>3 DEF End
  <2>2. n \in Run /\ n.pc = "ended" /\ n.why = "price" /\ n.made = l.made
    BY <1>1, EndedType DEF Why
  <2>3. Budget(n, desk')
    BY <1>1, <2>2 DEF Budget
  <2>4. desk' \in Desk /\ ~desk'.running /\ desk'.paused = desk.paused
    BY <1>1, <2>1 DEF Desk
  <2> HIDE DEF n
  <2>5. TypeOK'
    BY <1>1, <1>3, <2>1, <2>2, <2>4, MovedType DEF Rest_OK, TypeOK
  <2> QED BY <1>1, <2>1, <2>2, <2>3, <2>4, <2>5, RunMoves DEF Deciding, Late
<1> QED BY <1>2, <1>3 DEF PriceRaises

LEMMA TickedMoves ==
  ASSUME IInv, NEW r \in Runs, Ticked(r), ticked' = NoSymbol, server.state # "closed"
  PROVE  IInv'
<1> DEFINE l == run[r]
<1>1. /\ TypeOK /\ l \in Run /\ desk \in Desk /\ Budget(l, desk) /\ Active(r) /\ l.pc = "tick"
      /\ UNCHANGED <<server, tracked, edits, past>> /\ Late
  BY DEF IInv, TypeOK, Ticked, Active
<1>3. CASE l.deciding /\ BarOver(r, l)
  <2>1. Deciding(l) /\ past' \in [late: Nat, crossed: BOOLEAN] /\ past'.late <= 1
        /\ (past'.late = 1 => desk.paused)
    BY <1>1, <1>3 DEF Deciding, Late, TypeOK
  <2>2. tracked' \subseteq Symbols /\ ticked' \in Symbols \cup {NoSymbol}
    BY <1>1 DEF TypeOK
  <2> QED BY <1>1, <1>3, <2>1, <2>2, BarOverMoves
<1>4. ASSUME NEW x \in {"sleep", "decide"}, run' = [run EXCEPT ![r] = [l EXCEPT !.pc = x]],
             UNCHANGED <<desk, feed>>, x = "sleep" <=> ~l.deciding
      PROVE  IInv'
  <2> DEFINE n == [l EXCEPT !.pc = x]
  <2>1. /\ n \in Run /\ n.pc = x /\ n.made = l.made /\ n.first_bar = l.first_bar
        /\ n.why = l.why
    <3>1. n \in Run
      BY <1>1, SetPc DEF PC
    <3> QED BY <1>1, <3>1 DEF Run
  <2>2. Budget(n, desk) /\ (Deciding(n) => Deciding(l))
    BY <1>1, <1>4, <2>1 DEF Budget, Deciding
  <2>3. Rest_OK
    BY <1>1, <1>4 DEF Rest_OK, TypeOK
  <2>4. run' = [run EXCEPT ![r] = n]
    BY <1>4
  <2> HIDE DEF n
  <2> QED BY <1>1, <1>4, <2>1, <2>2, <2>3, <2>4, GoesOn
<1>5. \/ l.deciding /\ BarOver(r, l)
      \/ /\ ~l.deciding /\ run' = [run EXCEPT ![r] = [l EXCEPT !.pc = "sleep"]]
         /\ UNCHANGED <<desk, feed>>
      \/ /\ l.deciding /\ run' = [run EXCEPT ![r] = [l EXCEPT !.pc = "decide"]]
         /\ UNCHANGED <<desk, feed>>
  BY DEF Ticked
<1> QED BY <1>3, <1>4, <1>5

LEMMA NoOrderMoves ==
  ASSUME IInv, NEW r \in Runs, NoOrder(r), ticked' = NoSymbol, server.state # "closed"
  PROVE  IInv'
<1>1. /\ TypeOK /\ Late /\ Deciding(run[r]) /\ BarOver(r, run[r])
      /\ UNCHANGED <<server, tracked, edits, past>>
  BY DEF IInv, NoOrder, Deciding
<1>2. /\ past' \in [late: Nat, crossed: BOOLEAN] /\ past'.late <= 1
      /\ past'.late = 1 => desk.paused
  BY <1>1 DEF Late, TypeOK
<1>3. tracked' \subseteq Symbols /\ ticked' \in Symbols \cup {NoSymbol}
  BY <1>1 DEF TypeOK
<1> QED BY <1>1, <1>2, <1>3, BarOverMoves

LEMMA SendOrderMoves ==
  ASSUME IInv, NEW r \in Runs, SendOrder(r), ticked' = NoSymbol, server.state # "closed"
  PROVE  IInv'
<1>1. /\ TypeOK /\ Late /\ run[r] \in Run /\ Deciding(run[r]) /\ BarOver(r, run[r])
      /\ UNCHANGED <<server, edits>>
      /\ past' = [past EXCEPT !.late = IF desk.paused THEN @ + 1 ELSE @]
  BY DEF IInv, SendOrder, Deciding, TypeOK
<1>2. past.late = 0
  BY <1>1 DEF Late, TypeOK
<1>3. /\ past' \in [late: Nat, crossed: BOOLEAN] /\ past'.late <= 1
      /\ past'.late = 1 => desk.paused
  BY <1>1, <1>2 DEF TypeOK
<1>4. tracked' \subseteq Symbols
  <2>1. PICK s \in run[r].features :
          tracked' = IF s \in tracked THEN tracked \ {s} ELSE tracked \cup {s}
    BY DEF SendOrder
  <2>2. s \in Symbols
    BY <1>1, <2>1 DEF Run
  <2> QED BY <1>1, <2>1, <2>2 DEF TypeOK
<1>5. ticked' \in Symbols \cup {NoSymbol}
  OBVIOUS
<1> QED BY <1>1, <1>3, <1>4, <1>5, BarOverMoves

LEMMA RunStepMoves ==
  ASSUME IInv, NEW r \in Runs, RunStep(r) PROVE IInv'
<1>1. server.state # "closed"
  BY DEF RunStep, Open
<1>2. CASE \E s \in Symbols : Tick(r, s)
  BY <1>1, <1>2, TickMoves
<1>3. CASE ~\E s \in Symbols : Tick(r, s)
  <2>1. ticked' = NoSymbol
    BY <1>3 DEF RunStep
  <2> QED BY <1>1, <1>3, <2>1, RunStartsMoves, StartupRaisesMoves, TurnBeginsMoves, GotBarsMoves,
             ZippedMoves, NoPriceMoves, PriceRaisesMoves, TickedMoves, NoOrderMoves,
             SendOrderMoves DEF RunStep
<1> QED BY <1>2, <1>3

-----------------------------------------------------------------------------
(* The steps of everybody else                                             *)

\* A step that moves no run and no bar count.
LEMMA LooksOn ==
  ASSUME IInv, TypeOK', UNCHANGED run, desk'.bar_count = desk.bar_count,
         server'.trading = server.trading, server.state # "closed",
         server'.state # "closed",
         \/ server'.state = "closing"
         \/ desk'.running = desk.running /\ server'.state = server.state,
         past'.late = 0 \/ (past'.late = past.late /\ (desk.paused => desk'.paused))
  PROVE  IInv'
<1>1. Latest' /\ Closed'
  BY DEF Latest, Closed, Live, IInv
<1>2. Idle' /\ Driver'
  BY DEF Idle, Driver, Active, IInv
<1>3. Late'
  BY DEF Late, IInv, Deciding
<1>4. \A r \in Runs : Budget(run[r], desk)'
  BY DEF IInv, Budget
<1> QED BY <1>1, <1>2, <1>3, <1>4 DEF IInv

LEMMA OutsideMoves ==
  ASSUME IInv, ticked' = NoSymbol,
         \/ Pause \/ Resume \/ SetWatchlist \/ Finish \/ DeadlinePasses
  PROVE  IInv'
<1>1. TypeOK /\ desk \in Desk /\ server \in [state: {"serving", "closing", "closed"}, trading: Runs]
      /\ ticked' \in Symbols \cup {NoSymbol} /\ past \in [late: Nat, crossed: BOOLEAN]
  BY DEF IInv, TypeOK
<1>2. CASE Pause
  <2>1. /\ desk' \in Desk /\ desk'.paused /\ desk'.running = desk.running
        /\ desk'.bar_count = desk.bar_count
    BY <1>1, <1>2 DEF Pause, Desk
  <2>2. TypeOK'
    BY <1>1, <1>2, <2>1 DEF Pause, TypeOK
  <2> QED BY <1>2, <2>1, <2>2, LooksOn DEF Pause, Serving
<1>3. CASE Resume
  <2>1. desk' \in Desk /\ desk'.running = desk.running /\ desk'.bar_count = desk.bar_count
    BY <1>1, <1>3 DEF Resume, Desk
  <2>2. past' \in [late: Nat, crossed: BOOLEAN] /\ past'.late = 0
    BY <1>1, <1>3 DEF Resume
  <2>3. TypeOK'
    BY <1>1, <1>3, <2>1, <2>2 DEF Resume, TypeOK
  <2> QED BY <1>3, <2>1, <2>2, <2>3, LooksOn DEF Resume, Serving
<1>4. CASE SetWatchlist
  <2>1. PICK w \in Watchlists : desk' = [desk EXCEPT !.symbols = w]
    BY <1>4 DEF SetWatchlist
  <2>2. /\ desk' \in Desk /\ desk'.paused = desk.paused /\ desk'.running = desk.running
        /\ desk'.bar_count = desk.bar_count
    BY <1>1, <2>1 DEF Desk
  <2>3. edits' \in 0..MaxEdits
    BY <1>1, <1>4, ControlAssumption DEF SetWatchlist, TypeOK
  <2>4. TypeOK'
    BY <1>1, <1>4, <2>2, <2>3 DEF SetWatchlist, TypeOK
  <2> QED BY <1>4, <2>2, <2>4, LooksOn DEF SetWatchlist, Serving
<1>5. CASE Finish
  <2>1. desk' \in Desk /\ desk'.paused = desk.paused /\ desk'.bar_count = desk.bar_count
    BY <1>1, <1>5 DEF Finish, Desk
  <2>2. /\ server' \in [state: {"serving", "closing", "closed"}, trading: Runs]
        /\ server'.state = "closing" /\ server'.trading = server.trading
    BY <1>1, <1>5 DEF Finish
  <2>3. TypeOK'
    BY <1>1, <1>5, <2>1, <2>2 DEF Finish, TypeOK
  <2> QED BY <1>5, <2>1, <2>2, <2>3, LooksOn DEF Finish, Serving
<1>6. CASE DeadlinePasses
  <2>1. /\ desk' \in Desk /\ desk'.paused = desk.paused /\ desk'.running = desk.running
        /\ desk'.bar_count = desk.bar_count
    BY <1>1, <1>6 DEF DeadlinePasses, Desk
  <2>2. TypeOK'
    BY <1>1, <1>6, <2>1 DEF DeadlinePasses, TypeOK
  <2> QED BY <1>6, <2>1, <2>2, LooksOn DEF DeadlinePasses, Open
<1> QED BY <1>2, <1>3, <1>4, <1>5, <1>6

LEMMA CloseMoves ==
  ASSUME IInv, ticked' = NoSymbol, Close PROVE IInv'
<1> DEFINE q == server.trading
           n == ended(run[q], "stopped")
<1>1. /\ TypeOK /\ q \in Runs /\ run[q] \in Run /\ desk \in Desk /\ Budget(run[q], desk) /\ Late
      /\ server.state = "closing" /\ UNCHANGED <<tracked, feed, edits, past>>
  BY DEF IInv, TypeOK, Close
<1>2. n \in Run /\ n.pc = "ended" /\ n.why = "stopped" /\ n.made = run[q].made
  BY <1>1, EndedType DEF Why
<1>3. run' = [run EXCEPT ![q] = n] /\ (desk' = desk \/ desk' = [desk EXCEPT !.running = FALSE])
  BY DEF Close, End
<1>4. desk' \in Desk /\ desk'.paused = desk.paused /\ desk'.bar_count = desk.bar_count
  BY <1>1, <1>3 DEF Desk
<1>5. /\ server' \in [state: {"serving", "closing", "closed"}, trading: Runs]
      /\ server'.state = "closed" /\ server'.trading = q
  BY <1>1 DEF Close, TypeOK
<1> HIDE DEF n
<1>6. run' \in [Runs -> Run] /\ run'[q] = n /\ \A r \in Runs : r # q => run'[r] = run[r]
  BY <1>1, <1>2, <1>3 DEF TypeOK
<1>7. TypeOK'
  BY <1>1, <1>4, <1>5, <1>6 DEF TypeOK
<1>8. \A r \in Runs : ~Live(r)'
  BY <1>1, <1>2, <1>6 DEF Live, Latest, IInv
<1>9. \A r \in Runs : ~Deciding(run'[r])
  BY <1>8 DEF Live, Deciding
<1>10. Latest' /\ Idle' /\ Driver' /\ Closed' /\ Late'
  BY <1>1, <1>4, <1>5, <1>8, <1>9 DEF Latest, Idle, Driver, Closed, Late
<1>11. \A r \in Runs : Budget(run[r], desk)'
  <2> TAKE r \in Runs
  <2>1. CASE r = q
    BY <1>1, <1>2, <1>6, <2>1 DEF Budget
  <2>2. CASE r # q
    BY <1>4, <1>6, <2>2 DEF Budget, IInv
  <2> QED BY <2>1, <2>2
<1> QED BY <1>7, <1>10, <1>11 DEF IInv

\* Start while nothing runs: there is no task left that the new one could
\* meet, if the one that Start created before has run.
LEMMA RelaunchMoves ==
  ASSUME IInv, ticked' = NoSymbol, Relaunch, "double_start" \notin Env PROVE IInv'
<1>1. PICK r \in Runs : Launch(r)
  BY DEF Relaunch
<1> DEFINE n == [run[r] EXCEPT !.pc = "created"]
<1>2. /\ TypeOK /\ run[r] \in Run /\ desk \in Desk /\ Budget(run[r], desk)
      /\ run[r].pc = "unlaunched" /\ UNCHANGED <<tracked, feed, edits>>
      /\ ~desk.running /\ server.state = "serving"
  BY <1>1 DEF IInv, TypeOK, Launch, Relaunch, Serving
<1>3. run' = [run EXCEPT ![r] = n] /\ server' = [server EXCEPT !.trading = r]
      /\ desk' = [desk EXCEPT !.paused = FALSE] /\ past' = [past EXCEPT !.late = 0]
  BY <1>1 DEF Launch
<1>4. /\ n \in Run /\ n.pc = "created" /\ n.made = run[r].made /\ n.why = run[r].why
      /\ n.first_bar = run[r].first_bar
  <2>1. n \in Run
    BY <1>2, SetPc DEF PC
  <2> QED BY <1>2, <2>1 DEF Run
<1> HIDE DEF n
<1>5. desk' \in Desk /\ ~desk'.running /\ desk'.bar_count = desk.bar_count
  BY <1>2, <1>3 DEF Desk
<1>6. /\ server' \in [state: {"serving", "closing", "closed"}, trading: Runs]
      /\ server'.state = "serving" /\ server'.trading = r
  BY <1>2, <1>3 DEF TypeOK
<1>7. past' \in [late: Nat, crossed: BOOLEAN] /\ past'.late = 0
  BY <1>2, <1>3 DEF TypeOK
<1>8. run' \in [Runs -> Run] /\ run'[r] = n /\ \A q \in Runs : q # r => run'[q] = run[q]
  BY <1>2, <1>3, <1>4 DEF TypeOK
<1>9. TypeOK'
  BY <1>2, <1>5, <1>6, <1>7, <1>8 DEF TypeOK
<1>10. \A q \in Runs : ~Live(q)
  <2>1. \A q \in Runs : ~Active(q)
    BY <1>2 DEF IInv, Idle
  <2>2. \A q \in Runs : run[q].pc # "created"
    BY DEF Relaunch
  <2> QED BY <2>1, <2>2 DEF Active, Live
<1>11. Latest' /\ Closed'
  BY <1>4, <1>6, <1>8, <1>10 DEF Latest, Closed, Live
<1>12. Idle'
  BY <1>4, <1>8, <1>10 DEF Idle, Active, Live
<1>13. Driver' /\ Late'
  BY <1>5, <1>7 DEF Driver, Late
<1>14. \A q \in Runs : Budget(run[q], desk)'
  <2> TAKE q \in Runs
  <2>1. CASE q = r
    BY <1>2, <1>4, <1>8, <2>1 DEF Budget
  <2>2. CASE q # r
    BY <1>5, <1>8, <2>2 DEF Budget, IInv
  <2> QED BY <2>1, <2>2
<1> QED BY <1>9, <1>11, <1>12, <1>13, <1>14 DEF IInv

LEMMA NextMoves ==
  ASSUME IInv, [Next]_vars, "double_start" \notin Env PROVE IInv'
<1>1. CASE UNCHANGED vars
  <2>1. TypeOK'
    BY <1>1 DEF IInv, TypeOK, vars
  <2>2. Latest' /\ Idle' /\ Driver' /\ Closed' /\ Late'
    BY <1>1 DEF IInv, vars, Latest, Idle, Driver, Closed, Late, Live, Active, Deciding
  <2>3. \A r \in Runs : Budget(run[r], desk)'
    BY <1>1 DEF IInv, vars, Budget
  <2> QED BY <2>1, <2>2, <2>3 DEF IInv
<1>2. CASE \E r \in Runs : RunStep(r)
  BY <1>2, RunStepMoves
<1>3. CASE Outside
  BY <1>3, OutsideMoves, CloseMoves, RelaunchMoves DEF Outside
<1> QED BY <1>1, <1>2, <1>3 DEF Next

-----------------------------------------------------------------------------
(* The theorems.  All assume that a Start is not handled twice before the  *)
(* task of the first one has run.                                          *)

LEMMA Inductive == ASSUME "double_start" \notin Env PROVE Spec => []IInv
<1>1. Init => IInv
  BY InitInv
<1>2. IInv /\ [Next]_vars => IInv'
  BY NextMoves
<1> QED BY <1>1, <1>2, PTL DEF Spec

\* Every variable of the desk has its type throughout.
THEOREM ControlTypes == ASSUME "double_start" \notin Env PROVE Spec => []TypeOK
<1>1. IInv => TypeOK
  BY DEF IInv
<1> QED BY <1>1, Inductive, PTL

\* Whatever is clicked, at most one task of run_forever() trades at a time.
THEOREM OneDriverAlways == ASSUME "double_start" \notin Env PROVE Spec => []OneDriver
<1>1. IInv => OneDriver
  BY DEF IInv, Latest, OneDriver, Live, Active
<1> QED BY <1>1, Inductive, PTL

\* A desk that the dashboard shows as running is run by a task, unless the
\* startup() of the latest launch raised.
THEOREM RunningIsDriven == ASSUME "double_start" \notin Env PROVE Spec => []RunningMeansDriven
<1>1. IInv => RunningMeansDriven
  BY DEF IInv, Driver, RunningMeansDriven, Serving
<1> QED BY <1>1, Inductive, PTL

\* At most one order goes out after pause().
THEOREM PauseIsKept == ASSUME "double_start" \notin Env PROVE Spec => []PauseHolds
<1>1. IInv => PauseHolds
  BY DEF IInv, Late, PauseHolds
<1> QED BY <1>1, Inductive, PTL

\* Every run makes its own --max-bars and no more.
THEOREM FullBudget == ASSUME "double_start" \notin Env PROVE Spec => []FullAllowance
<1>1. IInv => FullAllowance
  BY DEF IInv, Budget, FullAllowance
<1> QED BY <1>1, Inductive, PTL

\* The journal is closed on no task of run_forever().
THEOREM QuietShutdown == ASSUME "double_start" \notin Env PROVE Spec => []ClosedMeansQuiet
<1>1. IInv => ClosedMeansQuiet
  BY DEF IInv, Closed, ClosedMeansQuiet, Live, Active
<1> QED BY <1>1, Inductive, PTL

=============================================================================
