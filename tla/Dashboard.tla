------------------------------ MODULE Dashboard ------------------------------
(***************************************************************************)
(* What web/app.py shows of the desk: the panel of agent cards and the     *)
(* stream that pushes it, read from the journal's agent_runs, and the two  *)
(* cached tapes, market() and suggest().  The journal outlives the         *)
(* process; every other thing here is the process's own.                   *)
(*                                                                         *)
(* A row carries the number of the process that wrote it, in place of its  *)
(* ts: a row is from before started_at when that number is lower.  Time is *)
(* an age, counted up to the TTL of the tape; an age of the TTL is too     *)
(* old.  The stream and the two tapes share nothing but the watchlist, so  *)
(* a behaviour follows one of them, its view.  A row's id is its place in  *)
(* rows, and the result of a query is a set of ids: every query that is    *)
(* shown is ordered by id.  Numbers and wording of the cards are left out. *)
(***************************************************************************)
EXTENDS Integers, FiniteSets, Sequences, FiniteSetsExt

CONSTANTS PanelAgents,      \* AGENT_ORDER
          CachedAgents,     \* CACHED_AGENTS
          BarAgents,        \* the agents that run in a bar, in the order of their rows
          Assets,           \* symbols of exits and of deep analyses
          Watchlists,
          ShownProposals,   \* how many proposals a snapshot holds
          TTL,              \* MARKET_TTL_S and SUGGEST_TTL_S, by the tape's name
          MaxWrites, MaxProcesses, MaxEdits,   \* bounds
          Nothing

ASSUME DashboardAssumption ==
  /\ CachedAgents \subseteq PanelAgents /\ BarAgents \subseteq Seq(PanelAgents)
  /\ PanelAgents \cap {"reflection", "deep"} = {}
  /\ DOMAIN TTL = {"market", "suggest"} /\ \A kind \in DOMAIN TTL : TTL[kind] \in Nat \ {0}
  /\ {ShownProposals, MaxWrites, MaxEdits} \subseteq Nat /\ MaxProcesses \in Nat \ {0}

VARIABLES view,        \* what the browser looks at: the stream or a tape
          rows,        \* agent_runs
          writes,      \* what was done so far, by kind; whether a bar is due to be counted
          process,     \* which process this is
          bar_index,   \* of the session, which outlives the process
          watchlist,
          client,      \* one reader of /stream: what it was sent, and for which fingerprint
          tape         \* a tape's cache, its calls in flight, and the age of the watchlist

vars == <<view, rows, writes, process, bar_index, watchlist, client, tape>>

BarId == [kind: {"bar"}, n: Nat] \cup [kind: {"exit", "deep"}, n: Assets]
RunRow == [bar_id: BarId, agent: PanelAgents \cup {"reflection", "deep"}, process: Nat]
Writes == [bars: Nat, others: Nat, edits: Nat, due: BOOLEAN]
Oldest == TTL["market"] + TTL["suggest"]
Tape == [cache: [symbols: Watchlists, age: 0..Oldest] \cup {Nothing},
         calls: SUBSET [symbols: Watchlists, age: 0..Oldest], since: 0..Oldest]

-----------------------------------------------------------------------------
(* The journal's readers                                                   *)

latest_bar_id == IF rows = <<>> THEN Nothing ELSE rows[Len(rows)].bar_id
runs_for_bar(bar_id) == {id \in DOMAIN rows : rows[id].bar_id = bar_id}

\* The LIMIT of last_run_for_agent: the newest three.
newest(ids) == {id \in ids : Cardinality({later \in ids : later > id}) < 3}

\* Mutant: not scoped by the process.
last_run_for_agent_ever(agent) == newest({id \in DOMAIN rows : rows[id].agent = agent})

\* Rows of one agent from this process only.
last_run_for_agent(agent) ==
  newest({id \in DOMAIN rows : rows[id].agent = agent /\ rows[id].process >= process})

-----------------------------------------------------------------------------
(* snapshot() and /stream                                                  *)

\* A bar whose first row is of an earlier process is history.
shown_bar ==
  IF latest_bar_id = Nothing \/ rows[Min(runs_for_bar(latest_bar_id))].process < process
  THEN Nothing ELSE latest_bar_id
shown_runs == IF shown_bar = Nothing THEN {} ELSE runs_for_bar(shown_bar)

cards(agent) ==
  LET matching == {id \in shown_runs : rows[id].agent = agent}
  IN IF matching = {} /\ shown_bar # Nothing /\ agent \in CachedAgents
     THEN last_run_for_agent(agent) ELSE matching
panel == [agent \in PanelAgents |-> cards(agent)]
snapshot == [bar_id |-> shown_bar, panel |-> panel, watchlist |-> watchlist]

\* Each journaled bar has a proposal.
proposals ==
  LET bars == {rows[id].bar_id : id \in {i \in DOMAIN rows : rows[i].bar_id.kind = "bar"}}
  IN IF Cardinality(bars) < ShownProposals THEN Cardinality(bars) ELSE ShownProposals

\* Mutant: the bar and the counts say it all.
fingerprint_of_counts == <<shown_bar, proposals, watchlist>>

\* What stands for the snapshot in the stream.  (Orders, positions and
\* degradations only make it finer.)
fingerprint == <<shown_bar, proposals, bar_index, watchlist>>

Poll ==
  /\ view = "stream"
  /\ client' = IF client.last = fingerprint THEN client
               ELSE [last |-> fingerprint, sent |-> snapshot]
  /\ UNCHANGED <<view, rows, writes, process, bar_index, watchlist, tape>>

-----------------------------------------------------------------------------
(* The writers                                                             *)

MayWrite == view = "stream" /\ writes.bars + writes.others < MaxWrites
log_agent_runs(bar_id, agents) ==
  rows' = rows \o [n \in DOMAIN agents |->
                     [bar_id |-> bar_id, agent |-> agents[n], process |-> process]]

\* A bar journals its rows in one go, and its id is its own; or it raises
\* before that.
LogDecision ==
  /\ MayWrite /\ ~writes.due
  /\ \/ \E agents \in BarAgents : log_agent_runs([kind |-> "bar", n |-> writes.bars], agents)
     \/ rows' = rows
  /\ writes' = [writes EXCEPT !.bars = @ + 1, !.due = TRUE]
  /\ UNCHANGED <<view, process, bar_index, watchlist, client, tape>>

\* Mutant: counts what a paused loop does as well.
AdvanceBar_paused ==
  /\ bar_index' = bar_index + 1
  /\ writes' = [writes EXCEPT !.due = FALSE]
  /\ UNCHANGED <<view, rows, process, watchlist, client, tape>>

\* A bar is counted when it is over, failed or not.
AdvanceBar ==
  /\ writes.due
  /\ bar_index' = bar_index + 1
  /\ writes' = [writes EXCEPT !.due = FALSE]
  /\ UNCHANGED <<view, rows, process, watchlist, client, tape>>

\* An exit's reflection and a deep analysis are filed under an id that is
\* not a bar's, and is the same each time.
LogOther ==
  /\ MayWrite
  /\ \E s \in Assets : \/ log_agent_runs([kind |-> "exit", n |-> s], <<"reflection">>)
                       \/ log_agent_runs([kind |-> "deep", n |-> s], <<"deep">>)
  /\ writes' = [writes EXCEPT !.others = @ + 1]
  /\ UNCHANGED <<view, process, bar_index, watchlist, client, tape>>

-----------------------------------------------------------------------------
(* The tapes                                                               *)

older(age) == IF age = Oldest THEN age ELSE age + 1
grown(data) == [data EXCEPT !.age = older(@)]

\* The cache answers.
served == view # "stream" /\ tape.cache # Nothing /\ tape.cache.age < TTL[view]

\* A request that finds no fresh data: market() reads the watchlist before
\* its await, suggest() after it.
Fetch ==
  /\ view # "stream" /\ ~served
  /\ Cardinality(tape.calls) < 2
  /\ tape' = [tape EXCEPT !.calls = @ \cup {[symbols |-> watchlist, age |-> 0]}]
  /\ UNCHANGED <<view, rows, writes, process, bar_index, watchlist, client>>

\* Mutant: the data is as old as its last byte.
stored_fresh(call) ==
  [symbols |-> IF view = "market" THEN call.symbols ELSE watchlist, age |-> 0]

\* The data is as old as the request.
stored(call) ==
  [symbols |-> IF view = "market" THEN call.symbols ELSE watchlist, age |-> call.age]

Fetched ==
  /\ \E call \in tape.calls :
       tape' = [tape EXCEPT !.calls = @ \ {call}, !.cache = stored(call)]
  /\ UNCHANGED <<view, rows, writes, process, bar_index, watchlist, client>>

\* The watchlist route drops the market's data, not the suggestions.
SetWatchlist ==
  /\ writes.edits < MaxEdits
  /\ writes' = [writes EXCEPT !.edits = @ + 1]
  /\ \E w \in Watchlists \ {watchlist} : watchlist' = w
  /\ tape' = [tape EXCEPT !.since = 0, !.cache = IF view = "market" THEN Nothing ELSE @]
  /\ UNCHANGED <<view, rows, process, bar_index, client>>

Pass ==
  /\ view # "stream"
  /\ tape' = [tape EXCEPT !.since = older(@),
                          !.cache = IF @ = Nothing THEN @ ELSE grown(@),
                          !.calls = {grown(call) : call \in @}]
  /\ UNCHANGED <<view, rows, writes, process, bar_index, watchlist, client>>

-----------------------------------------------------------------------------

NewTape == [cache |-> Nothing, calls |-> {}, since |-> Oldest]
NewClient == [last |-> Nothing, sent |-> Nothing]

Init ==
  /\ rows = <<>> /\ writes = [bars |-> 0, others |-> 0, edits |-> 0, due |-> FALSE]
  /\ process = 1 /\ bar_index = 0
  /\ watchlist \in Watchlists
  /\ client = NewClient
  /\ view \in {"stream"} \cup DOMAIN TTL
  /\ tape = NewTape

\* The process ends and another one starts on the same journal; a bar that
\* was not counted yet stays so.
Restart ==
  /\ process < MaxProcesses
  /\ process' = process + 1
  /\ writes' = [writes EXCEPT !.due = FALSE]
  /\ client' = NewClient /\ tape' = NewTape
  /\ UNCHANGED <<view, rows, bar_index, watchlist>>

Next == \/ Poll \/ LogDecision \/ AdvanceBar \/ LogOther
        \/ Fetch \/ Fetched \/ SetWatchlist \/ Pass \/ Restart

Spec == Init /\ [][Next]_vars

\* The publisher sleeps a second and looks again; a bar is counted once it is
\* over.
FairSpec == Spec /\ WF_vars(Poll) /\ WF_vars(AdvanceBar)

-----------------------------------------------------------------------------
(* Properties                                                              *)

\* Every variable has its type.
TypeOK ==
  /\ view \in {"stream"} \cup DOMAIN TTL /\ writes \in Writes
  /\ rows \in Seq(RunRow) /\ process \in 1..MaxProcesses /\ bar_index \in 0..writes.bars
  /\ watchlist \in Watchlists /\ tape \in Tape

\* Nothing on the panel was written by an earlier process, neither as a card
\* of the bar nor as a cached agent's last word (snapshot, _panel).
NoStaleCards ==
  \A agent \in PanelAgents : \A id \in panel[agent] : rows[id].process = process

\* Data for another watchlist is served no longer than its TTL after the
\* change, also if it was being fetched then (market, suggest).
TapeIsBounded ==
  served /\ tape.cache.symbols # watchlist => tape.since < TTL[view]

\* Between two bars, a reader for whom there is nothing new has the desk as it
\* looks: no two snapshots that differ in bar, panel or watchlist pass for one
\* another (stream).  While a bar that was journaled is not counted they may.
NothingMissed ==
  ~writes.due /\ client.sent # Nothing /\ client.last = fingerprint => client.sent = snapshot

\* A reader of the stream ends up with what the desk last looked like
\* (stream).
StreamCatchesUp == view = "stream" => <>[](client.sent = snapshot)

=============================================================================
