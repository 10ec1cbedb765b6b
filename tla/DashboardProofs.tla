--------------------------- MODULE DashboardProofs ---------------------------
(***************************************************************************)
(* What the dashboard shows is of this process, of these symbols, and      *)
(* current, for any agents, watchlists, TTLs and number of processes: the  *)
(* invariants of Dashboard.                                                *)
(***************************************************************************)
EXTENDS Dashboard, SequenceTheorems, WellFoundedInduction, TLAPS

\* Rows are in the order of the processes that wrote them.
Chronicle ==
  /\ \A i \in DOMAIN rows : rows[i].process <= process
  /\ \A i, j \in DOMAIN rows : i <= j => rows[i].process <= rows[j].process

\* Every bar that was counted was made; one that is due was not counted yet.
Counted == writes.due => bar_index < writes.bars

\* Data for another watchlist, kept or on its way, is at least as old as the
\* change.
Aged(data) == data.symbols # watchlist => tape.since <= data.age
AgedTape ==
  /\ tape.cache # Nothing => Aged(tape.cache)
  /\ view = "market" => \A call \in tape.calls : Aged(call)

\* The panel of a bar, by the rows of the panel's agents.
runs_of(b) == IF b = Nothing THEN {} ELSE runs_for_bar(b)
cards_of(b, agent) ==
  LET matching == {id \in runs_of(b) : rows[id].agent = agent}
  IN IF matching = {} /\ b # Nothing /\ agent \in CachedAgents
     THEN last_run_for_agent(agent) ELSE matching
snapshot_of(b, w) ==
  [bar_id |-> b, panel |-> [agent \in PanelAgents |-> cards_of(b, agent)], watchlist |-> w]

\* What the client was sent for the bar_index of now is what there is to see,
\* unless a bar is about to be counted.
Current ==
  client.sent # Nothing =>
    /\ client.last[3] \in Nat /\ client.last[3] <= bar_index
    /\ ~writes.due /\ client.last[3] = bar_index =>
         client.sent = snapshot_of(client.last[1], client.last[4])

IInv == TypeOK /\ Counted /\ Chronicle /\ AgedTape /\ Current

\* The first row of some has the least id.
LEMMA FirstRow ==
  ASSUME NEW ids \in SUBSET Nat, ids # {}
  PROVE  Min(ids) \in ids /\ \A id \in ids : Min(ids) <= id
<1> DEFINE less == {ss \in Nat \X Nat : ss[1] < ss[2]}
<1>1. IsWellFoundedOn(less, Nat)
  BY NatLessThanWellFounded DEF OpToRel
<1>2. PICK first \in ids : \A id \in ids : <<id, first>> \notin less
  <2> HIDE DEF less
  <2> QED BY <1>1, WFMin
<1>3. ASSUME NEW id \in ids PROVE first <= id
  <2>1. <<id, first>> \notin less /\ <<id, first>> \in Nat \X Nat
    BY <1>2
  <2> QED BY <2>1
<1> QED BY <1>2, <1>3 DEF Min

-----------------------------------------------------------------------------
(* Rows that are added                                                     *)

\* What log_agent_runs() does: the rows there were stay where they were, the
\* new ones are of this process, of this bar and of the given agents.
LEMMA RowsAdded ==
  ASSUME NEW bar_id \in BarId, NEW agents \in Seq(PanelAgents \cup {"reflection", "deep"}),
         rows \in Seq(RunRow), process \in Nat, log_agent_runs(bar_id, agents)
  PROVE  /\ rows' \in Seq(RunRow)
         /\ Len(rows) \in Nat /\ Len(rows') = Len(rows) + Len(agents)
         /\ DOMAIN rows = 1..Len(rows) /\ DOMAIN rows' = 1..Len(rows')
         /\ \A id \in DOMAIN rows : id \in DOMAIN rows' /\ rows'[id] = rows[id]
         /\ \A id \in DOMAIN rows' \ DOMAIN rows :
              /\ rows'[id].process = process
              /\ \E n \in DOMAIN agents : rows'[id].agent = agents[n]
<1> DEFINE new == [n \in DOMAIN agents |->
                     [bar_id |-> bar_id, agent |-> agents[n], process |-> process]]
<1>1. /\ Len(agents) \in Nat /\ DOMAIN agents = 1..Len(agents)
      /\ \A n \in DOMAIN agents : agents[n] \in PanelAgents \cup {"reflection", "deep"}
  BY LenProperties, ElementOfSeq
<1>2. \A n \in DOMAIN agents :
        [bar_id |-> bar_id, agent |-> agents[n], process |-> process] \in RunRow
  BY <1>1 DEF RunRow
<1>3. new \in Seq(RunRow) /\ Len(new) = Len(agents)
  BY <1>1, <1>2, IsASeq
<1>4. rows' = rows \o new
  BY DEF log_agent_runs
<1>5. \A n \in DOMAIN agents : new[n].process = process /\ new[n].agent = agents[n]
  OBVIOUS
<1> HIDE DEF new
<1>6. /\ rows' \in Seq(RunRow) /\ Len(rows') = Len(rows) + Len(new)
      /\ \A i \in 1..(Len(rows) + Len(new)) :
           rows'[i] = IF i <= Len(rows) THEN rows[i] ELSE new[i - Len(rows)]
  <2>1. rows \in Seq(RunRow) /\ new \in Seq(RunRow)
    BY <1>3
  <2>2. /\ rows \o new \in Seq(RunRow) /\ Len(rows \o new) = Len(rows) + Len(new)
        /\ \A i \in 1..Len(rows) + Len(new) :
             (rows \o new)[i] = IF i <= Len(rows) THEN rows[i] ELSE new[i - Len(rows)]
    BY <2>1, ConcatProperties, Zenon
  <2> QED BY <1>4, <2>2
<1>7. Len(rows) \in Nat /\ DOMAIN rows = 1..Len(rows) /\ DOMAIN rows' = 1..Len(rows')
  BY <1>6, LenProperties
<1>8. ASSUME NEW id \in DOMAIN rows' \ DOMAIN rows
      PROVE  id - Len(rows) \in DOMAIN agents /\ rows'[id] = new[id - Len(rows)]
  BY <1>1, <1>3, <1>6, <1>7
<1>9. ASSUME NEW id \in DOMAIN rows' \ DOMAIN rows
      PROVE  rows'[id].process = process /\ \E n \in DOMAIN agents : rows'[id].agent = agents[n]
  BY <1>5, <1>8
<1>10. \A id \in DOMAIN rows : id \in DOMAIN rows' /\ rows'[id] = rows[id]
  BY <1>1, <1>3, <1>6, <1>7
<1> QED BY <1>3, <1>6, <1>7, <1>9, <1>10

-----------------------------------------------------------------------------
(* Every step keeps the invariant                                          *)

\* What a step can do to the journal: nothing, or rows of a bar, or one of an
\* agent that has no card.
LEMMA JournalSteps ==
  ASSUME TypeOK, [Next]_vars
  PROVE  \/ rows' = rows
         \/ /\ LogDecision
            /\ \E agents \in BarAgents : log_agent_runs([kind |-> "bar", n |-> writes.bars], agents)
         \/ /\ LogOther
            /\ \E b \in BarId, agent \in {"reflection", "deep"} : log_agent_runs(b, <<agent>>)
<1>1. CASE LogOther
  <2>1. PICK s \in Assets : \/ log_agent_runs([kind |-> "exit", n |-> s], <<"reflection">>)
                            \/ log_agent_runs([kind |-> "deep", n |-> s], <<"deep">>)
    BY <1>1 DEF LogOther
  <2>2. [kind |-> "exit", n |-> s] \in BarId /\ [kind |-> "deep", n |-> s] \in BarId
    BY DEF BarId
  <2> QED BY <1>1, <2>1, <2>2
<1>2. CASE LogDecision
  BY <1>2 DEF LogDecision
<1>3. CASE ~LogOther /\ ~LogDecision
  BY <1>3 DEF Next, vars, Poll, AdvanceBar, Fetch, Fetched, SetWatchlist, Pass, Restart
<1> QED BY <1>1, <1>2, <1>3

\* Rows that are added are of this process, and those of a bar of panel agents.
LEMMA JournalGrows ==
  ASSUME TypeOK, [Next]_vars
  PROVE  /\ rows' \in Seq(RunRow)
         /\ \A id \in DOMAIN rows : id \in DOMAIN rows' /\ rows'[id] = rows[id]
         /\ \A id \in DOMAIN rows' \ DOMAIN rows :
              /\ rows'[id].process = process
              /\ LogOther => rows'[id].agent \notin PanelAgents
         /\ \A i \in DOMAIN rows, j \in DOMAIN rows' \ DOMAIN rows : i < j
         /\ DOMAIN rows \subseteq Int /\ DOMAIN rows' \subseteq Int
<1>0. rows \in Seq(RunRow) /\ process \in Nat /\ DOMAIN rows \subseteq Int
  BY LenProperties DEF TypeOK
<1>1. CASE rows' = rows
  BY <1>0, <1>1
<1>2. ASSUME NEW agents \in BarAgents, LogDecision,
             log_agent_runs([kind |-> "bar", n |-> writes.bars], agents)
      PROVE  /\ rows' \in Seq(RunRow)
             /\ \A id \in DOMAIN rows : id \in DOMAIN rows' /\ rows'[id] = rows[id]
             /\ \A id \in DOMAIN rows' \ DOMAIN rows : rows'[id].process = process
             /\ ~LogOther
             /\ \A i \in DOMAIN rows, j \in DOMAIN rows' \ DOMAIN rows : i < j
             /\ DOMAIN rows' \subseteq Int
  <2>1. [kind |-> "bar", n |-> writes.bars] \in BarId
    BY DEF TypeOK, Writes, BarId
  <2>2. agents \in Seq(PanelAgents \cup {"reflection", "deep"})
    BY DashboardAssumption, LenProperties, IsASeq, ElementOfSeq
  <2>3. ~LogOther
    BY <1>2 DEF LogDecision, LogOther, TypeOK, Writes
  <2> QED BY <1>0, <2>1, <2>2, <2>3, <1>2, RowsAdded
<1>3. ASSUME NEW b \in BarId, NEW agent \in {"reflection", "deep"}, log_agent_runs(b, <<agent>>)
      PROVE  /\ rows' \in Seq(RunRow)
             /\ \A id \in DOMAIN rows : id \in DOMAIN rows' /\ rows'[id] = rows[id]
             /\ \A id \in DOMAIN rows' \ DOMAIN rows :
                  rows'[id].process = process /\ rows'[id].agent \notin PanelAgents
             /\ \A i \in DOMAIN rows, j \in DOMAIN rows' \ DOMAIN rows : i < j
             /\ DOMAIN rows' \subseteq Int
  <2>1. <<agent>> \in Seq(PanelAgents \cup {"reflection", "deep"})
    OBVIOUS
  <2>2. \A n \in DOMAIN <<agent>> : <<agent>>[n] = agent
    OBVIOUS
  <2> DEFINE agents == <<agent>>
  <2> HIDE DEF agents
  <2>3. agents \in Seq(PanelAgents \cup {"reflection", "deep"}) /\ log_agent_runs(b, agents)
    BY <2>1, <1>3 DEF agents
  <2>4. \A n \in DOMAIN agents : agents[n] = agent
    BY <2>2 DEF agents
  <2>5. agent \notin PanelAgents
    BY DashboardAssumption
  <2> QED BY <1>0, <2>3, <2>4, <2>5, RowsAdded
<1> QED BY <1>1, <1>2, <1>3, JournalSteps

LEMMA CountersKept ==
  ASSUME TypeOK, Counted, [Next]_vars
  PROVE  /\ writes' \in Writes /\ process' \in 1..MaxProcesses
         /\ bar_index' \in 0..writes'.bars /\ Counted'
<1>1. /\ writes.bars \in Nat /\ writes.others \in Nat /\ writes.edits \in Nat
      /\ writes.due \in BOOLEAN /\ bar_index \in Nat /\ bar_index <= writes.bars
      /\ process \in 1..MaxProcesses /\ MaxProcesses \in Nat
      /\ writes = [bars |-> writes.bars, others |-> writes.others,
                   edits |-> writes.edits, due |-> writes.due]
      /\ writes.due => bar_index < writes.bars
  BY DashboardAssumption DEF TypeOK, Writes, Counted
<1> DEFINE Goal == /\ writes' \in Writes /\ process' \in 1..MaxProcesses
                   /\ bar_index' \in 0..writes'.bars /\ Counted'
<1> USE DEF Writes, Counted
<1>2. CASE LogDecision
  <2>1. /\ writes' = [bars |-> writes.bars + 1, others |-> writes.others,
                      edits |-> writes.edits, due |-> TRUE]
        /\ bar_index' = bar_index /\ process' = process
    BY <1>1, <1>2 DEF LogDecision
  <2> QED BY <1>1, <2>1
<1>3. CASE AdvanceBar
  <2>1. /\ writes' = [bars |-> writes.bars, others |-> writes.others,
                      edits |-> writes.edits, due |-> FALSE]
        /\ bar_index' = bar_index + 1 /\ process' = process /\ writes.due
    BY <1>1, <1>3 DEF AdvanceBar
  <2> QED BY <1>1, <2>1
<1>4. CASE LogOther
  <2>1. /\ writes' = [bars |-> writes.bars, others |-> writes.others + 1,
                      edits |-> writes.edits, due |-> writes.due]
        /\ bar_index' = bar_index /\ process' = process
    BY <1>1, <1>4 DEF LogOther
  <2> QED BY <1>1, <2>1
<1>5. CASE SetWatchlist
  <2>1. /\ writes' = [bars |-> writes.bars, others |-> writes.others,
                      edits |-> writes.edits + 1, due |-> writes.due]
        /\ bar_index' = bar_index /\ process' = process
    BY <1>1, <1>5 DEF SetWatchlist
  <2> QED BY <1>1, <2>1
<1>6. CASE Restart
  <2>1. /\ writes' = [bars |-> writes.bars, others |-> writes.others,
                      edits |-> writes.edits, due |-> FALSE]
        /\ bar_index' = bar_index /\ process' = process + 1 /\ process < MaxProcesses
    BY <1>1, <1>6 DEF Restart
  <2> QED BY <1>1, <2>1
<1>7. CASE UNCHANGED <<writes, process, bar_index>>
  BY <1>1, <1>7
<1> QED BY <1>2, <1>3, <1>4, <1>5, <1>6, <1>7 DEF Next, vars, Poll, Fetch, Fetched, Pass

\* What the cache and the calls hold.
Data == [symbols: Watchlists, age: 0..Oldest]

LEMMA Ages ==
  /\ Oldest \in Nat
  /\ \A age \in 0..Oldest : older(age) \in 0..Oldest
  /\ \A a, b \in 0..Oldest : a <= b => older(a) <= older(b)
  /\ \A data \in Data : /\ grown(data) \in Data /\ grown(data).symbols = data.symbols
                        /\ grown(data).age = older(data.age)
<1>1. Oldest \in Nat
  BY DashboardAssumption DEF Oldest
<1>2. \A age \in 0..Oldest : older(age) \in 0..Oldest
  BY <1>1 DEF older
<1>3. \A a, b \in 0..Oldest : a <= b => older(a) <= older(b)
  BY <1>1 DEF older
<1> QED BY <1>1, <1>2, <1>3 DEF grown, Data

\* What a step makes of the tape.
LEMMA TapeSteps ==
  ASSUME TypeOK, [Next]_vars
  PROVE  /\ tape.cache \in Data \cup {Nothing} /\ tape.calls \subseteq Data
         /\ tape.since \in 0..Oldest
         /\ \/ UNCHANGED <<view, watchlist, tape>>
            \/ /\ UNCHANGED <<view, watchlist>>
               /\ tape' = [cache |-> tape.cache, since |-> tape.since,
                           calls |-> tape.calls \cup {[symbols |-> watchlist, age |-> 0]}]
            \/ /\ UNCHANGED <<view, watchlist>>
               /\ \E call \in tape.calls :
                    tape' = [cache |-> stored(call), since |-> tape.since,
                             calls |-> tape.calls \ {call}]
            \/ /\ UNCHANGED view
               /\ watchlist' \in Watchlists
               /\ \E kept \in {tape.cache, Nothing} :
                    tape' = [cache |-> kept, since |-> 0, calls |-> tape.calls]
            \/ /\ UNCHANGED <<view, watchlist>>
               /\ tape' = [cache |-> IF tape.cache = Nothing THEN Nothing ELSE grown(tape.cache),
                           since |-> older(tape.since),
                           calls |-> {grown(call) : call \in tape.calls}]
            \/ UNCHANGED <<view, watchlist>> /\ tape' = NewTape
<1>1. /\ tape.cache \in Data \cup {Nothing} /\ tape.calls \subseteq Data
      /\ tape.since \in 0..Oldest
      /\ tape = [cache |-> tape.cache, calls |-> tape.calls, since |-> tape.since]
  BY DEF TypeOK, Tape, Data
<1>2. CASE Fetch
  BY <1>1, <1>2 DEF Fetch
<1>3. CASE Fetched
  BY <1>1, <1>3 DEF Fetched
<1>4. CASE SetWatchlist
  BY <1>1, <1>4 DEF SetWatchlist
<1>5. CASE Pass
  BY <1>1, <1>5 DEF Pass
<1>6. CASE Restart
  BY <1>1, <1>6 DEF Restart
<1>7. CASE UNCHANGED <<view, watchlist, tape>>
  BY <1>1, <1>7
<1> QED BY <1>2, <1>3, <1>4, <1>5, <1>6, <1>7
        DEF Next, vars, Poll, LogDecision, AdvanceBar, LogOther

LEMMA TapeKept ==
  ASSUME TypeOK, [Next]_vars
  PROVE  tape' \in Tape /\ watchlist' \in Watchlists /\ view' = view
<1>1. watchlist \in Watchlists /\ tape \in Tape
  BY DEF TypeOK
<1>2. Tape = [cache: Data \cup {Nothing}, calls: SUBSET Data, since: 0..Oldest]
  BY DEF Tape, Data
<1>3. 0 \in 0..Oldest /\ Oldest \in 0..Oldest /\ [symbols |-> watchlist, age |-> 0] \in Data
  BY <1>1, Ages DEF Data
<1>4. \A call \in Data : stored(call) \in Data
  BY <1>1 DEF stored, Data
<1>5. NewTape \in Tape
  BY <1>2, <1>3 DEF NewTape
<1>6. \A calls \in SUBSET Data : {grown(call) : call \in calls} \subseteq Data
  BY Ages
<1> QED BY <1>1, <1>2, <1>3, <1>4, <1>5, <1>6, TapeSteps, Ages

LEMMA ChronicleKept ==
  ASSUME TypeOK, Chronicle, [Next]_vars
  PROVE  Chronicle'
<1>1. process \in Nat /\ process' \in Nat /\ process <= process'
  <2>1. process \in Nat
    BY DEF TypeOK
  <2>2. process' = process \/ process' = process + 1
    BY DEF Next, vars, Poll, LogDecision, AdvanceBar, LogOther, Fetch, Fetched,
           SetWatchlist, Pass, Restart
  <2> QED BY <2>1, <2>2
<1>2. \A id \in DOMAIN rows : rows[id] \in RunRow
  BY ElementOfSeq, LenProperties DEF TypeOK
<1>3. \A id \in DOMAIN rows : rows[id].process \in Nat
  BY <1>2 DEF RunRow
<1> QED BY <1>1, <1>3, JournalGrows DEF Chronicle

LEMMA AgedKept ==
  ASSUME TypeOK, AgedTape, [Next]_vars
  PROVE  AgedTape'
<1>1. \A data \in Data : data.age \in 0..Oldest
  BY DEF Data
<1> USE DEF AgedTape, Aged
<1>2. ASSUME UNCHANGED <<view, watchlist>>,
             NEW call \in tape.calls, call \in Data,
             tape' = [cache |-> stored(call), since |-> tape.since, calls |-> tape.calls \ {call}]
      PROVE  AgedTape'
  BY <1>2 DEF stored
<1>3. ASSUME UNCHANGED <<view, watchlist>>,
             tape.cache \in Data \cup {Nothing}, tape.calls \subseteq Data, tape.since \in 0..Oldest,
             tape' = [cache |-> IF tape.cache = Nothing THEN Nothing ELSE grown(tape.cache),
                      since |-> older(tape.since),
                      calls |-> {grown(call) : call \in tape.calls}]
      PROVE  AgedTape'
  <2>1. ASSUME NEW data \in Data, data.symbols # watchlist => tape.since <= data.age
        PROVE  grown(data).symbols # watchlist => older(tape.since) <= grown(data).age
    BY <1>1, <1>3, <2>1, Ages
  <2>2. (tape.cache # Nothing => Aged(tape.cache))'
    BY <1>3, <2>1
  <2>3. (view = "market" => \A call \in tape.calls : Aged(call))'
    BY <1>3, <2>1
  <2> QED BY <2>2, <2>3
<1>4. ASSUME tape.calls \subseteq Data, tape.cache \in Data \cup {Nothing},
             NEW kept \in {tape.cache, Nothing},
             tape' = [cache |-> kept, since |-> 0, calls |-> tape.calls]
      PROVE  AgedTape'
  BY <1>1, <1>4, Ages
<1>5. CASE UNCHANGED <<view, watchlist, tape>>
  BY <1>5
<1>6. CASE UNCHANGED <<view, watchlist>> /\ tape' = NewTape
  BY <1>6 DEF NewTape
<1>7. ASSUME UNCHANGED <<view, watchlist>>,
             tape' = [cache |-> tape.cache, since |-> tape.since,
                      calls |-> tape.calls \cup {[symbols |-> watchlist, age |-> 0]}]
      PROVE  AgedTape'
  BY <1>7
<1> QED BY <1>2, <1>3, <1>4, <1>5, <1>6, <1>7, TapeSteps

-----------------------------------------------------------------------------
(* The client                                                              *)

\* Rows of agents without a card change no card of a given bar.
LEMMA CardsSettled ==
  ASSUME TypeOK, [Next]_vars, rows' = rows \/ LogOther, process' = process, NEW b, NEW w
  PROVE  snapshot_of(b, w)' = snapshot_of(b, w)
<1>1. \A agent \in PanelAgents :
        /\ {id \in runs_of(b) : rows[id].agent = agent}'
             = {id \in runs_of(b) : rows[id].agent = agent}
        /\ {id \in DOMAIN rows : rows[id].agent = agent /\ rows[id].process >= process}'
             = {id \in DOMAIN rows : rows[id].agent = agent /\ rows[id].process >= process}
  BY JournalGrows DEF runs_of, runs_for_bar
<1>2. \A agent \in PanelAgents : last_run_for_agent(agent)' = last_run_for_agent(agent)
  BY <1>1 DEF last_run_for_agent, newest
<1>3. \A agent \in PanelAgents : cards_of(b, agent)' = cards_of(b, agent)
  BY <1>1, <1>2 DEF cards_of
<1> QED BY <1>3 DEF snapshot_of

LEMMA CurrentKept ==
  ASSUME TypeOK, Counted, Current, [Next]_vars
  PROVE  Current'
<1>1. bar_index \in Nat
  BY DEF TypeOK
<1>2. CASE Poll
  <2>1. CASE client' = client
    <3>1. snapshot_of(client.last[1], client.last[4])' = snapshot_of(client.last[1], client.last[4])
      BY <1>2, <2>1 DEF Poll, snapshot_of, cards_of, runs_of, runs_for_bar, last_run_for_agent
    <3> QED BY <1>2, <2>1, <3>1 DEF Poll, Current
  <2>2. CASE client' = [last |-> fingerprint, sent |-> snapshot]
    <3>1. snapshot = snapshot_of(shown_bar, watchlist)
      BY DEF snapshot, snapshot_of, panel, cards, cards_of, shown_runs, runs_of
    <3>2. client'.last[1] = shown_bar /\ client'.last[4] = watchlist
      BY <2>2 DEF fingerprint
    <3>3. rows' = rows /\ process' = process
      BY <1>2 DEF Poll
    <3>4. \A agent \in PanelAgents :
            cards_of(client.last[1], agent)' = cards_of(shown_bar, agent)
      BY <3>2, <3>3 DEF cards_of, runs_of, runs_for_bar, last_run_for_agent
    <3>5. snapshot_of(shown_bar, watchlist) = snapshot_of(client.last[1], client.last[4])'
      BY <3>2, <3>4 DEF snapshot_of
    <3> QED BY <1>1, <1>2, <2>2, <3>1, <3>5 DEF Poll, Current, fingerprint
  <2> QED BY <1>2, <2>1, <2>2 DEF Poll
<1>3. CASE LogDecision
  BY <1>1, <1>3 DEF LogDecision, Current, TypeOK, Writes
<1>4. CASE AdvanceBar
  BY <1>1, <1>4 DEF AdvanceBar, Current
<1>5. CASE Restart
  BY <1>5 DEF Restart, NewClient, Current
<1>6. CASE LogOther \/ Fetch \/ Fetched \/ SetWatchlist \/ Pass \/ UNCHANGED vars
  <2>1. /\ client' = client /\ bar_index' = bar_index /\ process' = process
        /\ writes'.due = writes.due /\ (rows' = rows \/ LogOther)
    BY <1>6 DEF LogOther, Fetch, Fetched, SetWatchlist, Pass, vars, TypeOK, Writes
  <2>2. snapshot_of(client.last[1], client.last[4])' = snapshot_of(client.last[1], client.last[4])
    BY <2>1, CardsSettled DEF snapshot_of, cards_of
  <2> QED BY <2>1, <2>2 DEF Current
<1> QED BY <1>2, <1>3, <1>4, <1>5, <1>6 DEF Next

-----------------------------------------------------------------------------
(* The theorems                                                            *)

LEMMA InitInv == ASSUME Init PROVE IInv
<1>1. Counted /\ Chronicle /\ AgedTape /\ Current
  BY DEF Init, Counted, Chronicle, AgedTape, Current, NewTape, NewClient
<1>2. NewTape \in Tape
  BY Ages DEF NewTape, Tape
<1> QED BY <1>1, <1>2, DashboardAssumption DEF Init, IInv, TypeOK, Writes

LEMMA Inductive == Spec => []IInv
<1>1. IInv /\ [Next]_vars => IInv'
  <2> SUFFICES ASSUME IInv, [Next]_vars PROVE IInv'
    OBVIOUS
  <2>1. TypeOK /\ Counted /\ Chronicle /\ AgedTape /\ Current
    BY DEF IInv
  <2>2. TypeOK'
    BY <2>1, CountersKept, TapeKept, JournalGrows DEF TypeOK
  <2> QED BY <2>1, <2>2, CountersKept, ChronicleKept, AgedKept, CurrentKept DEF IInv
<1> QED BY <1>1, InitInv, PTL DEF Spec

\* The journal holds rows, the counters stay within what was written, and the
\* tape keeps data of watchlists.
THEOREM DashboardTypes == Spec => []TypeOK
<1>1. IInv => TypeOK
  BY DEF IInv
<1> QED BY <1>1, Inductive, PTL

\* No card on the panel was written before this process began: the first row
\* of a bar is its oldest.
THEOREM CardsAreOwn == Spec => []NoStaleCards
<1>1. IInv => NoStaleCards
  <2> SUFFICES ASSUME IInv, NEW agent \in PanelAgents, NEW id \in panel[agent]
               PROVE  rows[id].process = process
    BY DEF NoStaleCards
  <2>1. rows \in Seq(RunRow) /\ process \in Nat /\ DOMAIN rows = 1..Len(rows) /\ Len(rows) \in Nat
    BY LenProperties DEF IInv, TypeOK
  <2>2. \A i \in DOMAIN rows : rows[i].process \in Nat
    <3>1. \A i \in DOMAIN rows : rows[i] \in RunRow
      BY <2>1, ElementOfSeq
    <3> QED BY <3>1 DEF RunRow
  <2>3. CASE id \in last_run_for_agent(agent)
    BY <2>1, <2>2, <2>3 DEF last_run_for_agent, newest, IInv, Chronicle
  <2>4. CASE id \in shown_runs
    <3> DEFINE ids == runs_for_bar(latest_bar_id)
    <3>1. id \in ids /\ rows[Min(ids)].process >= process
      <4>1. shown_bar = latest_bar_id /\ id \in runs_for_bar(shown_bar)
        BY <2>4 DEF shown_runs, shown_bar
      <4>2. ~(rows[Min(ids)].process < process)
        BY <2>4 DEF shown_runs, shown_bar
      <4>3. ids \in SUBSET Nat /\ ids # {} /\ ids \subseteq DOMAIN rows
        BY <2>1, <4>1 DEF runs_for_bar
      <4>4. Min(ids) \in DOMAIN rows
        <5> HIDE DEF ids
        <5> QED BY <4>3, FirstRow
      <4> QED BY <2>1, <2>2, <4>1, <4>2, <4>4
    <3>2. ids \in SUBSET Nat /\ ids \subseteq DOMAIN rows
      BY <2>1 DEF runs_for_bar
    <3> HIDE DEF ids
    <3>3. Min(ids) \in ids /\ Min(ids) <= id
      BY <3>1, <3>2, FirstRow
    <3> QED BY <2>1, <2>2, <3>1, <3>2, <3>3 DEF IInv, Chronicle
  <2> QED BY <2>3, <2>4 DEF panel, cards
<1> QED BY <1>1, Inductive, PTL

\* However edits and requests interleave, data for a watchlist that is no
\* longer is gone when its TTL is over.
THEOREM TapeIsFresh == Spec => []TapeIsBounded
<1>1. IInv => TapeIsBounded
  <2> SUFFICES ASSUME IInv, served, tape.cache.symbols # watchlist PROVE tape.since < TTL[view]
    BY DEF TapeIsBounded
  <2>1. view \in DOMAIN TTL /\ tape.cache # Nothing /\ tape.cache.age < TTL[view]
    BY DEF served, IInv, TypeOK
  <2>2. tape.since <= tape.cache.age
    BY <2>1 DEF IInv, AgedTape, Aged
  <2>3. tape.since \in Int /\ tape.cache.age \in Int
    BY <2>1, Ages DEF IInv, TypeOK, Tape
  <2> QED BY <2>1, <2>2, <2>3, DashboardAssumption
<1> QED BY <1>1, Inductive, PTL

\* A snapshot that a fingerprint passes over is the one that was sent.
THEOREM NothingIsMissed == Spec => []NothingMissed
<1>1. IInv => NothingMissed
  <2>1. snapshot = snapshot_of(shown_bar, watchlist)
    BY DEF snapshot, snapshot_of, panel, cards, cards_of, shown_runs, runs_of
  <2> QED BY <2>1 DEF IInv, Current, NothingMissed, fingerprint
<1> QED BY <1>1, Inductive, PTL

=============================================================================
