---------------------------- MODULE TradingDesk ----------------------------
(***************************************************************************)
(* The order path of the desk: ExecutionEngine.execute (execution/         *)
(* engine.py) over StopManager, driven by the tasks that run               *)
(* TradingLoop.run_forever (loop.py), with the death and the restart of    *)
(* the process.  What a bar proposes and risk approves is left open: any   *)
(* BUY or SELL that the constants allow, at any time, except a BUY of a    *)
(* symbol that is cooling down, which RiskEngine never approves.           *)
(***************************************************************************)
EXTENDS StopManager

Init == BrokerInit /\ ManagerInit

-----------------------------------------------------------------------------
(* ExecutionEngine.execute                                                 *)

\* A BUY may be approved: not cooling down, within the bound of the model,
\* and, unless the desk adds on, for a symbol it has nothing of.
MayBuy(s) ==
  /\ s \notin cooling
  /\ held[s] + Lot <= MaxHeld
  /\ "add_on" \in Env \/ (held[s] = 0 /\ LiveOf(s, "entry") = {})

\* broker.submit(BUY): filled at once, or accepted.  One that is rejected
\* changes nothing this module keeps.
SubmitEntry(c, s) ==
  /\ op[c].pc = "idle" /\ c \in Tasks
  /\ MayBuy(s)
  /\ \E o \in FreeOrders :
       /\ \/ FillEntryNow(o, s)
          \/ "async_fill" \in Env /\ Accept(o, s, "entry", Lot)
       /\ op' = [op EXCEPT ![c] = [pc |-> "entry", pos |-> NoPos, order |-> o]]
  /\ UNCHANGED <<price, objs, tracked, lock, journal, recon, cooling>>

\* The reply.  FILLED arms the protection; anything else returns with no
\* stop armed, and nothing looks at the order again.
EntryReplied(c) ==
  LET order == orders[op[c].order]
  IN /\ op[c].pc = "entry"
     /\ \/ order.status = "filled" /\ Protect(c, order.sym, Lot)
        \/ /\ order.status # "filled"
           /\ op' = [op EXCEPT ![c] = Idle]
           /\ UNCHANGED <<objs, tracked>>
     /\ UNCHANGED <<brokerVars, lock, journal, recon, cooling>>

\* submit() raised: run_forever logs "Bar failed; continuing."
EntryReplyLost(c) ==
  /\ op[c].pc = "entry"
  /\ "lost_reply" \in Env
  /\ op' = [op EXCEPT ![c] = Idle]
  /\ UNCHANGED <<brokerVars, objs, tracked, lock, journal, recon, cooling>>

\* SELL of a tracked symbol: close_manually, at any price.
SellTracked(c, s) == c \in Tasks /\ BeginClose(c, s)

\* SELL of a symbol the account holds and StopManager does not track: a
\* market order for all of it, and whatever becomes of it, nothing follows.
SellUntracked(c, s) ==
  /\ op[c].pc = "idle" /\ c \in Tasks
  /\ tracked[s] = NoPos
  /\ \E o \in FreeOrders :
       \/ FillSellNow(o, s, held[s])
       \/ "async_fill" \in Env /\ held[s] > 0 /\ Accept(o, s, "sell", held[s])
  /\ UNCHANGED <<price, managerVars>>

ExecuteStep(c) ==
  \/ \E s \in Symbols : SubmitEntry(c, s) \/ SellTracked(c, s) \/ SellUntracked(c, s)
  \/ EntryReplied(c) \/ EntryReplyLost(c)

-----------------------------------------------------------------------------
(* The process and the clock                                               *)

\* Bars pass until the cooldown of s is over (session.advance_bar).
CooldownEnds(s) ==
  /\ s \in cooling
  /\ cooling' = cooling \ {s}
  /\ UNCHANGED <<brokerVars, objs, tracked, lock, journal, op, recon>>

\* The process dies: what is left is the venue and the journal, the session's
\* cooldowns among it.
Crash ==
  /\ "crash" \in Env
  /\ \E c \in Tasks : op[c].pc # "off"
  /\ objs' = [p \in PosIds |-> [sym |-> CHOOSE s \in Symbols : TRUE, qty |-> 0,
                                stop |-> NoOrder, closing |-> FALSE]]
  /\ tracked' = [s \in Symbols |-> NoPos]
  /\ lock' = [s \in Symbols |-> NoCaller]
  /\ op' = [c \in Callers |-> IF c \in Tasks THEN At("off") ELSE Idle]
  /\ recon' = [c \in Callers |-> NoRecon]
  /\ UNCHANGED <<brokerVars, journal, cooling>>

CallerStep(c) == CloseStep(c) \/ ArmStep(c) \/ ReconcileStep(c) \/ ExecuteStep(c)

Next ==
  \/ \E c \in Callers : CallerStep(c)
  \/ VenueStep /\ UNCHANGED managerVars
  \/ \E s \in Symbols : CooldownEnds(s)
  \/ Crash

Spec == Init /\ [][Next]_vars

\* A coroutine resumes when its call has answered, and run_forever ticks every
\* tracked position on every pass.  A call that may fail does not fail
\* forever, and the venue settles what it has accepted; it owes nothing about
\* prices, nor about a resting stop, whose limit may never be met.
Resume(c) ==
  \/ Acquire(c) \/ Cancel(c) \/ Confirmed(c) \/ Unconfirmed(c)
  \/ SubmitClose(c) \/ CloseRefused(c) \/ CloseReplied(c) \/ ExitReported(c)
  \/ ArmStep(c) \/ ReconcileStep(c) \/ EntryReplied(c)

CancelSucceeds(c) == Cancel(c) /\ CancelTakes(op[c].order)
Settle(o) == (FillMarket(o) \/ Die(o)) /\ UNCHANGED managerVars

Fairness ==
  /\ \A c \in Callers : /\ WF_vars(Resume(c))
                        /\ SF_vars(CancelSucceeds(c))
                        /\ SF_vars(Confirmed(c))
                        /\ SF_vars(SubmitClose(c))
                        /\ SF_vars(GotPortfolio(c))
                        /\ SF_vars(SubmitStop(c))
  /\ \A c \in Tasks, s \in Symbols : SF_vars(OnPrice(c, s))
  /\ \A o \in OrderIds : WF_vars(Settle(o))
  /\ \A s \in Symbols : WF_vars(CooldownEnds(s))

FairSpec == Spec /\ Fairness

-----------------------------------------------------------------------------
(* Safety                                                                  *)

TasksIdle == \A c \in Tasks : op[c].pc = "idle"
WorkingOn(c, s) == op[c].pos # NoPos /\ SymOf(c) = s
Closing(c) == op[c].pc \in {"cancel", "confirm", "close", "closed", "exit"}
LiveSells(s) == LiveStops(s) \cup LiveOf(s, "sell")

\* Every variable has its type.
TypeOK == ManagerTypeOK

\* The closing flag never wedges a position: one that is marked closing is
\* being closed by some coroutine right now, and no two coroutines are inside
\* _close() for one symbol (the lock and the re-check of _close).
CloseHasOwner ==
  \A s \in Symbols :
    /\ tracked[s] # NoPos /\ objs[tracked[s]].closing
         => \E c \in Callers : Closing(c) /\ op[c].pos = tracked[s]
    /\ \A c, d \in Callers :
         Closing(c) /\ Closing(d) /\ WorkingOn(c, s) /\ WorkingOn(d, s) => c = d

\* Cancel, CONFIRM, close: while a closing order is being sent, the resting
\* stop that the position owns is already dead (_close, _cancel_confirmed).
CancelBeforeClose ==
  \A c \in Callers :
    op[c].pc \in {"close", "closed"} /\ objs[op[c].pos].stop # NoOrder
      => orders[objs[op[c].pos].stop].status = "canceled"

\* No double sell: at most one order that could still sell a symbol is live,
\* and it does not sell more than the account owns.
SellsCovered ==
  \A s \in Symbols : \A o, p \in LiveSells(s) : o = p /\ orders[o].qty <= held[s]

\* Whenever no bar is in flight, whatever the account holds is watched by the
\* software stop, for at least the quantity held (execute, protect, _close).
NoNakedPosition ==
  TasksIdle => \A s \in Symbols :
    held[s] > 0 => tracked[s] # NoPos /\ held[s] <= objs[tracked[s]].qty

\* What a crash would leave behind is what memory says: a tracked position
\* nobody is working on has a journal row with its quantity, its resting
\* stop and no closing mark (_persist, _forget).
JournalCoversTracked ==
  \A s \in Symbols :
    tracked[s] # NoPos /\ (\A c \in Callers : ~WorkingOn(c, s))
      => journal[s] = RowOf(objs[tracked[s]])

-----------------------------------------------------------------------------
(* What a step may not do                                                  *)

\* When reconcile() returns, a position that had a row and that the account
\* still holds is tracked for what is held and has a live resting stop.
RestartRestoresProtection ==
  [][\A c \in Callers, s \in Symbols :
       ReconcileDone(c) /\ recon[c].rows[s] # NoRow /\ held[s] > 0
         => /\ tracked[s] # NoPos /\ held[s] <= objs[tracked[s]].qty
            /\ LiveStops(s) # {}]_vars

-----------------------------------------------------------------------------
(* What must happen in the end                                             *)

\* A price that stays at the stop, or at the take, empties the account of the
\* symbol, whatever the desk buys meanwhile (on_price, retried every tick).
StopPriceFlattens ==
  \A s \in Symbols : <>[](price[s] = "stop") => []<>(held[s] = 0)
TakePriceFlattens ==
  \A s \in Symbols : <>[](price[s] = "take") => []<>(held[s] = 0)

=============================================================================
