---------------------------- MODULE StopManager ----------------------------
(***************************************************************************)
(* StopManager (execution/stops.py): the software stop, the resting stop   *)
(* at the venue, the cancel-confirm-close sequence and reconcile().        *)
(*                                                                         *)
(* Python runs one coroutine at a time and switches at an await, so an     *)
(* action is what a coroutine does from one await to the next.  Each       *)
(* submit() is two actions, the venue taking the order and the reply       *)
(* resuming the caller, because the process may die, or the reply be lost, *)
(* in between.  A caller is a coroutine inside the manager: a run_forever  *)
(* task, or a ticker, one on_price() call per trade of a price stream.     *)
(***************************************************************************)
EXTENDS Broker

CONSTANTS Tasks,      \* run_forever tasks
          Tickers,    \* coroutines that only call on_price()
          PosIds,     \* the ProtectedPosition objects alive at one time
          NoPos, NoOrder, NoRow, NoCaller, NoRecon

Callers == Tasks \cup Tickers

VARIABLES objs,      \* the ProtectedPosition objects
          tracked,   \* StopManager.positions: symbol -> object
          lock,      \* StopManager._locks: symbol -> holder
          journal,   \* the positions table: symbol -> row
          op,        \* where each caller is
          recon,     \* reconcile()'s local variables, per caller
          cooling    \* symbols whose cooldown, started by on_exit, runs

managerVars == <<objs, tracked, lock, journal, op, recon, cooling>>
vars == <<brokerVars, managerVars>>

Object == [sym: Symbols, qty: 0..MaxHeld, stop: OrderIds \cup {NoOrder}, closing: BOOLEAN]
Row == [qty: 0..MaxHeld, stop: OrderIds \cup {NoOrder}, closing: BOOLEAN]
PC == {"off", "portfolio", "orders", "restore", "orphans", "idle", "entry", "arm",
       "armed", "waiting", "cancel", "confirm", "close", "closed", "exit"}
Op == [pc: PC, pos: PosIds \cup {NoPos}, order: OrderIds \cup {NoOrder}]
Recon == [rows: [Symbols -> Row \cup {NoRow}],     \* protected
          held: [Symbols -> 0..MaxHeld],           \* portfolio.positions
          open: SUBSET OrderIds,                   \* open STOP_LIMIT orders
          todo: SUBSET Symbols]                    \* rows not handled yet

ASSUME NullAssumption ==
  /\ NoPos \notin PosIds /\ NoOrder \notin OrderIds /\ NoCaller \notin Callers
  /\ NoRow \notin Row /\ NoRecon \notin Recon

At(pc) == [pc |-> pc, pos |-> NoPos, order |-> NoOrder]
Idle == At("idle")
Holding(pc, p) == [pc |-> pc, pos |-> p, order |-> NoOrder]
RowOf(obj) == [qty |-> obj.qty, stop |-> obj.stop, closing |-> obj.closing]
SymOf(c) == objs[op[c].pos].sym

ManagerInit ==
  /\ objs = [p \in PosIds |-> [sym |-> CHOOSE s \in Symbols : TRUE, qty |-> 0,
                               stop |-> NoOrder, closing |-> FALSE]]
  /\ tracked = [s \in Symbols |-> NoPos]
  /\ lock = [s \in Symbols |-> NoCaller]
  /\ journal = [s \in Symbols |-> NoRow]
  /\ op = [c \in Callers |-> IF c \in Tasks THEN At("off") ELSE Idle]
  /\ recon = [c \in Callers |-> NoRecon]
  /\ cooling = {}

-----------------------------------------------------------------------------
(* Objects and order slots are reused once nothing refers to them: a state *)
(* is then finite though a run is not.                                     *)

LivePos == {tracked[s] : s \in Symbols} \cup {op[c].pos : c \in Callers}
FreePos == PosIds \ LivePos

Referenced ==
  {objs[p].stop : p \in PosIds \cap LivePos}
    \cup {op[c].order : c \in Callers}
    \cup {journal[s].stop : s \in {t \in Symbols : journal[t] # NoRow}}
    \cup UNION {recon[c].open \cup {recon[c].rows[s].stop :
                                      s \in {t \in Symbols : recon[c].rows[t] # NoRow}} :
                c \in {d \in Callers : recon[d] # NoRecon}}
FreeOrders == {o \in OrderIds : ~Live(o) /\ o \notin Referenced}

-----------------------------------------------------------------------------
(* on_price, close_manually and _close                                     *)

\* _close() once it has the lock: mark the position and persist the mark.
EnterClose(c, p) ==
  LET marked == [objs[p] EXCEPT !.closing = TRUE]
  IN /\ lock' = [lock EXCEPT ![marked.sym] = c]
     /\ objs' = [objs EXCEPT ![p] = marked]
     /\ journal' = [journal EXCEPT ![marked.sym] = RowOf(marked)]
     /\ op' = [op EXCEPT ![c] = [pc |-> IF marked.stop = NoOrder THEN "close" ELSE "cancel",
                                 pos |-> p, order |-> marked.stop]]
     /\ UNCHANGED tracked

\* Mutant: _close() that does not take the lock.
BeginCloseUnlocked(c, s) ==
  /\ op[c].pc = "idle"
  /\ tracked[s] # NoPos
  /\ ~objs[tracked[s]].closing
  /\ EnterClose(c, tracked[s])
  /\ UNCHANGED <<brokerVars, recon, cooling>>

BeginClose(c, s) ==
  /\ op[c].pc = "idle"
  /\ tracked[s] # NoPos
  /\ ~objs[tracked[s]].closing
  /\ \/ lock[s] = NoCaller /\ EnterClose(c, tracked[s])
     \/ /\ lock[s] # NoCaller
        /\ op' = [op EXCEPT ![c] = Holding("waiting", tracked[s])]
        /\ UNCHANGED <<objs, tracked, lock, journal>>
  /\ UNCHANGED <<brokerVars, recon, cooling>>

\* Mutant: on_price() that forgets the take.
OnStopPrice(c, s) == price[s] = "stop" /\ BeginClose(c, s)

\* on_price(): the stop or the take is hit.  A tick that hits neither, or
\* finds the position closing, changes nothing.
OnPrice(c, s) == price[s] \in {"stop", "take"} /\ BeginClose(c, s)

\* The lock comes free: re-check under it.
Acquire(c) ==
  LET p == op[c].pos
  IN /\ op[c].pc = "waiting"
     /\ lock[SymOf(c)] = NoCaller
     /\ \/ /\ objs[p].closing \/ tracked[SymOf(c)] = NoPos
           /\ op' = [op EXCEPT ![c] = Idle]
           /\ UNCHANGED <<objs, tracked, lock, journal>>
        \/ /\ ~objs[p].closing /\ tracked[SymOf(c)] # NoPos
           /\ EnterClose(c, p)
     /\ UNCHANGED <<brokerVars, recon, cooling>>

\* Mutant: a failed close that leaves the position marked.
BackOffMarked(c) ==
  /\ lock' = [lock EXCEPT ![SymOf(c)] = NoCaller]
  /\ op' = [op EXCEPT ![c] = Idle]
  /\ UNCHANGED <<objs, journal, tracked, recon>>

\* closing = False, persist, release the lock.
BackOff(c) ==
  LET p == op[c].pos
      open == [objs[p] EXCEPT !.closing = FALSE]
  IN /\ objs' = [objs EXCEPT ![p] = open]
     /\ journal' = [journal EXCEPT ![open.sym] = RowOf(open)]
     /\ lock' = [lock EXCEPT ![open.sym] = NoCaller]
     /\ op' = [op EXCEPT ![c] = Idle]
     /\ UNCHANGED <<tracked, recon>>

\* _cancel_confirmed(): cancel(), whose answer nobody reads ...
Cancel(c) ==
  /\ op[c].pc = "cancel"
  /\ \/ CancelTakes(op[c].order)
     \/ CancelPends(op[c].order)
     \/ CancelFails(op[c].order)
  /\ op' = [op EXCEPT ![c].pc = "confirm"]
  /\ UNCHANGED <<held, price, objs, tracked, lock, journal, recon, cooling>>

\* Mutants: a cancel that is acknowledged counts as confirmed; any final
\* status does.
ConfirmedByAck(c) ==
  /\ op[c].pc = "confirm"
  /\ orders[op[c].order].status \in {"canceled", "canceling"}
  /\ op' = [op EXCEPT ![c] = Holding("close", op[c].pos)]
  /\ UNCHANGED <<brokerVars, objs, tracked, lock, journal, recon, cooling>>
ConfirmedWhenFinal(c) ==
  /\ op[c].pc = "confirm"
  /\ ~Live(op[c].order)
  /\ op' = [op EXCEPT ![c] = Holding("close", op[c].pos)]
  /\ UNCHANGED <<brokerVars, objs, tracked, lock, journal, recon, cooling>>

\* ... then get_order(): only CANCELED or EXPIRED counts.
Confirmed(c) ==
  /\ op[c].pc = "confirm"
  /\ orders[op[c].order].status = "canceled"
  /\ op' = [op EXCEPT ![c] = Holding("close", op[c].pos)]
  /\ UNCHANGED <<brokerVars, objs, tracked, lock, journal, recon, cooling>>

Unconfirmed(c) ==
  /\ op[c].pc = "confirm"
  /\ orders[op[c].order].status # "canceled" \/ "call_fails" \in Env
  /\ BackOff(c)
  /\ UNCHANGED <<brokerVars, cooling>>

\* The closing market order: taken by the venue, or refused.
SubmitClose(c) ==
  /\ op[c].pc = "close"
  /\ \E o \in FreeOrders :
       /\ \/ FillSellNow(o, SymOf(c), objs[op[c].pos].qty)
          \/ "async_fill" \in Env /\ Accept(o, SymOf(c), "sell", objs[op[c].pos].qty)
       /\ op' = [op EXCEPT ![c].pc = "closed", ![c].order = o]
  /\ UNCHANGED <<price, objs, tracked, lock, journal, recon, cooling>>

\* Mutant: a closing order that is refused is taken for done.
CloseRefusedForgets(c) ==
  /\ op[c].pc = "close"
  /\ Refused(SymOf(c), objs[op[c].pos].qty)
  /\ tracked' = [tracked EXCEPT ![SymOf(c)] = NoPos]
  /\ journal' = [journal EXCEPT ![SymOf(c)] = NoRow]
  /\ op' = [op EXCEPT ![c] = Holding("exit", op[c].pos)]
  /\ UNCHANGED <<brokerVars, objs, lock, recon, cooling>>

CloseRefused(c) ==
  /\ op[c].pc = "close"
  /\ Refused(SymOf(c), objs[op[c].pos].qty)
  /\ BackOff(c)
  /\ UNCHANGED <<brokerVars, cooling>>

\* The reply: whatever it says short of REJECTED, _forget() the position and
\* call on_exit, which starts the cooldown before it first awaits.
CloseReplied(c) ==
  LET s == SymOf(c)
  IN /\ op[c].pc = "closed"
     /\ tracked' = [tracked EXCEPT ![s] = NoPos]
     /\ journal' = [journal EXCEPT ![s] = NoRow]
     /\ cooling' = cooling \cup {s}
     /\ op' = [op EXCEPT ![c] = Holding("exit", op[c].pos)]
     /\ UNCHANGED <<brokerVars, objs, lock, recon>>

CloseReplyLost(c) ==
  /\ op[c].pc = "closed"
  /\ "lost_reply" \in Env
  /\ BackOff(c)
  /\ UNCHANGED <<brokerVars, cooling>>

\* on_exit returns, and the lock with it ...
ExitReported(c) ==
  /\ op[c].pc = "exit"
  /\ lock' = [lock EXCEPT ![SymOf(c)] = NoCaller]
  /\ op' = [op EXCEPT ![c] = Idle]
  /\ UNCHANGED <<brokerVars, objs, tracked, journal, recon, cooling>>

\* ... or raises, and the handler writes the row of the forgotten position.
ExitRaised(c) ==
  /\ op[c].pc = "exit"
  /\ "exit_raises" \in Env
  /\ BackOff(c)
  /\ UNCHANGED <<brokerVars, cooling>>

CloseStep(c) ==
  \/ \E s \in Symbols : OnPrice(c, s)
  \/ Acquire(c)
  \/ Cancel(c) \/ Confirmed(c) \/ Unconfirmed(c)
  \/ SubmitClose(c) \/ CloseRefused(c) \/ CloseReplied(c) \/ CloseReplyLost(c)
  \/ ExitReported(c) \/ ExitRaised(c)

-----------------------------------------------------------------------------
(* protect and _arm_broker_stop                                            *)

\* protect() up to its first await: a new object replaces whatever was
\* tracked for the symbol.
Protect(c, s, qty) ==
  \E p \in FreePos :
    /\ objs' = [objs EXCEPT ![p] = [sym |-> s, qty |-> qty, stop |-> NoOrder,
                                    closing |-> FALSE]]
    /\ tracked' = [tracked EXCEPT ![s] = p]
    /\ op' = [op EXCEPT ![c] = Holding("arm", p)]

SubmitStop(c) ==
  /\ op[c].pc = "arm"
  /\ \E o \in FreeOrders :
       /\ Accept(o, SymOf(c), "stop", objs[op[c].pos].qty)
       /\ op' = [op EXCEPT ![c].pc = "armed", ![c].order = o]
  /\ UNCHANGED <<price, objs, tracked, lock, journal, recon, cooling>>

\* Mutant: nothing is persisted once the stop is armed.
AfterArmUnsaved(c, obj) ==
  /\ objs' = [objs EXCEPT ![op[c].pos] = obj]
  /\ op' = [op EXCEPT ![c] = IF recon[c] = NoRecon THEN Idle ELSE At("restore")]
  /\ UNCHANGED <<brokerVars, tracked, lock, journal, recon, cooling>>

\* After arming, protect() and reconcile() persist; one returns, the other
\* goes on to its next row.
AfterArm(c, obj) ==
  /\ objs' = [objs EXCEPT ![op[c].pos] = obj]
  /\ journal' = [journal EXCEPT ![obj.sym] = RowOf(obj)]
  /\ op' = [op EXCEPT ![c] = IF recon[c] = NoRecon THEN Idle ELSE At("restore")]
  /\ UNCHANGED <<brokerVars, tracked, lock, recon, cooling>>

StopRefused(c) ==
  /\ op[c].pc = "arm"
  /\ "call_fails" \in Env
  /\ AfterArm(c, objs[op[c].pos])

StopReplied(c) ==
  /\ op[c].pc = "armed"
  /\ AfterArm(c, [objs[op[c].pos] EXCEPT !.stop = op[c].order])

StopReplyLost(c) ==
  /\ op[c].pc = "armed"
  /\ "lost_reply" \in Env
  /\ AfterArm(c, objs[op[c].pos])

ArmStep(c) == SubmitStop(c) \/ StopRefused(c) \/ StopReplied(c) \/ StopReplyLost(c)

-----------------------------------------------------------------------------
(* reconcile                                                               *)

\* load_protected(), then await get_portfolio().
LoadRows(c) ==
  /\ op[c].pc = "off"
  /\ recon' = [recon EXCEPT ![c] =
       [rows |-> journal, held |-> [s \in Symbols |-> 0], open |-> {},
        todo |-> {s \in Symbols : journal[s] # NoRow}]]
  /\ op' = [op EXCEPT ![c] = At("portfolio")]
  /\ UNCHANGED <<brokerVars, objs, tracked, lock, journal, cooling>>

GotPortfolio(c) ==
  /\ op[c].pc = "portfolio"
  /\ recon' = [recon EXCEPT ![c].held = held]
  /\ op' = [op EXCEPT ![c] = At("orders")]
  /\ UNCHANGED <<brokerVars, objs, tracked, lock, journal, cooling>>

\* get_portfolio() raised; startup() swallows it and goes on.
ReconcileFailed(c) ==
  /\ op[c].pc = "portfolio"
  /\ "call_fails" \in Env
  /\ recon' = [recon EXCEPT ![c] = NoRecon]
  /\ op' = [op EXCEPT ![c] = Idle]
  /\ UNCHANGED <<brokerVars, objs, tracked, lock, journal, cooling>>

\* list_open_orders(): a failure is an empty list.
GotOrders(c) ==
  /\ op[c].pc = "orders"
  /\ \/ recon' = [recon EXCEPT ![c].open = UNION {LiveStops(s) : s \in Symbols}]
     \/ "list_fails" \in Env /\ UNCHANGED recon
  /\ op' = [op EXCEPT ![c] = At("restore")]
  /\ UNCHANGED <<brokerVars, objs, tracked, lock, journal, cooling>>

Handled(c, s) == [recon EXCEPT ![c].todo = @ \ {s}]

\* The account no longer holds it.
DropRow(c, s) ==
  /\ op[c].pc = "restore" /\ s \in recon[c].todo
  /\ recon[c].held[s] = 0
  /\ tracked' = [tracked EXCEPT ![s] = NoPos]
  /\ journal' = [journal EXCEPT ![s] = NoRow]
  /\ recon' = Handled(c, s)
  /\ UNCHANGED <<brokerVars, objs, lock, op, cooling>>

\* Mutant: reconcile() that tracks a position and never re-arms it.
RestoreRowUnarmed(c, s) ==
  LET obj == [sym |-> s, qty |-> recon[c].held[s], stop |-> recon[c].rows[s].stop,
              closing |-> FALSE]
  IN /\ op[c].pc = "restore" /\ s \in recon[c].todo
     /\ recon[c].held[s] > 0
     /\ \E p \in FreePos : /\ objs' = [objs EXCEPT ![p] = obj]
                           /\ tracked' = [tracked EXCEPT ![s] = p]
     /\ journal' = [journal EXCEPT ![s] = RowOf(obj)]
     /\ recon' = Handled(c, s)
     /\ UNCHANGED <<brokerVars, lock, op, cooling>>

\* The account holds it: track it at the account's quantity, and re-arm it
\* if its resting stop is not among the open orders.
RestoreRow(c, s) ==
  LET row == recon[c].rows[s]
      obj == [sym |-> s, qty |-> recon[c].held[s], stop |-> row.stop, closing |-> FALSE]
  IN /\ op[c].pc = "restore" /\ s \in recon[c].todo
     /\ recon[c].held[s] > 0
     /\ \E p \in FreePos :
          /\ objs' = [objs EXCEPT ![p] = obj]
          /\ tracked' = [tracked EXCEPT ![s] = p]
          /\ \/ /\ row.stop \in recon[c].open
                /\ journal' = [journal EXCEPT ![s] = RowOf(obj)]
                /\ UNCHANGED op
             \/ /\ row.stop \notin recon[c].open
                /\ op' = [op EXCEPT ![c] = Holding("arm", p)]
                /\ UNCHANGED journal
     /\ recon' = Handled(c, s)
     /\ UNCHANGED <<brokerVars, lock, cooling>>

\* Every row is handled: the open stops no tracked position owns are orphans.
TrackedStops == {objs[tracked[s]].stop : s \in {t \in Symbols : tracked[t] # NoPos}}
FindOrphans(c) ==
  /\ op[c].pc = "restore" /\ recon[c].todo = {}
  /\ recon' = [recon EXCEPT ![c].open = @ \ TrackedStops]
  /\ op' = [op EXCEPT ![c] = At("orphans")]
  /\ UNCHANGED <<brokerVars, objs, tracked, lock, journal, cooling>>

CancelOrphan(c, o) ==
  /\ op[c].pc = "orphans" /\ o \in recon[c].open
  /\ CancelTakes(o) \/ CancelPends(o) \/ CancelFails(o)
  /\ recon' = [recon EXCEPT ![c].open = @ \ {o}]
  /\ UNCHANGED <<held, price, objs, tracked, lock, journal, op, cooling>>

ReconcileDone(c) ==
  /\ op[c].pc = "orphans" /\ recon[c].open = {}
  /\ recon' = [recon EXCEPT ![c] = NoRecon]
  /\ op' = [op EXCEPT ![c] = Idle]
  /\ UNCHANGED <<brokerVars, objs, tracked, lock, journal, cooling>>

ReconcileStep(c) ==
  \/ LoadRows(c) \/ GotPortfolio(c) \/ ReconcileFailed(c) \/ GotOrders(c)
  \/ \E s \in Symbols : DropRow(c, s) \/ RestoreRow(c, s)
  \/ FindOrphans(c)
  \/ \E o \in OrderIds : CancelOrphan(c, o)
  \/ ReconcileDone(c)

-----------------------------------------------------------------------------
ManagerTypeOK ==
  /\ orders \in [OrderIds -> Order]
  /\ held \in [Symbols -> 0..MaxHeld]
  /\ price \in [Symbols -> Level]
  /\ objs \in [PosIds -> Object]
  /\ tracked \in [Symbols -> PosIds \cup {NoPos}]
  /\ lock \in [Symbols -> Callers \cup {NoCaller}]
  /\ journal \in [Symbols -> Row \cup {NoRow}]
  /\ op \in [Callers -> Op]
  /\ recon \in [Callers -> Recon \cup {NoRecon}]
  /\ cooling \subseteq Symbols

=============================================================================
