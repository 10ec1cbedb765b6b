---------------------------- MODULE DeskBookProofs ----------------------------
(***************************************************************************)
(* Theorems about TradingDesk when one coroutine uses StopManager, which   *)
(* is what the code runs today: one run_forever task, and no trade stream  *)
(* (loop.py:227 describes one).  The first ones are about any environment. *)
(*                                                                         *)
(* The later ones, about what the desk owns, offers and watches, are about *)
(* a Steady one, in which every market order fills within submit(), as at  *)
(* the simulated broker (broker_sim.py): whatever the venue refuses,       *)
(* rejects late, fills in part or leaves pending, and whenever the desk    *)
(* buys again.  Each feature that Steady excludes breaks them (README.md). *)
(* Under the same assumptions the order path implements the book of long   *)
(* positions (DeskBook, LongBook).                                         *)
(*                                                                         *)
(* The last one is about the death and the restart of the process, in a    *)
(* Recoverable environment, which loses replies and listings as well.      *)
(***************************************************************************)
EXTENDS DeskBook, TradingDeskProofs

USE DEF brokerVars, managerVars, vars, Holding

-----------------------------------------------------------------------------
(* Where the loop is, and what it knows there.                             *)

InClose == {"cancel", "confirm", "close", "closed"}
Outside == {"off", "portfolio", "orders", "restore", "orphans", "idle", "entry"}

\* What the loop works on is tracked until it is forgotten, and no lock is
\* held but that of the symbol it closes.
Place(c) ==
  /\ op[c].pc # "waiting"
  /\ op[c].pc \in Outside => op[c].pos = NoPos
  /\ op[c].pc \in InClose \cup {"arm", "armed"} => tracked[SymOf(c)] = op[c].pos
  /\ op[c].pc = "exit" => tracked[SymOf(c)] = NoPos
  /\ \A s \in Symbols : lock[s] # NoCaller => Closing(c) /\ s = SymOf(c)

\* _close() cancels the stop of the position it closes, and goes on once that
\* stop is dead.
StopDown(c) ==
  /\ op[c].pc \in {"cancel", "confirm"} => op[c].order = objs[op[c].pos].stop
  /\ op[c].pc \in {"close", "closed"} /\ objs[op[c].pos].stop # NoOrder
       => orders[objs[op[c].pos].stop].status = "canceled"

\* A tracked position has its row, unless the loop is working on it.
RowsKept(c) ==
  \A s \in Symbols : tracked[s] # NoPos =>
    /\ objs[tracked[s]].sym = s
    /\ op[c].pos = NoPos \/ SymOf(c) # s => journal[s] = RowOf(objs[tracked[s]])

LoopInv(c) == Place(c) /\ StopDown(c) /\ RowsKept(c)

-----------------------------------------------------------------------------
(* A canceled order stays canceled for as long as anything refers to it.    *)

LEMMA VenueKeepsDead ==
  ASSUME TypeOK, VenueStep, NEW o \in OrderIds, orders[o].status = "canceled"
  PROVE  orders'[o].status = "canceled"
BY DEF VenueStep, MovePrice, FillStop, FillMarket, Die, RejectStop, Live, LiveStatus, TypeOK,
       ManagerTypeOK, Order

LEMMA CancelKeepsDead ==
  ASSUME TypeOK, NEW q \in OrderIds, CancelTakes(q) \/ CancelPends(q) \/ CancelFails(q),
         NEW o \in OrderIds, orders[o].status = "canceled"
  PROVE  orders'[o].status = "canceled"
BY DEF CancelTakes, CancelPends, CancelFails, Live, LiveStatus, TypeOK, ManagerTypeOK, Order

LEMMA QuietLoop ==
  ASSUME TypeInv, NEW c \in Callers, LoopInv(c),
         UNCHANGED <<objs, tracked, lock, journal, op>>,
         \A o \in OrderIds : orders[o].status = "canceled" => orders'[o].status = "canceled"
  PROVE  LoopInv(c)'
<1>1. op[c].pc \in {"close", "closed"} /\ objs[op[c].pos].stop # NoOrder
        => objs[op[c].pos].stop \in OrderIds
  BY DEF TypeInv, OpOK, TypeOK, ManagerTypeOK, Object
<1> QED
  BY <1>1 DEF LoopInv, Place, StopDown, RowsKept, SymOf, Closing

\* A step of the loop outside _close() and _arm_broker_stop().
LEMMA OutsideLoop ==
  ASSUME TypeInv, NEW c \in Callers, LoopInv(c), op[c].pc \in Outside,
         NEW to \in Op, to.pc \in Outside, to.pos = NoPos, op' = [op EXCEPT ![c] = to],
         UNCHANGED <<objs, tracked, lock, journal>>
  PROVE  LoopInv(c)'
<1>1. op'[c] = to
  BY DEF TypeInv, TypeOK, ManagerTypeOK
<1>2. \A s \in Symbols : lock[s] = NoCaller
  BY DEF LoopInv, Place, Closing, Outside
<1>3. RowsKept(c)'
  BY <1>1 DEF LoopInv, Place, RowsKept
<1> QED
  BY <1>1, <1>2, <1>3 DEF LoopInv, Place, StopDown, Outside, InClose

LEMMA EnterCloseLoop ==
  ASSUME TypeInv, NEW c \in Callers, LoopInv(c), op[c].pc \in Outside,
         NEW s \in Symbols, tracked[s] # NoPos, EnterClose(c, tracked[s]), UNCHANGED orders
  PROVE  LoopInv(c)'
<1> DEFINE p == tracked[s]
           marked == [objs[p] EXCEPT !.closing = TRUE]
<1>0. op[c].pos = NoPos
  BY DEF LoopInv, Place
<1>1. p \in PosIds /\ p # NoPos /\ objs[p] \in Object /\ objs[p].sym = s
  BY NullAssumption DEF TypeInv, TypeOK, ManagerTypeOK, LoopInv, RowsKept
<1>2. marked \in Object /\ marked.sym = s /\ marked.stop = objs[p].stop
  BY <1>1 DEF Object
<1>3. /\ op'[c].pc = IF objs[p].stop = NoOrder THEN "close" ELSE "cancel"
      /\ op'[c].pos = p
      /\ op'[c].order = objs[p].stop
  <2>1. op'[c] = [pc |-> IF objs[p].stop = NoOrder THEN "close" ELSE "cancel",
                  pos |-> p, order |-> objs[p].stop]
    BY <1>1, EnterCloseType
  <2> QED
    BY <2>1
<1>4. /\ objs' = [objs EXCEPT ![p] = marked]
      /\ lock' = [lock EXCEPT ![s] = c]
      /\ journal' = [journal EXCEPT ![s] = RowOf(marked)]
      /\ tracked' = tracked
  BY <1>2 DEF EnterClose
<1> HIDE DEF marked
<1>5. objs'[p] = marked /\ SymOf(c)' = s
  BY <1>1, <1>2, <1>3, <1>4 DEF SymOf, TypeInv, TypeOK, ManagerTypeOK
<1>6. \A t \in Symbols : lock[t] = NoCaller
  BY DEF LoopInv, Place, Closing, Outside
<1>7. Place(c)'
  <2>1. op'[c].pc \in {"close", "cancel"}
    BY <1>3
  <2>2. tracked'[SymOf(c)'] = op'[c].pos
    BY <1>3, <1>4, <1>5
  <2>3. \A t \in Symbols : lock'[t] # NoCaller => t = s
    BY <1>4, <1>6 DEF TypeInv, TypeOK, ManagerTypeOK
  <2> QED
    BY <1>5, <2>1, <2>2, <2>3 DEF Place, Closing, Outside
<1>8. StopDown(c)'
  BY <1>2, <1>3, <1>5 DEF StopDown
<1>9. RowsKept(c)'
  <2> SUFFICES ASSUME NEW t \in Symbols, tracked'[t] # NoPos
               PROVE  /\ objs'[tracked'[t]].sym = t
                      /\ t # s => journal'[t] = RowOf(objs'[tracked'[t]])
    BY <1>1, <1>3, <1>5 DEF RowsKept
  <2>1. CASE t = s
    BY <1>2, <1>4, <1>5, <2>1
  <2>2. CASE t # s
    <3>1. /\ objs[tracked[t]].sym = t
          /\ journal[t] = RowOf(objs[tracked[t]])
      BY <1>0, <1>4 DEF LoopInv, RowsKept
    <3>2. tracked[t] # p /\ tracked[t] \in PosIds
      BY <1>1, <1>4, <2>2, <3>1 DEF TypeInv, TypeOK, ManagerTypeOK
    <3> QED
      BY <1>4, <2>2, <3>1, <3>2 DEF TypeInv, TypeOK, ManagerTypeOK
  <2> QED
    BY <2>1, <2>2
<1> QED
  BY <1>7, <1>8, <1>9 DEF LoopInv

\* Leaving _close(): the row that is written is that of the position, which
\* is tracked, or was forgotten.
LEMMA BackOffLoop ==
  ASSUME TypeInv, NEW c \in Callers, LoopInv(c), op[c].pc \in InClose \cup {"exit"},
         BackOff(c), UNCHANGED orders
  PROVE  LoopInv(c)'
<1> DEFINE p == op[c].pos
           open == [objs[p] EXCEPT !.closing = FALSE]
           s == SymOf(c)
<1>1. p \in PosIds /\ objs[p] \in Object /\ s \in Symbols /\ objs[p].sym = s
  BY DEF TypeInv, TypeOK, ManagerTypeOK, OpOK, InClose, SymOf, Object
<1>2. open \in Object /\ open.sym = s
  BY <1>1 DEF Object
<1>3. /\ objs' = [objs EXCEPT ![p] = open]
      /\ lock' = [lock EXCEPT ![s] = NoCaller]
      /\ journal' = [journal EXCEPT ![s] = RowOf(open)]
      /\ tracked' = tracked
      /\ op'[c].pc = "idle" /\ op'[c].pos = NoPos
  BY <1>1, <1>2, BackOffType DEF BackOff, Idle, At
<1>4. tracked[s] \in {NoPos, p}
  BY DEF LoopInv, Place
<1>5. \A t \in Symbols : t # s => lock[t] = NoCaller
  BY DEF LoopInv, Place
<1> HIDE DEF open, s
<1>6. Place(c)'
  BY <1>1, <1>3, <1>5 DEF Place, Outside, InClose, TypeInv, TypeOK, ManagerTypeOK
<1>7. StopDown(c)'
  BY <1>3 DEF StopDown
<1>8. RowsKept(c)'
  <2> SUFFICES ASSUME NEW t \in Symbols, tracked'[t] # NoPos
               PROVE  /\ objs'[tracked'[t]].sym = t
                      /\ journal'[t] = RowOf(objs'[tracked'[t]])
    BY <1>3 DEF RowsKept
  <2>1. CASE t = s
    BY <1>1, <1>2, <1>3, <1>4, <2>1 DEF TypeInv, TypeOK, ManagerTypeOK
  <2>2. CASE t # s
    <3>1. /\ objs[tracked[t]].sym = t
          /\ journal[t] = RowOf(objs[tracked[t]])
      BY <1>3, <2>2 DEF LoopInv, RowsKept, s
    <3>2. tracked[t] # p /\ tracked[t] \in PosIds
      BY <1>1, <1>3, <2>2, <3>1 DEF TypeInv, TypeOK, ManagerTypeOK
    <3> QED
      BY <1>3, <2>2, <3>1, <3>2 DEF TypeInv, TypeOK, ManagerTypeOK
  <2> QED
    BY <2>1, <2>2
<1> QED
  BY <1>6, <1>7, <1>8 DEF LoopInv

\* reconcile() drops a row.
LEMMA UntrackLoop ==
  ASSUME TypeInv, NEW c \in Callers, LoopInv(c), op[c].pc \in Outside, NEW s \in Symbols,
         tracked' = [tracked EXCEPT ![s] = NoPos], journal' = [journal EXCEPT ![s] = NoRow],
         UNCHANGED <<objs, lock, op>>
  PROVE  LoopInv(c)'
<1>1. op[c].pos = NoPos /\ op[c].pc \notin InClose \cup {"arm", "armed", "exit"}
  BY DEF LoopInv, Place, Outside, InClose
<1>2. Place(c)' /\ StopDown(c)'
  BY <1>1 DEF LoopInv, Place, StopDown, Outside, InClose, Closing
<1>3. RowsKept(c)'
  BY <1>1 DEF LoopInv, RowsKept, TypeInv, TypeOK, ManagerTypeOK
<1> QED
  BY <1>2, <1>3 DEF LoopInv

\* protect() and reconcile() track an object that nothing else refers to.
LEMMA TrackLoop ==
  ASSUME TypeInv, NEW c \in Callers, LoopInv(c), op[c].pc \in Outside,
         NEW s \in Symbols, NEW p \in FreePos, NEW obj \in Object, obj.sym = s,
         objs' = [objs EXCEPT ![p] = obj], tracked' = [tracked EXCEPT ![s] = p],
         UNCHANGED lock,
         \/ op' = [op EXCEPT ![c] = Holding("arm", p)] /\ UNCHANGED journal
         \/ op' = op /\ journal' = [journal EXCEPT ![s] = RowOf(obj)]
  PROVE  LoopInv(c)'
<1>1. p \in PosIds /\ p # NoPos /\ \A t \in Symbols : tracked[t] # p
  BY NullAssumption DEF FreePos, LivePos
<1>2. op[c].pos = NoPos
  BY DEF LoopInv, Place
<1>3. \A t \in Symbols : lock[t] = NoCaller
  BY DEF LoopInv, Place, Closing, Outside
<1>4. objs'[p] = obj /\ tracked'[s] = p
  BY <1>1 DEF TypeInv, TypeOK, ManagerTypeOK
<1>5. \A t \in Symbols : t # s /\ tracked'[t] # NoPos =>
         /\ objs'[tracked'[t]].sym = t
         /\ journal'[t] = RowOf(objs'[tracked'[t]])
  <2> SUFFICES ASSUME NEW t \in Symbols, t # s, tracked'[t] # NoPos
               PROVE  /\ objs'[tracked'[t]].sym = t
                      /\ journal'[t] = RowOf(objs'[tracked'[t]])
    OBVIOUS
  <2>1. tracked'[t] = tracked[t] /\ journal'[t] = journal[t] /\ tracked[t] \in PosIds
    BY DEF TypeInv, TypeOK, ManagerTypeOK
  <2>2. objs'[tracked[t]] = objs[tracked[t]]
    BY <1>1, <2>1 DEF TypeInv, TypeOK, ManagerTypeOK
  <2>3. /\ objs[tracked[t]].sym = t
        /\ journal[t] = RowOf(objs[tracked[t]])
    BY <1>2, <2>1 DEF LoopInv, RowsKept
  <2> QED
    BY <2>1, <2>2, <2>3
<1>6. CASE op' = [op EXCEPT ![c] = Holding("arm", p)]
  <2>1. op'[c].pc = "arm" /\ op'[c].pos = p
    BY <1>6 DEF TypeInv, TypeOK, ManagerTypeOK
  <2>2. SymOf(c)' = s
    BY <1>4, <2>1 DEF SymOf
  <2> QED
    BY <1>1, <1>3, <1>4, <1>5, <2>1, <2>2 DEF LoopInv, Place, StopDown, RowsKept, Outside, InClose
<1>7. CASE op' = op /\ journal' = [journal EXCEPT ![s] = RowOf(obj)]
  <2>1. journal'[s] = RowOf(obj)
    BY <1>7 DEF TypeInv, TypeOK, ManagerTypeOK
  <2>2. RowsKept(c)'
    BY <1>4, <1>5, <2>1 DEF RowsKept
  <2> QED
    BY <1>3, <1>7, <2>2 DEF LoopInv, Place, StopDown, Outside, InClose
<1> QED
  BY <1>6, <1>7

\* The stop is armed, or is not: either way the row is written.
LEMMA AfterArmLoop ==
  ASSUME TypeInv, NEW c \in Callers, LoopInv(c), op[c].pc \in {"arm", "armed"},
         NEW obj \in Object, obj.sym = SymOf(c), AfterArm(c, obj)
  PROVE  LoopInv(c)'
<1> DEFINE p == op[c].pos
           s == SymOf(c)
<1>1. p \in PosIds /\ s \in Symbols /\ objs[p].sym = s /\ tracked[s] = p
  BY DEF TypeInv, TypeOK, ManagerTypeOK, OpOK, SymOf, Object, LoopInv, Place
<1>2. /\ objs' = [objs EXCEPT ![p] = obj]
      /\ journal' = [journal EXCEPT ![s] = RowOf(obj)]
      /\ UNCHANGED <<tracked, lock>>
      /\ op'[c].pc \in {"idle", "restore"} /\ op'[c].pos = NoPos
  BY DEF AfterArm, Idle, At, TypeInv, TypeOK, ManagerTypeOK
<1>3. \A t \in Symbols : lock[t] = NoCaller
  BY DEF LoopInv, Place, Closing
<1> HIDE DEF s
<1>4. RowsKept(c)'
  <2> SUFFICES ASSUME NEW t \in Symbols, tracked'[t] # NoPos
               PROVE  /\ objs'[tracked'[t]].sym = t
                      /\ journal'[t] = RowOf(objs'[tracked'[t]])
    BY DEF RowsKept
  <2>1. CASE t = s
    BY <1>1, <1>2, <2>1 DEF TypeInv, TypeOK, ManagerTypeOK, s
  <2>2. CASE t # s
    <3>1. /\ objs[tracked[t]].sym = t
          /\ journal[t] = RowOf(objs[tracked[t]])
      BY <1>2, <2>2 DEF LoopInv, RowsKept, s
    <3>2. tracked[t] # p /\ tracked[t] \in PosIds
      BY <1>1, <1>2, <2>2, <3>1 DEF TypeInv, TypeOK, ManagerTypeOK
    <3> QED
      BY <1>2, <2>2, <3>1, <3>2 DEF TypeInv, TypeOK, ManagerTypeOK
  <2> QED
    BY <2>1, <2>2
<1> QED
  BY <1>2, <1>3, <1>4 DEF LoopInv, Place, StopDown, Outside, InClose

-----------------------------------------------------------------------------
(* One lemma per part of CallerStep.                                        *)

LEMMA BeginCloseLoop ==
  ASSUME TypeInv, NEW c \in Callers, LoopInv(c), NEW s \in Symbols, BeginClose(c, s)
  PROVE  LoopInv(c)'
<1>1. op[c].pc \in Outside /\ tracked[s] # NoPos /\ UNCHANGED orders
  BY DEF BeginClose, Outside
<1>2. lock[s] = NoCaller
  BY <1>1 DEF LoopInv, Place, Closing, Outside
<1>3. EnterClose(c, tracked[s])
  BY <1>2 DEF BeginClose
<1> QED
  BY <1>1, <1>3, EnterCloseLoop

LEMMA CloseStepLoop ==
  ASSUME TypeInv, NEW c \in Callers, LoopInv(c), CloseStep(c)
  PROVE  LoopInv(c)'
<1>0. /\ op \in [Callers -> Op] /\ op[c] \in Op
      /\ op[c].pc \in InClose \cup {"exit"} => op[c].pos \in PosIds /\ SymOf(c) \in Symbols
  BY DEF TypeInv, TypeOK, ManagerTypeOK, OpOK, InClose, SymOf, Object
<1>1. ASSUME NEW s \in Symbols, OnPrice(c, s)
      PROVE  LoopInv(c)'
  BY <1>1, BeginCloseLoop DEF OnPrice
<1>2. CASE Acquire(c)
  BY <1>2 DEF Acquire, LoopInv, Place
<1>3. CASE Cancel(c)
  <2>1. /\ op' = [op EXCEPT ![c] = [op[c] EXCEPT !.pc = "confirm"]]
        /\ op[c].pc = "cancel" /\ UNCHANGED <<objs, tracked, lock, journal>>
    BY <1>0, <1>3 DEF Cancel
  <2>2. op'[c].pc = "confirm" /\ op'[c].pos = op[c].pos /\ op'[c].order = op[c].order
    BY <1>0, <2>1 DEF Op
  <2> QED
    BY <2>1, <2>2 DEF LoopInv, Place, StopDown, RowsKept, SymOf, Closing, Outside, InClose
<1>4. CASE Confirmed(c)
  <2>1. /\ op[c].pc = "confirm" /\ orders[op[c].order].status = "canceled"
        /\ op' = [op EXCEPT ![c] = Holding("close", op[c].pos)]
        /\ UNCHANGED <<orders, objs, tracked, lock, journal>>
    BY <1>4 DEF Confirmed
  <2>2. op'[c].pc = "close" /\ op'[c].pos = op[c].pos
    BY <1>0, <2>1
  <2> QED
    BY <2>1, <2>2 DEF LoopInv, Place, StopDown, RowsKept, SymOf, Closing, Outside, InClose
<1>5. CASE Unconfirmed(c) \/ CloseRefused(c) \/ CloseReplyLost(c) \/ ExitRaised(c)
  BY <1>5, BackOffLoop DEF Unconfirmed, CloseRefused, CloseReplyLost, ExitRaised, InClose
<1>6. CASE SubmitClose(c)
  <2>1. PICK o \in FreeOrders :
          /\ op' = [op EXCEPT ![c] = [op[c] EXCEPT !.pc = "closed", !.order = o]]
          /\ \E order : orders' = [orders EXCEPT ![o] = order]
    <3>1. PICK o \in FreeOrders :
            /\ FillSellNow(o, SymOf(c), objs[op[c].pos].qty) \/ Accept(o, SymOf(c), "sell", objs[op[c].pos].qty)
            /\ op' = [op EXCEPT ![c].pc = "closed", ![c].order = o]
      BY <1>6 DEF SubmitClose
    <3>2. \E order : orders' = [orders EXCEPT ![o] = order]
      BY <3>1 DEF FillSellNow, Accept
    <3>3. op' = [op EXCEPT ![c] = [op[c] EXCEPT !.pc = "closed", !.order = o]]
      BY <1>0, <3>1
    <3> QED
      BY <3>2, <3>3
  <2>2. op[c].pc = "close" /\ UNCHANGED <<objs, tracked, lock, journal>>
    BY <1>6 DEF SubmitClose
  <2>3. op'[c].pc = "closed" /\ op'[c].pos = op[c].pos
    BY <1>0, <2>1 DEF Op
  <2>4. objs[op[c].pos].stop # NoOrder =>
          orders'[objs[op[c].pos].stop] = orders[objs[op[c].pos].stop]
    <3>1. objs[op[c].pos].stop \in Referenced
      BY <1>0, <2>2 DEF Referenced, LivePos, InClose
    <3> QED
      BY <2>1, <3>1 DEF FreeOrders, TypeInv, TypeOK, ManagerTypeOK
  <2> QED
    BY <2>2, <2>3, <2>4 DEF LoopInv, Place, StopDown, RowsKept, SymOf, Closing, Outside, InClose
<1>7. CASE CloseReplied(c)
  <2> DEFINE s == SymOf(c)
  <2>1. /\ op[c].pc = "closed" /\ op' = [op EXCEPT ![c] = Holding("exit", op[c].pos)]
        /\ tracked' = [tracked EXCEPT ![s] = NoPos]
        /\ journal' = [journal EXCEPT ![s] = NoRow]
        /\ UNCHANGED <<objs, lock>>
    BY <1>7 DEF CloseReplied
  <2>2. op'[c].pc = "exit" /\ op'[c].pos = op[c].pos /\ SymOf(c)' = s /\ s \in Symbols
    BY <1>0, <2>1 DEF InClose, SymOf
  <2>3. tracked'[s] = NoPos
    BY <2>1, <2>2 DEF TypeInv, TypeOK, ManagerTypeOK
  <2>4. \A t \in Symbols : t # s => tracked'[t] = tracked[t] /\ journal'[t] = journal[t]
    BY <2>1 DEF TypeInv, TypeOK, ManagerTypeOK
  <2>5. \A t \in Symbols : lock[t] # NoCaller => t = s
    BY DEF LoopInv, Place
  <2>6. Place(c)' /\ StopDown(c)'
    BY <2>1, <2>2, <2>3, <2>5 DEF Place, StopDown, Closing, Outside, InClose
  <2>7. RowsKept(c)'
    <3> SUFFICES ASSUME NEW t \in Symbols, t # s, tracked'[t] # NoPos
                 PROVE  objs'[tracked'[t]].sym = t /\ journal'[t] = RowOf(objs'[tracked'[t]])
      BY <2>3 DEF RowsKept
    <3> QED
      BY <2>1, <2>4 DEF LoopInv, RowsKept
  <2> QED
    BY <2>6, <2>7 DEF LoopInv
<1>8. CASE ExitReported(c)
  <2>1. /\ op[c].pc = "exit" /\ op' = [op EXCEPT ![c] = Idle]
        /\ lock' = [lock EXCEPT ![SymOf(c)] = NoCaller]
        /\ UNCHANGED <<objs, tracked, journal>>
    BY <1>8 DEF ExitReported
  <2>2. op'[c].pc = "idle" /\ op'[c].pos = NoPos
    BY <1>0, <2>1 DEF Idle, At
  <2>3. \A t \in Symbols : lock'[t] = NoCaller
    BY <1>0, <2>1 DEF LoopInv, Place, TypeInv, TypeOK, ManagerTypeOK
  <2>4. tracked[SymOf(c)] = NoPos
    BY <2>1 DEF LoopInv, Place
  <2>5. RowsKept(c)'
    BY <2>1, <2>4 DEF LoopInv, RowsKept
  <2> QED
    BY <2>1, <2>2, <2>3, <2>5 DEF LoopInv, Place, StopDown, Outside, InClose
<1> QED
  BY <1>1, <1>2, <1>3, <1>4, <1>5, <1>6, <1>7, <1>8 DEF CloseStep

LEMMA ArmStepLoop ==
  ASSUME TypeInv, NEW c \in Callers, LoopInv(c), ArmStep(c)
  PROVE  LoopInv(c)'
<1>0. op \in [Callers -> Op] /\ op[c] \in Op
  BY DEF TypeInv, TypeOK, ManagerTypeOK
<1>1. CASE SubmitStop(c)
  <2>1. PICK o \in OrderIds : op' = [op EXCEPT ![c] = [op[c] EXCEPT !.pc = "armed", !.order = o]]
    BY <1>0, <1>1 DEF SubmitStop, FreeOrders
  <2>2. op[c].pc = "arm" /\ UNCHANGED <<objs, tracked, lock, journal>>
    BY <1>1 DEF SubmitStop
  <2>3. op'[c].pc = "armed" /\ op'[c].pos = op[c].pos
    BY <1>0, <2>1 DEF Op
  <2> QED
    BY <2>2, <2>3 DEF LoopInv, Place, StopDown, RowsKept, SymOf, Closing, Outside, InClose
<1>2. CASE StopRefused(c) \/ StopReplied(c) \/ StopReplyLost(c)
  <2>1. op[c].pc \in {"arm", "armed"} /\ op[c].pos \in PosIds /\ objs[op[c].pos] \in Object
    BY <1>2 DEF StopRefused, StopReplied, StopReplyLost, TypeInv, OpOK, TypeOK, ManagerTypeOK
  <2>2. CASE AfterArm(c, objs[op[c].pos])
    BY <2>1, <2>2, AfterArmLoop DEF SymOf
  <2>3. CASE StopReplied(c)
    <3> DEFINE obj == [objs[op[c].pos] EXCEPT !.stop = op[c].order]
    <3>1. obj \in Object /\ obj.sym = SymOf(c)
      BY <1>0, <2>1 DEF Object, SymOf, Op
    <3>2. AfterArm(c, obj)
      BY <2>3 DEF StopReplied
    <3> HIDE DEF obj
    <3> QED
      BY <2>1, <3>1, <3>2, AfterArmLoop
  <2> QED
    BY <1>2, <2>2, <2>3 DEF StopRefused, StopReplyLost
<1> QED
  BY <1>1, <1>2 DEF ArmStep

LEMMA ReconcileStepLoop ==
  ASSUME TypeInv, NEW c \in Callers, LoopInv(c), ReconcileStep(c)
  PROVE  LoopInv(c)'
<1>1. CASE LoadRows(c) \/ GotPortfolio(c) \/ ReconcileFailed(c) \/ GotOrders(c)
             \/ FindOrphans(c) \/ ReconcileDone(c)
  <2>1. PICK to \in {At("portfolio"), At("orders"), Idle, At("restore"), At("orphans")} :
          op' = [op EXCEPT ![c] = to]
    BY <1>1 DEF LoadRows, GotPortfolio, ReconcileFailed, GotOrders, FindOrphans, ReconcileDone
  <2>2. to \in Op /\ to.pc \in Outside /\ to.pos = NoPos
    BY DEF Op, PC, At, Idle, Outside
  <2>3. op[c].pc \in Outside /\ UNCHANGED <<objs, tracked, lock, journal>>
    BY <1>1 DEF LoadRows, GotPortfolio, ReconcileFailed, GotOrders, FindOrphans, ReconcileDone, Outside
  <2> QED
    BY <2>1, <2>2, <2>3, OutsideLoop
<1>2. ASSUME NEW o \in OrderIds, CancelOrphan(c, o)
      PROVE  LoopInv(c)'
  BY <1>2, QuietLoop, CancelKeepsDead DEF CancelOrphan, TypeInv
<1>3. ASSUME NEW s \in Symbols, DropRow(c, s)
      PROVE  LoopInv(c)'
  BY <1>3, UntrackLoop DEF DropRow, Outside
<1>4. ASSUME NEW s \in Symbols, RestoreRow(c, s)
      PROVE  LoopInv(c)'
  <2>1. op[c].pc = "restore" /\ s \in recon[c].todo
    BY <1>4 DEF RestoreRow
  <2>2. recon[c] \in Recon /\ recon[c].rows[s] \in Row
    BY <2>1 DEF TypeInv, OpOK, TodoOK
  <2> DEFINE obj == [sym |-> s, qty |-> recon[c].held[s], stop |-> recon[c].rows[s].stop,
                     closing |-> FALSE]
  <2>3. obj \in Object /\ obj.sym = s
    BY <2>2, MaxHeldAssumption DEF Object, Row, Recon
  <2>4. PICK p \in FreePos :
          /\ objs' = [objs EXCEPT ![p] = obj]
          /\ tracked' = [tracked EXCEPT ![s] = p]
          /\ \/ op' = [op EXCEPT ![c] = Holding("arm", p)] /\ UNCHANGED journal
             \/ op' = op /\ journal' = [journal EXCEPT ![s] = RowOf(obj)]
    BY <1>4 DEF RestoreRow
  <2>5. lock' = lock /\ op[c].pc \in Outside
    BY <1>4, <2>1 DEF RestoreRow, Outside
  <2> HIDE DEF obj
  <2> QED
    BY <2>3, <2>4, <2>5, TrackLoop
<1> QED
  BY <1>1, <1>2, <1>3, <1>4 DEF ReconcileStep

LEMMA ExecuteStepLoop ==
  ASSUME TypeInv, NEW c \in Callers, LoopInv(c), ExecuteStep(c)
  PROVE  LoopInv(c)'
<1>1. ASSUME NEW s \in Symbols, SubmitEntry(c, s)
      PROVE  LoopInv(c)'
  <2>1. PICK o \in OrderIds : op' = [op EXCEPT ![c] = [pc |-> "entry", pos |-> NoPos, order |-> o]]
    BY <1>1 DEF SubmitEntry, FreeOrders
  <2>2. [pc |-> "entry", pos |-> NoPos, order |-> o] \in Op
    BY DEF Op, PC
  <2>3. op[c].pc \in Outside /\ UNCHANGED <<objs, tracked, lock, journal>>
    BY <1>1 DEF SubmitEntry, Outside
  <2> QED
    BY <2>1, <2>2, <2>3, OutsideLoop DEF Outside
<1>2. ASSUME NEW s \in Symbols, SellUntracked(c, s)
      PROVE  LoopInv(c)'
  <2>1. op[c].pc = "idle" /\ UNCHANGED <<objs, tracked, lock, journal, op>>
    BY <1>2 DEF SellUntracked
  <2> QED
    BY <2>1 DEF LoopInv, Place, StopDown, RowsKept, SymOf, Closing
<1>3. ASSUME NEW s \in Symbols, SellTracked(c, s)
      PROVE  LoopInv(c)'
  BY <1>3, BeginCloseLoop DEF SellTracked
<1>4. CASE EntryReplied(c)
  <2>1. /\ orders[op[c].order].sym \in Symbols /\ op[c].pc = "entry"
        /\ UNCHANGED <<lock, journal>>
    BY <1>4 DEF EntryReplied, TypeInv, OpOK, TypeOK, ManagerTypeOK, Order
  <2>2. CASE Protect(c, orders[op[c].order].sym, Lot)
    <3> DEFINE obj == [sym |-> orders[op[c].order].sym, qty |-> Lot, stop |-> NoOrder,
                       closing |-> FALSE]
    <3>1. obj \in Object /\ obj.sym = orders[op[c].order].sym
      BY <2>1, LotAssumption, MaxHeldAssumption DEF Object
    <3>2. PICK p \in FreePos : /\ objs' = [objs EXCEPT ![p] = obj]
                               /\ tracked' = [tracked EXCEPT ![orders[op[c].order].sym] = p]
                               /\ op' = [op EXCEPT ![c] = Holding("arm", p)]
      BY <2>2 DEF Protect
    <3> HIDE DEF obj
    <3> QED
      BY <2>1, <3>1, <3>2, TrackLoop DEF Outside
  <2>3. CASE op' = [op EXCEPT ![c] = Idle] /\ UNCHANGED <<objs, tracked>>
    <3>1. Idle \in Op /\ Idle.pc \in Outside /\ Idle.pos = NoPos
      BY DEF Op, PC, Idle, At, Outside
    <3> QED
      BY <2>1, <2>3, <3>1, OutsideLoop DEF Outside
  <2> QED
    BY <1>4, <2>2, <2>3 DEF EntryReplied
<1>5. CASE EntryReplyLost(c)
  <2>1. Idle \in Op /\ Idle.pc \in Outside /\ Idle.pos = NoPos
    BY DEF Op, PC, Idle, At, Outside
  <2> QED
    BY <1>5, <2>1, OutsideLoop DEF EntryReplyLost, Outside
<1> QED
  BY <1>1, <1>2, <1>3, <1>4, <1>5 DEF ExecuteStep

-----------------------------------------------------------------------------
LEMMA LoopInit ==
  ASSUME Init, NEW c \in Callers
  PROVE  LoopInv(c)
BY DEF Init, ManagerInit, LoopInv, Place, StopDown, RowsKept, Closing, Outside, InClose, At, Idle

LEMMA LoopStep ==
  ASSUME NEW c, Callers = {c}, TypeInv, LoopInv(c), [Next]_vars
  PROVE  LoopInv(c)'
<1>0. c \in Callers
  OBVIOUS
<1>1. CASE CallerStep(c)
  BY <1>0, <1>1, CloseStepLoop, ArmStepLoop, ReconcileStepLoop, ExecuteStepLoop DEF CallerStep
<1>2. CASE VenueStep /\ UNCHANGED managerVars
  BY <1>0, <1>2, QuietLoop, VenueKeepsDead DEF TypeInv
<1>3. CASE UNCHANGED vars
  BY <1>0, <1>3, QuietLoop
<1>4. ASSUME NEW s \in Symbols, CooldownEnds(s)
      PROVE  LoopInv(c)'
  BY <1>0, <1>4, QuietLoop DEF CooldownEnds
<1>5. CASE Crash
  BY <1>5 DEF Crash, LoopInv, Place, StopDown, RowsKept, Closing, Outside, InClose, At, Idle
<1> QED
  BY <1>1, <1>2, <1>3, <1>4, <1>5 DEF Next

LEMMA LoopInvariant ==
  ASSUME NEW c, Callers = {c}
  PROVE  Spec => []LoopInv(c)
<1>1. Init => LoopInv(c)
  BY LoopInit
<1>2. TypeInv /\ LoopInv(c) /\ [Next]_vars => LoopInv(c)'
  BY LoopStep
<1> QED
  BY <1>1, <1>2, TypeInvariant, PTL DEF Spec

\* Cancel, confirm, close: with one loop, a closing order is only ever sent
\* over a dead resting stop, whatever the venue answers, delays, loses or
\* fills on its own, across crashes and add-ons.
THEOREM CloseOverDeadStop ==
  ASSUME NEW c, Callers = {c}
  PROVE  Spec => []CancelBeforeClose
<1>1. LoopInv(c) => CancelBeforeClose
  BY DEF LoopInv, StopDown, CancelBeforeClose
<1> QED
  BY <1>1, LoopInvariant, PTL

\* With one loop, the journal always has the row of a tracked position that
\* the loop is not working on: a crash finds all that memory knew.
THEOREM JournalAgrees ==
  ASSUME NEW c, Callers = {c}
  PROVE  Spec => []JournalCoversTracked
<1>1. LoopInv(c) => JournalCoversTracked
  BY DEF LoopInv, RowsKept, JournalCoversTracked, WorkingOn
<1> QED
  BY <1>1, LoopInvariant, PTL

-----------------------------------------------------------------------------
(* A steady venue.                                                         *)

Steady == {"async_fill", "lost_reply", "add_on", "crash"} \cap Env = {}

-----------------------------------------------------------------------------
(* The inductive invariant.                                                *)

Starting == {"off", "portfolio", "orders", "restore", "orphans"}

NoneLive(s) == \A o \in OrderIds : Live(o) => orders[o].sym # s

\* What is live is a resting stop, for no more than the account owns.
Resting ==
  \A o \in OrderIds : Live(o) =>
    orders[o].kind = "stop" /\ orders[o].qty \in 1..held[orders[o].sym]

\* It is the stop of the tracked position, or about to become it.
Claimed(c) ==
  \A o \in OrderIds : Live(o) =>
    LET p == tracked[orders[o].sym]
    IN /\ p # NoPos
       /\ objs[p].stop = o \/ (op[c].pc = "armed" /\ op[c].order = o /\ op[c].pos = p)

\* What is owned is watched, or has just been bought.
Watched(c) ==
  \A s \in Symbols : held[s] > 0 =>
    \/ tracked[s] # NoPos /\ held[s] <= objs[tracked[s]].qty
    \/ op[c].pc = "entry" /\ orders[op[c].order].sym = s

\* What the task knows at the point of its code where it is.
AtEntry(c) ==
  op[c].pc = "entry" =>
    /\ orders[op[c].order].status = "filled"
    /\ held[orders[op[c].order].sym] = Lot
    /\ NoneLive(orders[op[c].order].sym)
AtArm(c) ==
  /\ op[c].pc = "arm" => /\ held[SymOf(c)] > 0 /\ held[SymOf(c)] = objs[op[c].pos].qty
                         /\ NoneLive(SymOf(c))
  /\ op[c].pc \in {"arm", "armed"} => objs[op[c].pos].stop = NoOrder
  /\ op[c].pc = "armed" => orders[op[c].order].sym = SymOf(c)
AtExit(c) == op[c].pc \in {"closed", "exit"} => held[SymOf(c)] = 0
AtStart(c) ==
  /\ op[c].pc \in Starting =>
       \A s \in Symbols : held[s] = 0 /\ tracked[s] = NoPos /\ journal[s] = NoRow
  /\ recon[c] # NoRecon =>
       op[c].pc \in Starting /\ recon[c].todo = {} /\ recon[c].open = {}

BookInv(c) ==
  Resting /\ Claimed(c) /\ Watched(c) /\ AtEntry(c) /\ AtArm(c) /\ AtExit(c) /\ AtStart(c)

-----------------------------------------------------------------------------
(* What it says of the live orders.                                        *)

\* The types that the steps below read, in one place.
LEMMA Typed ==
  ASSUME TypeInv, NEW c \in Callers
  PROVE  /\ orders \in [OrderIds -> Order] /\ held \in [Symbols -> 0..MaxHeld]
         /\ objs \in [PosIds -> Object] /\ tracked \in [Symbols -> PosIds \cup {NoPos}]
         /\ journal \in [Symbols -> Row \cup {NoRow}]
         /\ op \in [Callers -> Op] /\ op[c] \in Op
         /\ recon \in [Callers -> Recon \cup {NoRecon}]
         /\ \A o \in OrderIds : orders[o].sym \in Symbols
         /\ \A s \in Symbols : held[s] \in Nat
         /\ \A s \in Symbols : tracked[s] # NoPos => tracked[s] \in PosIds
         /\ \A p \in PosIds : objs[p].sym \in Symbols /\ objs[p].qty \in Nat
         /\ op[c].pc \in {"arm", "armed", "waiting", "cancel", "confirm", "close", "closed", "exit"}
              => op[c].pos \in PosIds /\ SymOf(c) \in Symbols
         /\ op[c].pc \in {"entry", "armed", "cancel", "confirm", "closed"} => op[c].order \in OrderIds
BY MaxHeldAssumption DEF TypeInv, OpOK, TypeOK, ManagerTypeOK, Order, Object, SymOf

\* No two live orders are for one symbol.
LEMMA OneLive ==
  ASSUME NEW c, Claimed(c), AtArm(c), NEW o \in OrderIds, NEW q \in OrderIds,
         Live(o), Live(q), orders[o].sym = orders[q].sym
  PROVE  o = q
BY NullAssumption DEF Claimed, AtArm

\* A symbol of which nothing is owned has no live order, nor has one that the
\* task has just cancelled the stop of.
LEMMA NothingOwned ==
  ASSUME TypeInv, Resting, NEW s \in Symbols, held[s] = 0
  PROVE  NoneLive(s)
BY DEF Resting, NoneLive

LEMMA StopIsDown ==
  ASSUME TypeInv, NEW c \in Callers, LoopInv(c), Claimed(c), op[c].pc \in {"close", "closed"}
  PROVE  NoneLive(SymOf(c))
<1>1. tracked[SymOf(c)] = op[c].pos
  BY DEF LoopInv, Place, InClose
<1>2. objs[op[c].pos].stop # NoOrder => orders[objs[op[c].pos].stop].status = "canceled"
  BY DEF LoopInv, StopDown
<1> QED
  BY <1>1, <1>2, NullAssumption DEF Claimed, NoneLive, Live, LiveStatus

-----------------------------------------------------------------------------
(* Steps that change neither what is owned nor what is tracked.            *)

\* The objects keep what they sell and the stop they own, and no order comes
\* to life or to more.
Kept ==
  /\ UNCHANGED <<held, tracked>>
  /\ \A p \in PosIds : /\ objs'[p].sym = objs[p].sym /\ objs'[p].qty = objs[p].qty
                       /\ objs'[p].stop = objs[p].stop
  /\ \A o \in OrderIds :
       /\ orders'[o].sym = orders[o].sym
       /\ Live(o)' => Live(o) /\ orders'[o].kind = orders[o].kind /\ orders'[o].qty = orders[o].qty
       /\ orders[o].status = "filled" => orders'[o].status = "filled"

\* The task stays where it is, or moves on inside, into or out of _close().
LEMMA KeptStep ==
  ASSUME TypeInv, NEW c \in Callers, BookInv(c), Kept,
         \/ op'[c] = op[c] /\ recon'[c] = recon[c] /\ journal' = journal
         \/ /\ op[c].pc \notin Starting \cup {"entry", "armed"}
            /\ op'[c].pc \in {"idle", "waiting", "cancel", "confirm", "close"}
            /\ recon'[c] = recon[c]
  PROVE  BookInv(c)'
<1>1. Resting'
  BY Typed DEF BookInv, Resting, Kept
<1>2. Claimed(c)'
  <2> SUFFICES ASSUME NEW o \in OrderIds, Live(o)'
               PROVE  LET p == tracked'[orders'[o].sym]
                      IN /\ p # NoPos
                         /\ \/ objs'[p].stop = o
                            \/ op'[c].pc = "armed" /\ op'[c].order = o /\ op'[c].pos = p
    BY DEF Claimed
  <2> DEFINE p == tracked[orders[o].sym]
  <2>1. Live(o) /\ orders'[o].sym = orders[o].sym /\ tracked' = tracked
    BY DEF Kept
  <2>2. p # NoPos /\ (objs[p].stop = o \/ (op[c].pc = "armed" /\ op[c].order = o /\ op[c].pos = p))
    BY <2>1 DEF BookInv, Claimed
  <2>3. p \in PosIds
    BY <2>2, Typed
  <2>4. objs'[p].stop = objs[p].stop
    BY <2>3 DEF Kept
  <2> HIDE DEF p
  <2>5. p # NoPos /\ (objs'[p].stop = o \/ (op'[c].pc = "armed" /\ op'[c].order = o /\ op'[c].pos = p))
    BY <2>2, <2>4
  <2> QED
    BY <2>1, <2>5 DEF p
<1>3. Watched(c)'
  <2> SUFFICES ASSUME NEW s \in Symbols, held'[s] > 0
               PROVE  \/ tracked'[s] # NoPos /\ held'[s] <= objs'[tracked'[s]].qty
                      \/ op'[c].pc = "entry" /\ orders'[op'[c].order].sym = s
    BY DEF Watched
  <2>1. CASE tracked[s] # NoPos /\ held[s] <= objs[tracked[s]].qty
    BY <2>1, Typed DEF Kept
  <2>2. CASE op[c].pc = "entry" /\ orders[op[c].order].sym = s
    BY <2>2, Typed DEF Kept
  <2> QED
    BY <2>1, <2>2 DEF BookInv, Watched, Kept
<1>4. \A s \in Symbols : NoneLive(s) => NoneLive(s)'
  BY DEF NoneLive, Kept
<1>5. CASE op'[c] = op[c] /\ recon'[c] = recon[c] /\ journal' = journal
  <2>1. AtEntry(c)'
    BY <1>4, <1>5, Typed DEF BookInv, AtEntry, Kept
  <2>2. op[c].pos \in PosIds => SymOf(c)' = SymOf(c)
    BY <1>5 DEF SymOf, Kept
  <2>3. AtArm(c)'
    BY <1>4, <1>5, <2>2, Typed DEF BookInv, AtArm, Kept
  <2>4. AtExit(c)' /\ AtStart(c)'
    BY <1>5, <2>2, Typed DEF BookInv, AtExit, AtStart, Kept
  <2> QED
    BY <1>1, <1>2, <1>3, <2>1, <2>3, <2>4 DEF BookInv
<1>6. CASE /\ op[c].pc \notin Starting /\ op'[c].pc \in {"idle", "waiting", "cancel", "confirm", "close"}
           /\ recon'[c] = recon[c]
  <2>1. recon'[c] = NoRecon
    BY <1>6 DEF BookInv, AtStart
  <2>2. AtEntry(c)' /\ AtArm(c)' /\ AtExit(c)' /\ AtStart(c)'
    BY <1>6, <2>1 DEF AtEntry, AtArm, AtExit, AtStart, Starting
  <2> QED
    BY <1>1, <1>2, <1>3, <2>2 DEF BookInv
<1> QED
  BY <1>5, <1>6

\* While the desk starts there is nothing to find: no row, no position, no
\* order.
LEMMA StartingStep ==
  ASSUME TypeInv, NEW c \in Callers, BookInv(c), op[c].pc \in Starting,
         UNCHANGED <<brokerVars, objs, tracked, journal>>,
         op'[c].pc \in Starting \cup {"idle"},
         \/ recon'[c] = NoRecon
         \/ op'[c].pc \in Starting /\ recon'[c].todo = {} /\ recon'[c].open = {}
  PROVE  BookInv(c)'
<1>1. \A s \in Symbols : held[s] = 0 /\ tracked[s] = NoPos /\ journal[s] = NoRow
  BY DEF BookInv, AtStart
<1>2. \A o \in OrderIds : ~Live(o)
  BY <1>1, Typed DEF BookInv, Claimed
<1>3. \A o \in OrderIds : ~Live(o)'
  BY <1>2 DEF Live
<1>4. Resting' /\ Claimed(c)'
  BY <1>3 DEF Resting, Claimed
<1>5. Watched(c)'
  BY <1>1 DEF Watched
<1>6. AtEntry(c)' /\ AtArm(c)' /\ AtExit(c)' /\ AtStart(c)'
  BY <1>1 DEF AtEntry, AtArm, AtExit, AtStart, Starting
<1> QED
  BY <1>4, <1>5, <1>6 DEF BookInv

-----------------------------------------------------------------------------
(* _close()                                                                *)

\* Marking, and unmarking, a position changes nothing that is on offer.
LEMMA EnterCloseKept ==
  ASSUME TypeInv, NEW c \in Callers, NEW p \in PosIds, EnterClose(c, p), UNCHANGED brokerVars
  PROVE  Kept /\ op'[c].pc \in {"cancel", "close"}
<1> DEFINE marked == [objs[p] EXCEPT !.closing = TRUE]
<1>1. /\ marked.sym = objs[p].sym /\ marked.qty = objs[p].qty /\ marked.stop = objs[p].stop
      /\ objs' = [objs EXCEPT ![p] = marked]
  BY Typed DEF EnterClose, Object
<1> HIDE DEF marked
<1>2. \A q \in PosIds : /\ objs'[q].sym = objs[q].sym /\ objs'[q].qty = objs[q].qty
                        /\ objs'[q].stop = objs[q].stop
  BY <1>1, Typed
<1>3. UNCHANGED <<orders, held, tracked>>
  BY DEF EnterClose
<1>4. op'[c] = [pc |-> IF objs[p].stop = NoOrder THEN "close" ELSE "cancel",
                pos |-> p, order |-> objs[p].stop]
  BY EnterCloseType
<1>5. op'[c].pc \in {"cancel", "close"}
  BY <1>4
<1> QED
  BY <1>2, <1>3, <1>5 DEF Kept, Live

LEMMA BackOffKept ==
  ASSUME TypeInv, NEW c \in Callers, op[c].pos \in PosIds, BackOff(c), UNCHANGED brokerVars
  PROVE  Kept /\ op'[c].pc = "idle" /\ UNCHANGED recon
<1> DEFINE p == op[c].pos
           open == [objs[p] EXCEPT !.closing = FALSE]
<1>1. /\ open.sym = objs[p].sym /\ open.qty = objs[p].qty /\ open.stop = objs[p].stop
      /\ objs' = [objs EXCEPT ![p] = open]
  BY Typed DEF BackOff, Object
<1> HIDE DEF open
<1>2. \A q \in PosIds : /\ objs'[q].sym = objs[q].sym /\ objs'[q].qty = objs[q].qty
                        /\ objs'[q].stop = objs[q].stop
  BY <1>1, Typed
<1>3. UNCHANGED <<orders, held, tracked, recon>>
  BY DEF BackOff
<1> QED
  BY <1>2, <1>3, BackOffType DEF Kept, Live, Idle, At

\* cancel(): the order is dead, or as live as it was.
LEMMA CancelKept ==
  ASSUME TypeInv, NEW q \in OrderIds, CancelTakes(q) \/ CancelPends(q) \/ CancelFails(q),
         NEW o \in OrderIds
  PROVE  /\ orders'[o].sym = orders[o].sym
         /\ Live(o)' => Live(o) /\ orders'[o].kind = orders[o].kind /\ orders'[o].qty = orders[o].qty
         /\ orders[o].status = "filled" => orders'[o].status = "filled"
BY DEF CancelTakes, CancelPends, CancelFails, Live, LiveStatus, TypeInv, TypeOK, ManagerTypeOK, Order

LEMMA BeginCloseBook ==
  ASSUME TypeInv, NEW c \in Callers, LoopInv(c), BookInv(c), NEW s \in Symbols, BeginClose(c, s)
  PROVE  BookInv(c)'
<1>1. op[c].pc = "idle" /\ tracked[s] \in PosIds /\ UNCHANGED <<brokerVars, recon>>
  BY Typed DEF BeginClose
<1>2. lock[s] = NoCaller
  BY <1>1 DEF LoopInv, Place, Closing
<1>3. EnterClose(c, tracked[s])
  BY <1>2 DEF BeginClose
<1> QED
  BY <1>1, <1>3, EnterCloseKept, KeptStep DEF Starting

\* The closing order sells what is owned, over nothing that could sell it too.
LEMMA SubmitCloseBook ==
  ASSUME TypeInv, NEW c \in Callers, LoopInv(c), BookInv(c), Steady, SubmitClose(c)
  PROVE  BookInv(c)'
<1> DEFINE s == SymOf(c)
<1>1. op[c].pc = "close" /\ op[c].pos \in PosIds /\ s \in Symbols
  BY Typed DEF SubmitClose
<1>2. PICK o \in FreeOrders :
        /\ FillSellNow(o, s, objs[op[c].pos].qty)
        /\ op' = [op EXCEPT ![c].pc = "closed", ![c].order = o]
  BY DEF SubmitClose, Steady
<1>3. UNCHANGED <<objs, tracked, journal, recon>>
  BY DEF SubmitClose
<1>4. o \in OrderIds /\ ~Live(o)
  BY DEF FreeOrders
<1>5. op'[c].pc = "closed" /\ op'[c].pos = op[c].pos
  BY <1>2, <1>4, SentType, Typed DEF PC
<1>6. NoneLive(s) /\ tracked[s] = op[c].pos
  BY <1>1, StopIsDown DEF BookInv, LoopInv, Place, InClose
<1>7. held[s] > 0 /\ held[s] <= objs[op[c].pos].qty
  BY <1>1, <1>2, <1>6 DEF BookInv, Watched, FillSellNow
<1> HIDE DEF s
<1>8. held' = [held EXCEPT ![s] = 0]
  <2> DEFINE n == objs[op[c].pos].qty
  <2>1. held' = [held EXCEPT ![s] = IF n < held[s] THEN held[s] - n ELSE 0]
    BY <1>2 DEF FillSellNow
  <2>2. n \in Nat /\ held[s] \in Nat /\ held[s] <= n
    BY <1>1, <1>7, Typed
  <2> HIDE DEF n
  <2>3. (IF n < held[s] THEN held[s] - n ELSE 0) = 0
    BY <2>2
  <2> QED
    BY <2>1, <2>3
<1>9. ~Live(o)' /\ \A q \in OrderIds : q # o => orders'[q] = orders[q]
  BY <1>2, <1>4, Typed DEF FillSellNow, Live, LiveStatus
<1>10. \A q \in OrderIds : Live(q)' => Live(q) /\ orders'[q] = orders[q] /\ orders[q].sym # s
  BY <1>6, <1>9 DEF Live, NoneLive
<1>11. recon'[c] = NoRecon
  BY <1>1, <1>3 DEF BookInv, AtStart, Starting
<1>12. Resting'
  BY <1>8, <1>10, Typed DEF BookInv, Resting
<1>13. Claimed(c)'
  BY <1>1, <1>3, <1>10 DEF BookInv, Claimed
<1>14. Watched(c)'
  BY <1>1, <1>3, <1>8, Typed DEF BookInv, Watched
<1>15. AtExit(c)'
  BY <1>1, <1>3, <1>5, <1>8, Typed DEF AtExit, SymOf, s
<1> QED
  BY <1>5, <1>11, <1>12, <1>13, <1>14, <1>15 DEF BookInv, AtEntry, AtArm, AtStart, Starting

\* What is forgotten is no longer owned.
LEMMA CloseRepliedBook ==
  ASSUME TypeInv, NEW c \in Callers, LoopInv(c), BookInv(c), CloseReplied(c)
  PROVE  BookInv(c)'
<1> DEFINE s == SymOf(c)
<1>1. op[c].pc = "closed" /\ op[c].pos \in PosIds /\ s \in Symbols
  BY Typed DEF CloseReplied
<1>2. /\ tracked' = [tracked EXCEPT ![s] = NoPos]
      /\ op' = [op EXCEPT ![c] = Holding("exit", op[c].pos)]
      /\ UNCHANGED <<orders, held, objs, recon>>
  BY DEF CloseReplied
<1>3. op'[c].pc = "exit" /\ op'[c].pos = op[c].pos
  BY <1>2, Typed
<1>4. NoneLive(s) /\ held[s] = 0
  BY <1>1, StopIsDown DEF BookInv, AtExit
<1>5. SymOf(c)' = s
  BY <1>2, <1>3 DEF SymOf
<1>6. recon'[c] = NoRecon
  BY <1>1, <1>2 DEF BookInv, AtStart, Starting
<1> HIDE DEF s
<1>7. \A t \in Symbols : t # s => tracked'[t] = tracked[t]
  BY <1>2, Typed
<1>8. Resting' /\ Claimed(c)'
  BY <1>1, <1>2, <1>4, <1>7, Typed DEF BookInv, Resting, Claimed, NoneLive, Live
<1>9. Watched(c)'
  BY <1>1, <1>2, <1>4, <1>7, Typed DEF BookInv, Watched
<1>10. AtExit(c)'
  BY <1>2, <1>4, <1>5 DEF AtExit
<1> QED
  BY <1>3, <1>6, <1>8, <1>9, <1>10 DEF BookInv, AtEntry, AtArm, AtStart, Starting

LEMMA CloseStepBook ==
  ASSUME TypeInv, NEW c \in Callers, LoopInv(c), BookInv(c), Steady, CloseStep(c)
  PROVE  BookInv(c)'
<1>1. ASSUME NEW s \in Symbols, OnPrice(c, s)
      PROVE  BookInv(c)'
  BY <1>1, BeginCloseBook DEF OnPrice
<1>2. CASE Acquire(c)
  BY <1>2 DEF Acquire, LoopInv, Place
<1>3. CASE Cancel(c)
  <2>1. op[c].pc = "cancel" /\ op[c].order \in OrderIds /\ UNCHANGED <<held, tracked, objs, recon>>
    BY <1>3, Typed DEF Cancel
  <2>2. Kept
    BY <1>3, <2>1, CancelKept DEF Cancel, Kept
  <2>3. op'[c].pc = "confirm"
    BY <1>3, Typed DEF Cancel, Op
  <2> QED
    BY <2>1, <2>2, <2>3, KeptStep DEF Starting
<1>4. CASE Confirmed(c)
  <2>1. op[c].pc = "confirm" /\ UNCHANGED <<orders, held, tracked, objs, recon>>
    BY <1>4 DEF Confirmed
  <2>2. op'[c].pc = "close"
    BY <1>4, Typed DEF Confirmed
  <2>3. Kept
    BY <2>1 DEF Kept, Live
  <2> QED
    BY <2>1, <2>2, <2>3, KeptStep DEF Starting
<1>5. CASE Unconfirmed(c) \/ CloseRefused(c) \/ ExitRaised(c)
  <2>1. op[c].pc \in {"confirm", "close", "exit"} /\ BackOff(c) /\ UNCHANGED brokerVars
    BY <1>5 DEF Unconfirmed, CloseRefused, ExitRaised
  <2>2. op[c].pos \in PosIds
    BY <2>1, Typed
  <2> QED
    BY <2>1, <2>2, BackOffKept, KeptStep DEF Starting
<1>6. CASE SubmitClose(c)
  BY <1>6, SubmitCloseBook
<1>7. CASE CloseReplied(c)
  BY <1>7, CloseRepliedBook
<1>8. CASE CloseReplyLost(c)
  BY <1>8 DEF CloseReplyLost, Steady
<1>9. CASE ExitReported(c)
  <2>1. op[c].pc = "exit" /\ UNCHANGED <<orders, held, tracked, objs, recon>>
    BY <1>9 DEF ExitReported
  <2>2. op'[c].pc = "idle"
    BY <1>9, Typed DEF ExitReported, Idle, At
  <2>3. Kept
    BY <2>1 DEF Kept, Live
  <2> QED
    BY <2>1, <2>2, <2>3, KeptStep DEF Starting
<1> QED
  BY <1>1, <1>2, <1>3, <1>4, <1>5, <1>6, <1>7, <1>8, <1>9 DEF CloseStep

-----------------------------------------------------------------------------
(* protect() and _arm_broker_stop()                                        *)

\* The stop is placed for all that is owned, where no other order is.
LEMMA SubmitStopBook ==
  ASSUME TypeInv, NEW c \in Callers, LoopInv(c), BookInv(c), SubmitStop(c)
  PROVE  BookInv(c)'
<1> DEFINE p == op[c].pos
           s == SymOf(c)
<1>1. /\ op[c].pc = "arm" /\ p \in PosIds /\ s \in Symbols
      /\ UNCHANGED <<objs, tracked, journal, recon>>
  BY Typed DEF SubmitStop
<1>2. PICK o \in FreeOrders :
        /\ Accept(o, s, "stop", objs[p].qty)
        /\ op' = [op EXCEPT ![c].pc = "armed", ![c].order = o]
  BY DEF SubmitStop
<1>3. o \in OrderIds /\ ~Live(o)
  BY DEF FreeOrders
<1>4. op'[c].pc = "armed" /\ op'[c].pos = p /\ op'[c].order = o
  BY <1>2, <1>3, SentType, Typed DEF PC
<1>5. /\ orders'[o].sym = s /\ orders'[o].kind = "stop" /\ orders'[o].qty = objs[p].qty
      /\ \A q \in OrderIds : q # o => orders'[q] = orders[q]
      /\ held' = held
  BY <1>2, <1>3, Typed DEF Accept
<1>6. /\ held[s] > 0 /\ held[s] = objs[p].qty /\ NoneLive(s) /\ objs[p].stop = NoOrder
      /\ tracked[s] = p /\ p # NoPos
  BY <1>1, NullAssumption DEF BookInv, AtArm, LoopInv, Place, InClose
<1>7. recon'[c] = NoRecon
  BY <1>1 DEF BookInv, AtStart, Starting
<1>8. SymOf(c)' = s
  BY <1>1, <1>4 DEF SymOf
<1> HIDE DEF p, s
<1>9. \A q \in OrderIds : q # o /\ Live(q)' => Live(q) /\ orders[q].sym # s
  BY <1>5, <1>6 DEF Live, NoneLive
<1>10. Resting'
  <2> SUFFICES ASSUME NEW q \in OrderIds, Live(q)'
               PROVE  orders'[q].kind = "stop" /\ orders'[q].qty \in 1..held'[orders'[q].sym]
    BY DEF Resting
  <2>1. held[s] \in 1..held[s]
    BY <1>1, <1>6, Typed
  <2> QED
    BY <1>5, <1>6, <1>9, <2>1 DEF BookInv, Resting
<1>11. Claimed(c)'
  BY <1>1, <1>4, <1>5, <1>6, <1>9 DEF BookInv, Claimed
<1>12. Watched(c)'
  BY <1>1, <1>5 DEF BookInv, Watched
<1>13. AtArm(c)'
  BY <1>1, <1>4, <1>5, <1>6, <1>8 DEF AtArm
<1> QED
  BY <1>4, <1>7, <1>10, <1>11, <1>12, <1>13 DEF BookInv, AtEntry, AtExit, AtStart, Starting

\* Its id is recorded, whatever became of it meanwhile.
LEMMA StopRepliedBook ==
  ASSUME TypeInv, NEW c \in Callers, LoopInv(c), BookInv(c), StopReplied(c)
  PROVE  BookInv(c)'
<1> DEFINE p == op[c].pos
           o == op[c].order
           obj == [objs[p] EXCEPT !.stop = o]
<1>1. op[c].pc = "armed" /\ p \in PosIds /\ o \in OrderIds
  BY Typed DEF StopReplied
<1>2. obj.sym = objs[p].sym /\ obj.qty = objs[p].qty /\ obj.stop = o
  BY <1>1, Typed DEF Object
<1>3. recon[c] = NoRecon
  BY <1>1 DEF BookInv, AtStart, Starting
<1>4. /\ objs' = [objs EXCEPT ![p] = obj]
      /\ op' = [op EXCEPT ![c] = Idle]
      /\ UNCHANGED <<orders, held, tracked, recon>>
  BY <1>3 DEF StopReplied, AfterArm
<1>5. op'[c].pc = "idle"
  BY <1>4, Typed DEF Idle, At
<1>6. objs[p].stop = NoOrder /\ orders[o].sym = objs[p].sym
  BY <1>1 DEF BookInv, AtArm, SymOf
<1>7. tracked[objs[p].sym] = p
  BY <1>1 DEF LoopInv, Place, InClose, SymOf
<1> HIDE DEF obj, p, o
<1>8. /\ objs'[p].sym = objs[p].sym /\ objs'[p].qty = objs[p].qty /\ objs'[p].stop = o
      /\ \A q \in PosIds : q # p => objs'[q] = objs[q]
  BY <1>1, <1>2, <1>4, Typed
<1>9. Resting'
  BY <1>4 DEF BookInv, Resting, Live
<1>10. Claimed(c)'
  <2> SUFFICES ASSUME NEW q \in OrderIds, Live(q)
               PROVE  /\ tracked[orders[q].sym] # NoPos
                      /\ objs'[tracked[orders[q].sym]].stop = q
    BY <1>4 DEF Claimed, Live
  <2> DEFINE r == tracked[orders[q].sym]
  <2>1. r # NoPos /\ (objs[r].stop = q \/ (o = q /\ p = r))
    BY DEF BookInv, Claimed, o, p
  <2>2. r \in PosIds
    BY <2>1, Typed
  <2> HIDE DEF r
  <2>3. objs'[r].stop = q
    BY <1>6, <1>8, <2>1, <2>2, NullAssumption
  <2> QED
    BY <2>1, <2>3 DEF r
<1>11. Watched(c)'
  <2> SUFFICES ASSUME NEW s \in Symbols, held[s] > 0
               PROVE  tracked[s] # NoPos /\ held[s] <= objs'[tracked[s]].qty
    BY <1>4 DEF Watched
  <2>1. tracked[s] # NoPos /\ held[s] <= objs[tracked[s]].qty
    BY <1>1 DEF BookInv, Watched
  <2> QED
    BY <1>8, <2>1, Typed
<1> QED
  BY <1>3, <1>4, <1>5, <1>9, <1>10, <1>11 DEF BookInv, AtEntry, AtArm, AtExit, AtStart, Starting

LEMMA ArmStepBook ==
  ASSUME TypeInv, NEW c \in Callers, LoopInv(c), BookInv(c), Steady, ArmStep(c)
  PROVE  BookInv(c)'
<1>1. CASE StopRefused(c)
  <2>1. op[c].pc = "arm" /\ op[c].pos \in PosIds /\ UNCHANGED <<orders, held, tracked, recon>>
    BY <1>1, Typed DEF StopRefused, AfterArm
  <2>2. recon[c] = NoRecon
    BY <2>1 DEF BookInv, AtStart, Starting
  <2>3. objs' = objs /\ op' = [op EXCEPT ![c] = Idle]
    BY <1>1, <2>1, <2>2, Typed DEF StopRefused, AfterArm
  <2>4. op'[c].pc = "idle"
    BY <2>3, Typed DEF Idle, At
  <2>5. Kept
    BY <2>1, <2>3 DEF Kept, Live
  <2> QED
    BY <2>1, <2>4, <2>5, KeptStep DEF Starting
<1> QED
  BY <1>1, SubmitStopBook, StopRepliedBook DEF ArmStep, StopReplyLost, Steady

-----------------------------------------------------------------------------
(* reconcile()                                                             *)

LEMMA ReconcileStepBook ==
  ASSUME TypeInv, NEW c \in Callers, BookInv(c), ReconcileStep(c)
  PROVE  BookInv(c)'
<1>1. op[c].pc \in Starting
  BY DEF ReconcileStep, LoadRows, GotPortfolio, ReconcileFailed, GotOrders, DropRow, RestoreRow,
         FindOrphans, CancelOrphan, ReconcileDone, Starting
<1>2. /\ \A s \in Symbols : held[s] = 0 /\ tracked[s] = NoPos /\ journal[s] = NoRow
      /\ recon[c] # NoRecon => recon[c].todo = {} /\ recon[c].open = {}
  BY <1>1 DEF BookInv, AtStart
<1>3. \A s \in Symbols : LiveStops(s) = {}
  BY <1>2, Typed DEF BookInv, Claimed, LiveStops, LiveOf
<1>4. op[c].pc \in {"portfolio", "orders", "restore", "orphans"} =>
        recon[c] \in Recon /\ recon[c].todo = {} /\ recon[c].open = {}
  BY <1>2, NullAssumption DEF TypeInv, OpOK
<1>5. CASE LoadRows(c)
  <2> DEFINE r == [rows |-> journal, held |-> [s \in Symbols |-> 0], open |-> {},
                   todo |-> {s \in Symbols : journal[s] # NoRow}]
  <2>1. recon' = [recon EXCEPT ![c] = r] /\ op' = [op EXCEPT ![c] = At("portfolio")]
    BY <1>5 DEF LoadRows
  <2>2. r.todo = {} /\ r.open = {}
    BY <1>2
  <2> HIDE DEF r
  <2>3. recon'[c].todo = {} /\ recon'[c].open = {} /\ op'[c].pc = "portfolio"
    BY <2>1, <2>2, Typed DEF At
  <2> QED
    BY <1>1, <1>5, <2>3, StartingStep DEF LoadRows, Starting
<1>6. CASE GotPortfolio(c)
  <2> DEFINE r == [recon[c] EXCEPT !.held = held]
  <2>1. recon' = [recon EXCEPT ![c] = r] /\ op' = [op EXCEPT ![c] = At("orders")]
    BY <1>6, Typed DEF GotPortfolio
  <2>2. r.todo = {} /\ r.open = {}
    BY <1>4, <1>6 DEF GotPortfolio, Recon
  <2> HIDE DEF r
  <2>3. recon'[c].todo = {} /\ recon'[c].open = {} /\ op'[c].pc = "orders"
    BY <2>1, <2>2, Typed DEF At
  <2> QED
    BY <1>1, <1>6, <2>3, StartingStep DEF GotPortfolio, Starting
<1>7. CASE ReconcileFailed(c) \/ ReconcileDone(c)
  <2>1. recon'[c] = NoRecon /\ op'[c].pc = "idle"
    BY <1>7, Typed DEF ReconcileFailed, ReconcileDone, Idle, At
  <2> QED
    BY <1>1, <1>7, <2>1, StartingStep DEF ReconcileFailed, ReconcileDone
<1>8. CASE GotOrders(c)
  <2> DEFINE r == [recon[c] EXCEPT !.open = UNION {LiveStops(s) : s \in Symbols}]
  <2>1. recon' = [recon EXCEPT ![c] = r] \/ recon' = recon
    BY <1>8, Typed DEF GotOrders
  <2>2. r.todo = {} /\ r.open = {}
    <3>1. UNION {LiveStops(s) : s \in Symbols} = {}
      BY <1>3
    <3> QED
      BY <1>4, <1>8, <3>1 DEF GotOrders, Recon
  <2> HIDE DEF r
  <2>3. recon'[c].todo = {} /\ recon'[c].open = {}
    BY <1>4, <1>8, <2>1, <2>2, Typed DEF GotOrders
  <2>4. op'[c].pc = "restore"
    BY <1>8, Typed DEF GotOrders, At
  <2> QED
    BY <1>1, <1>8, <2>3, <2>4, StartingStep DEF GotOrders, Starting
<1>9. CASE FindOrphans(c)
  <2> DEFINE r == [recon[c] EXCEPT !.open = @ \ TrackedStops]
  <2>1. recon' = [recon EXCEPT ![c] = r] /\ op' = [op EXCEPT ![c] = At("orphans")]
    BY <1>9, Typed DEF FindOrphans
  <2>2. r.todo = {} /\ r.open = {}
    BY <1>4, <1>9 DEF FindOrphans, Recon
  <2> HIDE DEF r
  <2>3. recon'[c].todo = {} /\ recon'[c].open = {} /\ op'[c].pc = "orphans"
    BY <2>1, <2>2, Typed DEF At
  <2> QED
    BY <1>1, <1>9, <2>3, StartingStep DEF FindOrphans, Starting
<1>10. ASSUME NEW s \in Symbols PROVE ~DropRow(c, s) /\ ~RestoreRow(c, s)
  BY <1>4 DEF DropRow, RestoreRow
<1>11. ASSUME NEW o \in OrderIds PROVE ~CancelOrphan(c, o)
  BY <1>4 DEF CancelOrphan
<1> QED
  BY <1>5, <1>6, <1>7, <1>8, <1>9, <1>10, <1>11 DEF ReconcileStep

-----------------------------------------------------------------------------
(* execute()                                                               *)

LEMMA SubmitEntryBook ==
  ASSUME TypeInv, NEW c \in Callers, BookInv(c), Steady, NEW s \in Symbols, SubmitEntry(c, s)
  PROVE  BookInv(c)'
<1>1. /\ op[c].pc = "idle" /\ held[s] = 0
      /\ UNCHANGED <<objs, tracked, journal, recon>>
  BY DEF SubmitEntry, MayBuy, Steady
<1>2. PICK o \in FreeOrders :
        /\ FillEntryNow(o, s)
        /\ op' = [op EXCEPT ![c] = [pc |-> "entry", pos |-> NoPos, order |-> o]]
  BY DEF SubmitEntry, Steady
<1>3. o \in OrderIds
  BY DEF FreeOrders
<1>4. op'[c].pc = "entry" /\ op'[c].order = o
  BY <1>2, Typed
<1>5. /\ orders'[o].sym = s /\ orders'[o].status = "filled"
      /\ \A q \in OrderIds : q # o => orders'[q] = orders[q]
  BY <1>2, <1>3, Typed DEF FillEntryNow
<1>6. held'[s] = Lot /\ \A u \in Symbols : u # s => held'[u] = held[u]
  BY <1>1, <1>2, LotAssumption, Typed DEF FillEntryNow
<1>7. NoneLive(s)
  BY <1>1, NothingOwned DEF BookInv
<1>8. \A q \in OrderIds : Live(q)' => Live(q) /\ orders'[q] = orders[q] /\ orders[q].sym # s
  BY <1>5, <1>7 DEF Live, LiveStatus, NoneLive
<1>9. Resting'
  BY <1>6, <1>8, Typed DEF BookInv, Resting
<1>10. Claimed(c)'
  BY <1>1, <1>8 DEF BookInv, Claimed
<1>11. Watched(c)'
  BY <1>1, <1>4, <1>5, <1>6 DEF BookInv, Watched
<1>12. AtEntry(c)'
  BY <1>4, <1>5, <1>6, <1>8 DEF AtEntry, NoneLive
<1>13. recon'[c] = NoRecon
  BY <1>1 DEF BookInv, AtStart, Starting
<1> QED
  BY <1>4, <1>9, <1>10, <1>11, <1>12, <1>13 DEF BookInv, AtArm, AtExit, AtStart, Starting

\* A filled entry is watched for what was bought, in place of whatever was
\* tracked for the symbol before.
LEMMA EntryRepliedBook ==
  ASSUME TypeInv, NEW c \in Callers, BookInv(c), EntryReplied(c)
  PROVE  BookInv(c)'
<1> DEFINE s == orders[op[c].order].sym
           obj == [sym |-> s, qty |-> Lot, stop |-> NoOrder, closing |-> FALSE]
<1>1. op[c].pc = "entry" /\ s \in Symbols /\ UNCHANGED <<orders, held, recon>>
  BY Typed DEF EntryReplied
<1>2. held[s] = Lot /\ NoneLive(s) /\ orders[op[c].order].status = "filled"
  BY <1>1 DEF BookInv, AtEntry
<1>3. PICK p \in FreePos : /\ objs' = [objs EXCEPT ![p] = obj]
                           /\ tracked' = [tracked EXCEPT ![s] = p]
                           /\ op' = [op EXCEPT ![c] = Holding("arm", p)]
  BY <1>2 DEF EntryReplied, Protect
<1>4. p \in PosIds /\ p # NoPos /\ \A u \in Symbols : tracked[u] # p
  BY NullAssumption DEF FreePos, LivePos
<1>5. obj.sym = s /\ obj.qty = Lot /\ obj.stop = NoOrder
  OBVIOUS
<1> HIDE DEF obj, s
<1>6. /\ objs'[p] = obj /\ tracked'[s] = p
      /\ \A u \in Symbols : u # s => tracked'[u] = tracked[u]
      /\ \A q \in PosIds : q # p => objs'[q] = objs[q]
      /\ op'[c].pc = "arm" /\ op'[c].pos = p
  BY <1>1, <1>3, <1>4, Typed
<1>7. SymOf(c)' = s
  BY <1>5, <1>6 DEF SymOf
<1>8. \A u \in Symbols : u # s /\ tracked[u] # NoPos =>
         tracked'[u] = tracked[u] /\ objs'[tracked[u]] = objs[tracked[u]]
  BY <1>4, <1>6, Typed
<1>9. Resting'
  BY <1>1 DEF BookInv, Resting, Live
<1>10. Claimed(c)'
  <2> SUFFICES ASSUME NEW o \in OrderIds, Live(o)
               PROVE  /\ tracked'[orders[o].sym] # NoPos
                      /\ objs'[tracked'[orders[o].sym]].stop = o
    BY <1>1 DEF Claimed, Live
  <2>1. orders[o].sym \in Symbols /\ orders[o].sym # s
    BY <1>2, Typed DEF NoneLive
  <2>2. /\ tracked[orders[o].sym] # NoPos
        /\ objs[tracked[orders[o].sym]].stop = o
    BY <1>1 DEF BookInv, Claimed
  <2> QED
    BY <1>8, <2>1, <2>2
<1>11. Watched(c)'
  <2> SUFFICES ASSUME NEW u \in Symbols, held[u] > 0
               PROVE  tracked'[u] # NoPos /\ held[u] <= objs'[tracked'[u]].qty
    BY <1>1 DEF Watched
  <2>1. CASE u = s
    BY <1>2, <1>4, <1>5, <1>6, <2>1, LotAssumption
  <2>2. CASE u # s
    <3>1. tracked[u] # NoPos /\ held[u] <= objs[tracked[u]].qty
      BY <2>2 DEF BookInv, Watched, s
    <3> QED
      BY <1>8, <2>2, <3>1
  <2> QED
    BY <2>1, <2>2
<1>12. AtArm(c)'
  <2>1. /\ held'[s] > 0 /\ held'[s] = objs'[p].qty /\ objs'[p].stop = NoOrder
        /\ \A o \in OrderIds : Live(o)' => orders'[o].sym # s
    BY <1>1, <1>2, <1>5, <1>6, LotAssumption DEF NoneLive, Live
  <2> QED
    BY <1>6, <1>7, <2>1 DEF AtArm, NoneLive
<1>13. recon'[c] = NoRecon
  BY <1>1 DEF BookInv, AtStart, Starting
<1> QED
  BY <1>6, <1>9, <1>10, <1>11, <1>12, <1>13 DEF BookInv, AtEntry, AtExit, AtStart, Starting

LEMMA ExecuteStepBook ==
  ASSUME TypeInv, NEW c \in Callers, LoopInv(c), BookInv(c), Steady, ExecuteStep(c)
  PROVE  BookInv(c)'
<1>1. ASSUME NEW s \in Symbols PROVE ~SellUntracked(c, s)
  <2> SUFFICES ASSUME SellUntracked(c, s) PROVE FALSE
    OBVIOUS
  <2>1. op[c].pc = "idle" /\ tracked[s] = NoPos /\ held[s] > 0
    BY DEF SellUntracked, FillSellNow
  <2> QED
    BY <2>1 DEF BookInv, Watched
<1>2. ~EntryReplyLost(c)
  BY DEF EntryReplyLost, Steady
<1> QED
  BY <1>1, <1>2, SubmitEntryBook, EntryRepliedBook, BeginCloseBook DEF ExecuteStep, SellTracked

-----------------------------------------------------------------------------
(* The venue                                                               *)

\* A resting stop sells from what is owned and from what it offers alike, and
\* nothing else offers it.
LEMMA FillStopBook ==
  ASSUME TypeInv, NEW c \in Callers, BookInv(c), NEW o \in OrderIds, NEW n \in 1..MaxHeld,
         FillStop(o, n), UNCHANGED managerVars
  PROVE  BookInv(c)'
<1> DEFINE s == orders[o].sym
           q == orders[o].qty
<1>1. Live(o) /\ orders[o].kind = "stop" /\ s \in Symbols
  BY Typed DEF FillStop
<1>2. q \in 1..held[s] /\ held[s] \in Nat /\ n \in Nat
  BY <1>1, Typed, MaxHeldAssumption DEF BookInv, Resting
<1>3. n >= 1 /\ n <= q
  BY <1>2 DEF FillStop
<1>4. /\ orders'[o].sym = s /\ orders'[o].kind = "stop" /\ orders'[o].qty = q - n
      /\ \A u \in OrderIds : u # o => orders'[u] = orders[u]
  BY <1>1, Typed DEF FillStop, Order
<1>5. Live(o)' => n # q
  <2>1. CASE n = q
    <3>1. n = IF orders[o].qty < held[orders[o].sym] THEN orders[o].qty ELSE held[orders[o].sym]
      BY <1>2, <2>1
    <3>2. orders'[o].status = "filled"
      BY <3>1, Typed DEF FillStop, Order
    <3> QED
      BY <3>2 DEF Live, LiveStatus
  <2> QED
    BY <2>1
<1>6. held'[s] = held[s] - n /\ \A u \in Symbols : u # s => held'[u] = held[u]
  BY <1>1, Typed DEF FillStop
<1>7. ASSUME NEW u \in OrderIds, Live(u)'
      PROVE  Live(u) /\ orders'[u].sym = orders[u].sym
  BY <1>1, <1>4, <1>7 DEF Live
<1>8. \A u \in OrderIds : Live(u) /\ orders[u].sym = s => u = o
  BY <1>1, OneLive DEF BookInv
<1>9. ~NoneLive(s)
  BY <1>1 DEF NoneLive
<1>10. \A u \in Symbols : NoneLive(u) => NoneLive(u)' /\ u # s
  BY <1>7, <1>9 DEF NoneLive
<1> HIDE DEF s, q
<1>11. Resting'
  <2> SUFFICES ASSUME NEW u \in OrderIds, Live(u)'
               PROVE  orders'[u].kind = "stop" /\ orders'[u].qty \in 1..held'[orders'[u].sym]
    BY DEF Resting
  <2>1. CASE u = o
    <3>1. q - n \in 1..(held[s] - n)
      BY <1>2, <1>3, <1>5, <2>1
    <3> QED
      BY <1>4, <1>6, <2>1, <3>1
  <2>2. CASE u # o
    <3>1. Live(u) /\ orders'[u] = orders[u] /\ orders[u].sym # s /\ orders[u].sym \in Symbols
      BY <1>4, <1>7, <1>8, <2>2, Typed
    <3> QED
      BY <1>6, <3>1 DEF BookInv, Resting
  <2> QED
    BY <2>1, <2>2
<1>12. UNCHANGED <<objs, tracked, journal, op, recon>>
  OBVIOUS
<1>13. Claimed(c)'
  BY <1>7, <1>12 DEF BookInv, Claimed
<1>14. \A u \in Symbols : held'[u] > 0 => held[u] > 0 /\ held'[u] <= held[u]
  BY <1>2, <1>3, <1>6, Typed
<1>15. \A u \in OrderIds : orders'[u].sym = orders[u].sym
  BY <1>4 DEF s
<1>16. Watched(c)'
  <2> SUFFICES ASSUME NEW u \in Symbols, held'[u] > 0
               PROVE  \/ tracked[u] # NoPos /\ held'[u] <= objs[tracked[u]].qty
                      \/ op[c].pc = "entry" /\ orders'[op[c].order].sym = u
    BY <1>12 DEF Watched
  <2>1. held[u] > 0 /\ held'[u] <= held[u] /\ held[u] \in Nat
    BY <1>14, Typed
  <2>2. held'[u] \in Nat
    BY <1>2, <1>3, <1>6, Typed
  <2>3. CASE tracked[u] # NoPos /\ held[u] <= objs[tracked[u]].qty
    BY <2>1, <2>2, <2>3, Typed
  <2>4. CASE op[c].pc = "entry" /\ orders[op[c].order].sym = u
    BY <1>15, <2>4, Typed
  <2> QED
    BY <2>1, <2>3, <2>4 DEF BookInv, Watched
<1>17. AtEntry(c)'
  <2> SUFFICES ASSUME op[c].pc = "entry"
               PROVE  /\ orders'[op[c].order].status = "filled"
                      /\ held'[orders'[op[c].order].sym] = Lot
                      /\ \A u \in OrderIds : Live(u)' => orders'[u].sym # orders'[op[c].order].sym
    BY <1>12 DEF AtEntry, NoneLive
  <2> DEFINE e == op[c].order
  <2>1. e \in OrderIds /\ orders[e].status = "filled" /\ held[orders[e].sym] = Lot
        /\ NoneLive(orders[e].sym) /\ orders[e].sym \in Symbols
    BY Typed DEF BookInv, AtEntry
  <2>2. e # o
    BY <1>1, <2>1 DEF Live, LiveStatus
  <2> HIDE DEF e
  <2>3. orders'[e] = orders[e] /\ orders[e].sym # s
    BY <1>4, <1>10, <2>1, <2>2
  <2>4. \A u \in OrderIds : Live(u)' => orders'[u].sym # orders[e].sym
    BY <1>7, <2>1 DEF NoneLive
  <2> QED
    BY <1>6, <2>1, <2>3, <2>4 DEF e
<1>18. op[c].pc \in {"arm", "armed", "closed", "exit"} => SymOf(c) \in Symbols /\ SymOf(c)' = SymOf(c)
  BY <1>12, Typed DEF SymOf
<1>19. AtArm(c)'
  BY <1>6, <1>10, <1>12, <1>15, <1>18, Typed DEF BookInv, AtArm
<1>20. AtExit(c)'
  <2>1. held[s] > 0
    BY <1>2
  <2> QED
    BY <1>6, <1>12, <1>18, <2>1 DEF BookInv, AtExit
<1>21. AtStart(c)'
  <2>1. held[s] # 0
    BY <1>2
  <2>2. op[c].pc \notin Starting
    BY <1>1, <2>1 DEF BookInv, AtStart
  <2> QED
    BY <1>12, <2>2 DEF BookInv, AtStart
<1> QED
  BY <1>11, <1>13, <1>16, <1>17, <1>19, <1>20, <1>21 DEF BookInv

LEMMA VenueStepBook ==
  ASSUME TypeInv, NEW c \in Callers, BookInv(c), VenueStep, UNCHANGED managerVars
  PROVE  BookInv(c)'
<1>1. ASSUME NEW o \in OrderIds, NEW n \in 1..MaxHeld, FillStop(o, n)
      PROVE  BookInv(c)'
  BY <1>1, FillStopBook
<1>2. ASSUME NEW o \in OrderIds PROVE ~FillMarket(o)
  BY DEF FillMarket, BookInv, Resting, Live, LiveStatus
<1>3. ASSUME NEW s \in Symbols, NEW level \in Level, MovePrice(s, level)
      PROVE  BookInv(c)'
  <2>1. Kept
    BY <1>3 DEF MovePrice, Kept, Live
  <2> QED
    BY <2>1, KeptStep
<1>4. ASSUME NEW o \in OrderIds, Die(o) \/ RejectStop(o)
      PROVE  BookInv(c)'
  <2>1. Live(o) /\ held' = held
    BY <1>4 DEF Die, RejectStop, Live, LiveStatus
  <2>2. PICK status \in {"canceled", "rejected"} : orders' = [orders EXCEPT ![o].status = status]
    BY <1>4 DEF Die, RejectStop
  <2>3. /\ orders'[o].sym = orders[o].sym /\ ~Live(o)'
        /\ \A q \in OrderIds : q # o => orders'[q] = orders[q]
    BY <2>2, Typed DEF Order, Live, LiveStatus
  <2>4. orders[o].status # "filled"
    BY <2>1 DEF Live, LiveStatus
  <2>5. Kept
    BY <2>1, <2>3, <2>4 DEF Kept, Live
  <2> QED
    BY <2>5, KeptStep
<1> QED
  BY <1>1, <1>2, <1>3, <1>4 DEF VenueStep

-----------------------------------------------------------------------------
(* The theorems.                                                           *)

LEMMA BookInit ==
  ASSUME Init, NEW c, Tasks = {c}
  PROVE  BookInv(c)
<1>1. op[c].pc = "off" /\ recon[c] = NoRecon
  BY DEF Init, ManagerInit, Callers, At
<1>2. \A o \in OrderIds : ~Live(o)
  BY DEF Init, BrokerInit, Live, LiveStatus
<1>3. \A s \in Symbols : held[s] = 0 /\ tracked[s] = NoPos /\ journal[s] = NoRow
  BY DEF Init, BrokerInit, ManagerInit
<1> QED
  BY <1>1, <1>2, <1>3 DEF BookInv, Resting, Claimed, Watched, AtEntry, AtArm, AtExit, AtStart

LEMMA BookStep ==
  ASSUME NEW c, Callers = {c}, Steady, TypeInv, LoopInv(c), BookInv(c), [Next]_vars
  PROVE  BookInv(c)'
<1>0. c \in Callers
  OBVIOUS
<1>1. CASE CallerStep(c)
  BY <1>0, <1>1, CloseStepBook, ArmStepBook, ReconcileStepBook, ExecuteStepBook DEF CallerStep
<1>2. CASE VenueStep /\ UNCHANGED managerVars
  BY <1>0, <1>2, VenueStepBook
<1>3. CASE UNCHANGED <<brokerVars, objs, tracked, journal, op, recon>>
  <2>1. Kept
    BY <1>3 DEF Kept, Live
  <2> QED
    BY <1>0, <1>3, <2>1, KeptStep
<1>4. CASE Crash
  BY <1>4 DEF Crash, Steady
<1> QED
  BY <1>1, <1>2, <1>3, <1>4 DEF Next, CooldownEnds

LEMMA BookInvariant ==
  ASSUME NEW c, Tasks = {c}, Tickers = {}, Steady
  PROVE  Spec => [](TypeInv /\ LoopInv(c) /\ BookInv(c))
<1>0. Callers = {c}
  BY DEF Callers
<1>1. Init => BookInv(c)
  BY BookInit
<1>2. TypeInv /\ LoopInv(c) /\ BookInv(c) /\ [Next]_vars => BookInv(c)'
  BY <1>0, BookStep
<1>3. Spec => []LoopInv(c)
  BY <1>0, LoopInvariant
<1> QED
  BY <1>1, <1>2, <1>3, TypeInvariant, PTL DEF Spec

\* No double sell: with one task, at a venue that fills market orders at
\* once, at most one order that could sell a symbol is live, and it never
\* asks for more than the account owns (_close, _arm_broker_stop).
THEOREM NeverOversold ==
  ASSUME NEW c, Tasks = {c}, Tickers = {}, Steady
  PROVE  Spec => []SellsCovered
<1>1. TypeInv /\ LoopInv(c) /\ BookInv(c) => SellsCovered
  <2> SUFFICES ASSUME TypeInv, BookInv(c), NEW s \in Symbols,
                      NEW o \in LiveSells(s), NEW q \in LiveSells(s)
               PROVE  o = q /\ orders[o].qty <= held[s]
    BY DEF SellsCovered
  <2>1. /\ o \in OrderIds /\ Live(o) /\ orders[o].sym = s
        /\ q \in OrderIds /\ Live(q) /\ orders[q].sym = s
    BY DEF LiveSells, LiveStops, LiveOf
  <2>2. o = q
    BY <2>1, OneLive DEF BookInv
  <2>3. c \in Callers /\ orders[o].qty \in 1..held[s] /\ held[s] \in Nat
    BY <2>1, Typed DEF BookInv, Resting, Callers
  <2> QED
    BY <2>2, <2>3
<1> QED
  BY <1>1, BookInvariant, PTL

\* Whatever the account holds while no bar is in flight is watched, for at
\* least that quantity (execute, protect, _close).
THEOREM NeverNaked ==
  ASSUME NEW c, Tasks = {c}, Tickers = {}, Steady
  PROVE  Spec => []NoNakedPosition
<1>1. TypeInv /\ LoopInv(c) /\ BookInv(c) => NoNakedPosition
  BY DEF BookInv, Watched, NoNakedPosition, TasksIdle
<1> QED
  BY <1>1, BookInvariant, PTL

-----------------------------------------------------------------------------
(* What a sum over no order, or over one, comes to.                        *)

LEMMA NothingLive ==
  ASSUME NEW ord
  PROVE  total_qty(ord, {}) = 0
<1> DEFINE body(g, s) == IF s = {} THEN 0
                         ELSE LET x == CHOOSE x \in s : TRUE IN ord[x].qty + g[s \ {x}]
           fold == CHOOSE g : g = [s \in SUBSET {} |-> body(g, s)]
<1>1. \E g : g = [s \in SUBSET {} |-> body(g, s)]
  <2>1. [s \in SUBSET {} |-> 0] = [s \in SUBSET {} |-> body([t \in SUBSET {} |-> 0], s)]
    OBVIOUS
  <2> QED BY <2>1
<1>2. fold = [s \in SUBSET {} |-> body(fold, s)]
  BY <1>1
<1>3. total_qty(ord, {}) = fold[{}]
  BY DEF total_qty, MapThenSumSet, MapThenFoldSet
<1> HIDE DEF fold
<1> QED BY <1>2, <1>3

LEMMA OneOrderLive ==
  ASSUME NEW ord, NEW o, ord[o].qty \in Nat
  PROVE  total_qty(ord, {o}) = ord[o].qty
<1> DEFINE body(g, s) == IF s = {} THEN 0
                         ELSE LET x == CHOOSE x \in s : TRUE IN ord[x].qty + g[s \ {x}]
           fold == CHOOSE g : g = [s \in SUBSET {o} |-> body(g, s)]
           h == [s \in SUBSET {o} |-> IF s = {} THEN 0 ELSE ord[o].qty]
<1>1. \A s \in SUBSET {o} : s # {} => s = {o} /\ (CHOOSE x \in s : TRUE) = o /\ s \ {o} = {}
  <2>1. (CHOOSE x \in {o} : TRUE) = o
    OBVIOUS
  <2> QED BY <2>1
<1>2. h = [s \in SUBSET {o} |-> body(h, s)]
  <2>1. \A s \in SUBSET {o} : h[s] = body(h, s)
    <3> SUFFICES ASSUME NEW s \in SUBSET {o} PROVE h[s] = body(h, s)
      OBVIOUS
    <3>1. h[{}] = 0
      OBVIOUS
    <3>2. CASE s = {}
      BY <3>2
    <3>3. CASE s # {}
      <4>1. body(h, s) = ord[o].qty + h[{}]
        BY <1>1, <3>3
      <4>2. h[s] = ord[o].qty
        BY <3>3
      <4> HIDE DEF h, body
      <4> QED BY <4>1, <4>2, <3>1
    <3> QED BY <3>2, <3>3
  <2> HIDE DEF body
  <2> QED BY <2>1
<1>3. fold = [s \in SUBSET {o} |-> body(fold, s)]
  <2>1. \E g : g = [s \in SUBSET {o} |-> body(g, s)]
    BY <1>2
  <2> QED BY <2>1
<1>4. total_qty(ord, {o}) = fold[{o}]
  BY DEF total_qty, MapThenSumSet, MapThenFoldSet
<1> HIDE DEF fold
<1>5. fold[{}] = 0
  BY <1>3
<1>6. fold[{o}] = ord[o].qty + fold[{}]
  BY <1>1, <1>3
<1> QED BY <1>4, <1>5, <1>6

\* So what is offered of a symbol is what its one live order asks for, before
\* a step and after it.
LEMMA Offered ==
  ASSUME TypeInv, NEW c \in Callers, BookInv(c), NEW s \in Symbols
  PROVE  /\ NoneLive(s) => units_offered[s] = 0
         /\ \A o \in OrderIds : Live(o) /\ orders[o].sym = s => units_offered[s] = orders[o].qty
<1>1. ASSUME NoneLive(s) PROVE units_offered[s] = 0
  <2>1. LiveSells(s) = {}
    BY <1>1 DEF LiveSells, LiveStops, LiveOf, NoneLive
  <2> QED BY <2>1, NothingLive DEF units_offered
<1>2. ASSUME NEW o \in OrderIds, Live(o), orders[o].sym = s
      PROVE  units_offered[s] = orders[o].qty
  <2>1. LiveSells(s) = {o}
    BY <1>2, OneLive DEF BookInv, Resting, LiveSells, LiveStops, LiveOf
  <2>2. orders[o].qty \in Nat
    BY Typed, MaxHeldAssumption DEF Order
  <2> QED BY <2>1, <2>2, OneOrderLive DEF units_offered
<1> QED BY <1>1, <1>2

LEMMA OfferedNext ==
  ASSUME TypeInv', NEW c \in Callers, BookInv(c)', NEW s \in Symbols
  PROVE  /\ (\A o \in OrderIds : Live(o)' => orders'[o].sym # s) => units_offered'[s] = 0
         /\ \A o \in OrderIds : Live(o)' /\ orders'[o].sym = s => units_offered'[s] = orders'[o].qty
<1>1. ASSUME \A o \in OrderIds : Live(o)' => orders'[o].sym # s PROVE units_offered'[s] = 0
  <2>1. LiveSells(s)' = {}
    BY <1>1 DEF LiveSells, LiveStops, LiveOf
  <2> QED BY <2>1, NothingLive DEF units_offered
<1>2. ASSUME NEW o \in OrderIds, Live(o)', orders'[o].sym = s
      PROVE  units_offered'[s] = orders'[o].qty
  <2>1. \A q \in OrderIds : Live(q)' /\ orders'[q].sym = s => q = o
    BY <1>2, NullAssumption DEF BookInv, Claimed, AtArm
  <2>2. LiveSells(s)' = {o}
    BY <1>2, <2>1 DEF BookInv, Resting, LiveSells, LiveStops, LiveOf
  <2>3. orders'[o].qty \in Nat
    BY MaxHeldAssumption DEF TypeInv, TypeOK, ManagerTypeOK, Order
  <2> QED BY <2>2, <2>3, OneOrderLive DEF units_offered
<1> QED BY <1>1, <1>2

\* A symbol whose live order, if any, stays as it is has as much on offer.
LEMMA OfferedSame ==
  ASSUME TypeInv, TypeInv', NEW c \in Callers, BookInv(c), BookInv(c)', NEW s \in Symbols,
         \A o \in OrderIds :
           /\ Live(o)' /\ orders'[o].sym = s <=> Live(o) /\ orders[o].sym = s
           /\ Live(o) /\ orders[o].sym = s => orders'[o].qty = orders[o].qty
  PROVE  units_offered'[s] = units_offered[s]
<1>1. CASE NoneLive(s)
  <2>1. \A o \in OrderIds : Live(o)' => orders'[o].sym # s
    BY <1>1 DEF NoneLive
  <2> QED BY <1>1, <2>1, Offered, OfferedNext
<1>2. CASE ~NoneLive(s)
  <2>1. PICK o \in OrderIds : Live(o) /\ orders[o].sym = s
    BY <1>2 DEF NoneLive
  <2>2. Live(o)' /\ orders'[o].sym = s /\ orders'[o].qty = orders[o].qty
    BY <2>1
  <2> QED BY <2>1, <2>2, Offered, OfferedNext
<1> QED BY <1>1, <1>2

\* If that is so of every symbol but s, only s changes what it offers; and if
\* an order slot goes from one dead order to another, nothing does.
LEMMA OnlyOffer ==
  ASSUME TypeInv, TypeInv', NEW c \in Callers, BookInv(c), BookInv(c)', NEW s \in Symbols,
         \A o \in OrderIds :
           /\ Live(o)' /\ orders'[o].sym # s <=> Live(o) /\ orders[o].sym # s
           /\ Live(o) /\ orders[o].sym # s =>
                orders'[o].sym = orders[o].sym /\ orders'[o].qty = orders[o].qty
  PROVE  units_offered' = [units_offered EXCEPT ![s] = units_offered'[s]]
<1>1. \A u \in Symbols : u # s => units_offered'[u] = units_offered[u]
  BY OfferedSame
<1>2. /\ units_offered = [u \in Symbols |-> units_offered[u]]
      /\ units_offered' = [u \in Symbols |-> units_offered'[u]]
  BY DEF units_offered
<1> QED BY <1>1, <1>2

LEMMA DeadSlot ==
  ASSUME TypeInv, TypeInv', NEW c \in Callers, BookInv(c), BookInv(c)', NEW o \in OrderIds,
         ~Live(o), ~Live(o)', \A q \in OrderIds : q # o => orders'[q] = orders[q]
  PROVE  units_offered' = units_offered
<1>1. \A q \in OrderIds : /\ Live(q)' <=> Live(q)
                          /\ Live(q) => orders'[q] = orders[q]
  BY DEF Live
<1>2. \A u \in Symbols : units_offered'[u] = units_offered[u]
  BY <1>1, OfferedSame
<1>3. /\ units_offered = [u \in Symbols |-> units_offered[u]]
      /\ units_offered' = [u \in Symbols |-> units_offered'[u]]
  BY DEF units_offered
<1> QED BY <1>2, <1>3

\* Whatever is live asks for something.
LEMMA LiveOffers ==
  ASSUME TypeInv, NEW c \in Callers, BookInv(c), NEW o \in OrderIds, Live(o)
  PROVE  /\ orders[o].sym \in Symbols
         /\ units_offered[orders[o].sym] = orders[o].qty /\ orders[o].qty \in Nat \ {0}
<1>1. orders[o].sym \in Symbols /\ held[orders[o].sym] \in Nat
  BY Typed
<1>2. orders[o].qty \in 1..held[orders[o].sym]
  BY DEF BookInv, Resting
<1> QED BY <1>1, <1>2, Offered

-----------------------------------------------------------------------------
(* Each step of the desk, as one of the book or none.                      *)

BookStepOrNone == Book!Next \/ UNCHANGED <<held, units_offered, units_watched>>

\* The software stop watches as much as before, for what is tracked is.
LEMMA WatchedSame ==
  ASSUME TypeInv, NEW c \in Callers, tracked' = tracked, \A p \in PosIds : objs'[p].qty = objs[p].qty
  PROVE  units_watched' = units_watched
<1>1. \A s \in Symbols : tracked[s] # NoPos => objs'[tracked[s]].qty = objs[tracked[s]].qty
  BY Typed
<1> QED BY <1>1 DEF units_watched

\* An order that dies is withdrawn; a step after which as many are live is
\* none of the book's.
LEMMA KeptRefines ==
  ASSUME TypeInv, TypeInv', NEW c \in Callers, BookInv(c), BookInv(c)',
         UNCHANGED <<held, tracked>>,
         \A p \in PosIds : objs'[p].qty = objs[p].qty,
         \A o \in OrderIds : /\ orders'[o].sym = orders[o].sym
                             /\ Live(o)' => Live(o) /\ orders'[o].qty = orders[o].qty,
         \/ \A o \in OrderIds : Live(o) => Live(o)'
         \/ \E o \in OrderIds : \A q \in OrderIds \ {o} : Live(q) => Live(q)'
  PROVE  BookStepOrNone
<1>1. units_watched' = units_watched
  BY WatchedSame
<1>2. CASE \A o \in OrderIds : Live(o) => Live(o)'
  <2>1. \A s \in Symbols : units_offered'[s] = units_offered[s]
    BY <1>2, OfferedSame
  <2>2. /\ units_offered = [u \in Symbols |-> units_offered[u]]
        /\ units_offered' = [u \in Symbols |-> units_offered'[u]]
    BY DEF units_offered
  <2>3. units_offered' = units_offered
    BY <2>1, <2>2
  <2> QED BY <1>1, <2>3 DEF BookStepOrNone
<1>3. ASSUME NEW o \in OrderIds, \A q \in OrderIds \ {o} : Live(q) => Live(q)',
             Live(o), ~Live(o)'
      PROVE  BookStepOrNone
  <2> DEFINE s == orders[o].sym
  <2>1. s \in Symbols /\ units_offered[s] > 0
    BY <1>3, LiveOffers
  <2>2. \A q \in OrderIds : Live(q)' => orders'[q].sym # s
    BY <1>3, OneLive DEF BookInv
  <2>3. units_offered'[s] = 0
    BY <2>1, <2>2, OfferedNext
  <2>4. units_offered' = [units_offered EXCEPT ![s] = units_offered'[s]]
    BY <1>3, <2>1, OnlyOffer
  <2> HIDE DEF s
  <2>5. Book!Withdraw(s)
    BY <1>1, <2>1, <2>3, <2>4 DEF Book!Withdraw
  <2> QED BY <2>1, <2>5 DEF BookStepOrNone, Book!Next
<1> QED BY <1>2, <1>3

LEMMA QuietRefines ==
  ASSUME TypeInv, TypeInv', NEW c \in Callers, BookInv(c), BookInv(c)',
         UNCHANGED <<orders, held, tracked>>, \A p \in PosIds : objs'[p].qty = objs[p].qty
  PROVE  BookStepOrNone
<1>1. \A o \in OrderIds : Live(o) => Live(o)'
  BY DEF Live
<1>2. \A o \in OrderIds : /\ orders'[o].sym = orders[o].sym
                          /\ Live(o)' => Live(o) /\ orders'[o].qty = orders[o].qty
  BY DEF Live
<1> QED BY <1>1, <1>2, KeptRefines

LEMMA SubmitCloseRefines ==
  ASSUME TypeInv, TypeInv', NEW c \in Callers, LoopInv(c), BookInv(c), BookInv(c)', Steady,
         SubmitClose(c)
  PROVE  BookStepOrNone
<1> DEFINE s == SymOf(c)
<1>1. op[c].pc = "close" /\ op[c].pos \in PosIds /\ s \in Symbols
      /\ UNCHANGED <<objs, tracked>>
  BY Typed DEF SubmitClose
<1>2. PICK o \in FreeOrders : FillSellNow(o, s, objs[op[c].pos].qty)
  BY DEF SubmitClose, Steady
<1>3. o \in OrderIds /\ ~Live(o) /\ held[s] > 0
  BY <1>2 DEF FreeOrders, FillSellNow
<1>4. ~Live(o)' /\ \A q \in OrderIds : q # o => orders'[q] = orders[q]
  BY <1>2, <1>3, Typed DEF FillSellNow, Live, LiveStatus
<1>5. NoneLive(s) /\ tracked[s] = op[c].pos
  BY <1>1, StopIsDown DEF BookInv, LoopInv, Place, InClose
<1>6. held' = [held EXCEPT ![s] = 0]
  <2> DEFINE n == objs[op[c].pos].qty
  <2>1. held' = [held EXCEPT ![s] = IF n < held[s] THEN held[s] - n ELSE 0]
    BY <1>2 DEF FillSellNow
  <2>2. n \in Nat /\ held[s] \in Nat /\ held[s] <= n
    BY <1>1, <1>3, <1>5, Typed DEF BookInv, Watched
  <2> HIDE DEF n
  <2>3. (IF n < held[s] THEN held[s] - n ELSE 0) = 0
    BY <2>2
  <2> QED
    BY <2>1, <2>3
<1>7. units_offered[s] = 0
  BY <1>1, <1>5, Offered
<1>8. units_offered' = units_offered
  BY <1>3, <1>4, DeadSlot
<1>9. units_watched' = units_watched
  BY <1>1, WatchedSame
<1> HIDE DEF s
<1>10. Book!SellRest(s)
  BY <1>3, <1>6, <1>7, <1>8, <1>9 DEF Book!SellRest
<1> QED BY <1>1, <1>10 DEF BookStepOrNone, Book!Next

LEMMA CloseRepliedRefines ==
  ASSUME TypeInv, TypeInv', NEW c \in Callers, BookInv(c), BookInv(c)', CloseReplied(c)
  PROVE  BookStepOrNone
<1> DEFINE s == SymOf(c)
<1>1. /\ op[c].pc = "closed" /\ s \in Symbols
      /\ tracked' = [tracked EXCEPT ![s] = NoPos]
      /\ UNCHANGED <<orders, held, objs>>
  BY Typed DEF CloseReplied
<1>2. held[s] = 0
  BY <1>1 DEF BookInv, AtExit
<1>3. units_offered' = units_offered
  BY <1>1 DEF units_offered, LiveSells, LiveStops, LiveOf, Live
<1> HIDE DEF s
<1>4. units_watched' = [units_watched EXCEPT ![s] = 0]
  <2>1. tracked'[s] = NoPos /\ \A u \in Symbols : u # s => tracked'[u] = tracked[u]
    BY <1>1, Typed
  <2>2. units_watched'[s] = 0 /\ \A u \in Symbols : u # s => units_watched'[u] = units_watched[u]
    BY <1>1, <2>1 DEF units_watched
  <2>3. /\ units_watched = [u \in Symbols |-> units_watched[u]]
        /\ units_watched' = [u \in Symbols |-> units_watched'[u]]
    BY DEF units_watched
  <2> QED BY <2>2, <2>3
<1>5. Book!Unwatch(s)
  BY <1>1, <1>2, <1>3, <1>4 DEF Book!Unwatch
<1> QED BY <1>1, <1>5 DEF BookStepOrNone, Book!Next

LEMMA CloseStepRefines ==
  ASSUME TypeInv, TypeInv', NEW c \in Callers, LoopInv(c), BookInv(c), BookInv(c)', Steady,
         CloseStep(c)
  PROVE  BookStepOrNone
<1>1. ASSUME NEW s \in Symbols, BeginClose(c, s)
      PROVE  BookStepOrNone
  <2>1. op[c].pc = "idle" /\ tracked[s] \in PosIds /\ UNCHANGED brokerVars
    BY <1>1, Typed DEF BeginClose
  <2>2. lock[s] = NoCaller
    BY <2>1 DEF LoopInv, Place, Closing
  <2>3. EnterClose(c, tracked[s])
    BY <1>1, <2>2 DEF BeginClose
  <2>4. Kept
    BY <2>1, <2>3, EnterCloseKept
  <2> QED BY <2>1, <2>4, QuietRefines DEF Kept
<1>2. CASE Acquire(c)
  BY <1>2 DEF Acquire, LoopInv, Place
<1>3. CASE Cancel(c)
  <2> DEFINE o == op[c].order
  <2>1. o \in OrderIds /\ UNCHANGED <<held, tracked, objs>>
    BY <1>3, Typed DEF Cancel
  <2>2. CancelTakes(o) \/ CancelPends(o) \/ CancelFails(o)
    BY <1>3 DEF Cancel
  <2>3. \A q \in OrderIds \ {o} : Live(q) => Live(q)'
    BY <2>1, <2>2, Typed DEF CancelTakes, CancelPends, CancelFails, Live
  <2> HIDE DEF o
  <2> QED BY <2>1, <2>2, <2>3, CancelKept, KeptRefines
<1>4. CASE Confirmed(c) \/ ExitReported(c)
  BY <1>4, QuietRefines DEF Confirmed, ExitReported
<1>5. CASE Unconfirmed(c) \/ CloseRefused(c) \/ ExitRaised(c)
  <2>1. op[c].pc \in {"confirm", "close", "exit"} /\ BackOff(c) /\ UNCHANGED brokerVars
    BY <1>5 DEF Unconfirmed, CloseRefused, ExitRaised
  <2>2. op[c].pos \in PosIds
    BY <2>1, Typed
  <2>3. Kept
    BY <2>1, <2>2, BackOffKept
  <2> QED BY <2>1, <2>3, QuietRefines DEF Kept
<1>6. ~CloseReplyLost(c)
  BY DEF CloseReplyLost, Steady
<1> QED
  BY <1>1, <1>2, <1>3, <1>4, <1>5, <1>6, SubmitCloseRefines, CloseRepliedRefines
     DEF CloseStep, OnPrice

LEMMA SubmitStopRefines ==
  ASSUME TypeInv, TypeInv', NEW c \in Callers, LoopInv(c), BookInv(c), BookInv(c)', SubmitStop(c)
  PROVE  BookStepOrNone
<1> DEFINE p == op[c].pos
           s == SymOf(c)
<1>1. op[c].pc = "arm" /\ p \in PosIds /\ s \in Symbols /\ UNCHANGED <<objs, tracked>>
  BY Typed DEF SubmitStop
<1>2. PICK o \in FreeOrders : Accept(o, s, "stop", objs[p].qty)
  BY DEF SubmitStop
<1>3. o \in OrderIds /\ ~Live(o)
  BY DEF FreeOrders
<1>4. /\ orders'[o].sym = s /\ orders'[o].qty = objs[p].qty /\ Live(o)'
      /\ \A q \in OrderIds : q # o => orders'[q] = orders[q]
      /\ held' = held
  BY <1>2, <1>3, Typed DEF Accept, Live, LiveStatus
<1>5. /\ held[s] > 0 /\ held[s] = objs[p].qty /\ NoneLive(s)
      /\ tracked[s] = p /\ p # NoPos
  BY <1>1, NullAssumption DEF BookInv, AtArm, LoopInv, Place, InClose
<1>6. units_offered[s] = 0 /\ units_offered'[s] = held[s]
  BY <1>1, <1>3, <1>4, <1>5, Offered, OfferedNext
<1>7. \A q \in OrderIds :
        /\ Live(q)' /\ orders'[q].sym # s <=> Live(q) /\ orders[q].sym # s
        /\ Live(q) /\ orders[q].sym # s =>
             orders'[q].sym = orders[q].sym /\ orders'[q].qty = orders[q].qty
  BY <1>3, <1>4 DEF Live
<1>8. units_offered' = [units_offered EXCEPT ![s] = units_offered'[s]]
  BY <1>1, <1>7, OnlyOffer
<1>9. units_watched' = units_watched
  BY <1>1, WatchedSame
<1>10. units_watched[s] = held[s]
  BY <1>1, <1>5 DEF units_watched
<1> HIDE DEF p, s
<1>11. Book!Offer(s)
  BY <1>4, <1>5, <1>6, <1>8, <1>9, <1>10 DEF Book!Offer
<1> QED BY <1>1, <1>11 DEF BookStepOrNone, Book!Next

LEMMA ArmStepRefines ==
  ASSUME TypeInv, TypeInv', NEW c \in Callers, LoopInv(c), BookInv(c), BookInv(c)', Steady,
         ArmStep(c)
  PROVE  BookStepOrNone
<1>1. ASSUME NEW obj, obj.qty = objs[op[c].pos].qty, AfterArm(c, obj)
      PROVE  BookStepOrNone
  <2>1. objs' = [objs EXCEPT ![op[c].pos] = obj] /\ UNCHANGED <<orders, held, tracked>>
    BY <1>1 DEF AfterArm
  <2>2. \A p \in PosIds : objs'[p].qty = objs[p].qty
    BY <1>1, <2>1, Typed
  <2> QED BY <2>1, <2>2, QuietRefines
<1>2. CASE StopReplied(c)
  <2> DEFINE obj == [objs[op[c].pos] EXCEPT !.stop = op[c].order]
  <2>1. obj.qty = objs[op[c].pos].qty
    BY <1>2, Typed DEF StopReplied, Object
  <2>2. AfterArm(c, obj)
    BY <1>2 DEF StopReplied
  <2> HIDE DEF obj
  <2> QED BY <1>1, <2>1, <2>2
<1>3. CASE StopRefused(c)
  BY <1>1, <1>3 DEF StopRefused
<1>4. ~StopReplyLost(c)
  BY DEF StopReplyLost, Steady
<1> QED BY <1>2, <1>3, <1>4, SubmitStopRefines DEF ArmStep

LEMMA ReconcileStepRefines ==
  ASSUME TypeInv, TypeInv', NEW c \in Callers, BookInv(c), BookInv(c)', ReconcileStep(c)
  PROVE  BookStepOrNone
<1>1. op[c].pc \in Starting
  BY DEF ReconcileStep, LoadRows, GotPortfolio, ReconcileFailed, GotOrders, DropRow, RestoreRow,
         FindOrphans, CancelOrphan, ReconcileDone, Starting
<1>2. op[c].pc \in {"portfolio", "orders", "restore", "orphans"} =>
        recon[c] \in Recon /\ recon[c].todo = {} /\ recon[c].open = {}
  BY <1>1, NullAssumption DEF BookInv, AtStart, TypeInv, OpOK
<1>3. ASSUME NEW s \in Symbols PROVE ~DropRow(c, s) /\ ~RestoreRow(c, s)
  BY <1>2 DEF DropRow, RestoreRow
<1>4. ASSUME NEW o \in OrderIds PROVE ~CancelOrphan(c, o)
  BY <1>2 DEF CancelOrphan
<1> QED
  BY <1>3, <1>4, QuietRefines
     DEF ReconcileStep, LoadRows, GotPortfolio, ReconcileFailed, GotOrders, FindOrphans, ReconcileDone

LEMMA SubmitEntryRefines ==
  ASSUME TypeInv, TypeInv', NEW c \in Callers, BookInv(c), BookInv(c)', Steady,
         NEW s \in Symbols, SubmitEntry(c, s)
  PROVE  BookStepOrNone
<1>1. held[s] = 0 /\ UNCHANGED <<objs, tracked>>
  BY DEF SubmitEntry, MayBuy, Steady
<1>2. PICK o \in FreeOrders : FillEntryNow(o, s)
  BY DEF SubmitEntry, Steady
<1>3. o \in OrderIds /\ ~Live(o)
  BY DEF FreeOrders
<1>4. ~Live(o)' /\ \A q \in OrderIds : q # o => orders'[q] = orders[q]
  BY <1>2, <1>3, Typed DEF FillEntryNow, Live, LiveStatus
<1>5. held' = [held EXCEPT ![s] = Lot]
  <2>1. held' = [held EXCEPT ![s] = held[s] + Lot] /\ held[s] + Lot = Lot
    BY <1>1, <1>2, LotAssumption DEF FillEntryNow
  <2> QED BY <2>1
<1>6. units_offered[s] = 0
  BY <1>1, NothingOwned, Offered DEF BookInv
<1>7. units_offered' = units_offered /\ units_watched' = units_watched
  BY <1>1, <1>3, <1>4, DeadSlot, WatchedSame
<1>8. Book!Buy(s)
  BY <1>1, <1>5, <1>6, <1>7 DEF Book!Buy
<1> QED BY <1>8 DEF BookStepOrNone, Book!Next

LEMMA EntryRepliedRefines ==
  ASSUME TypeInv, TypeInv', NEW c \in Callers, BookInv(c), BookInv(c)', EntryReplied(c)
  PROVE  BookStepOrNone
<1> DEFINE s == orders[op[c].order].sym
           obj == [sym |-> s, qty |-> Lot, stop |-> NoOrder, closing |-> FALSE]
<1>1. op[c].pc = "entry" /\ s \in Symbols /\ UNCHANGED <<orders, held>>
  BY Typed DEF EntryReplied
<1>2. held[s] = Lot /\ NoneLive(s) /\ orders[op[c].order].status = "filled"
  BY <1>1 DEF BookInv, AtEntry
<1>3. PICK p \in FreePos : /\ objs' = [objs EXCEPT ![p] = obj]
                           /\ tracked' = [tracked EXCEPT ![s] = p]
  BY <1>2 DEF EntryReplied, Protect
<1>4. p \in PosIds /\ p # NoPos /\ \A u \in Symbols : tracked[u] # p
  BY NullAssumption DEF FreePos, LivePos
<1>5. obj.qty = Lot
  OBVIOUS
<1>6. units_offered[s] = 0
  BY <1>1, <1>2, Offered
<1>7. units_offered' = units_offered
  BY <1>1 DEF units_offered, LiveSells, LiveStops, LiveOf, Live
<1> HIDE DEF obj, s
<1>8. units_watched' = [units_watched EXCEPT ![s] = held[s]]
  <2>1. /\ objs'[p].qty = Lot /\ tracked'[s] = p
        /\ \A u \in Symbols : u # s => /\ tracked'[u] = tracked[u]
                                       /\ tracked[u] # NoPos => objs'[tracked[u]] = objs[tracked[u]]
    BY <1>1, <1>3, <1>4, <1>5, Typed
  <2>2. units_watched'[s] = Lot /\ \A u \in Symbols : u # s => units_watched'[u] = units_watched[u]
    BY <1>1, <1>4, <2>1 DEF units_watched
  <2>3. /\ units_watched = [u \in Symbols |-> units_watched[u]]
        /\ units_watched' = [u \in Symbols |-> units_watched'[u]]
    BY DEF units_watched
  <2>4. held[s] = Lot
    BY <1>2 DEF s
  <2> QED BY <2>2, <2>3, <2>4
<1>9. held[s] > 0
  BY <1>2, LotAssumption DEF s
<1>10. Book!Watch(s)
  BY <1>1, <1>6, <1>7, <1>8, <1>9 DEF Book!Watch
<1> QED BY <1>1, <1>10 DEF BookStepOrNone, Book!Next

LEMMA ExecuteStepRefines ==
  ASSUME TypeInv, TypeInv', NEW c \in Callers, LoopInv(c), BookInv(c), BookInv(c)', Steady,
         ExecuteStep(c)
  PROVE  BookStepOrNone
<1>1. ASSUME NEW s \in Symbols PROVE ~SellUntracked(c, s)
  <2> SUFFICES ASSUME SellUntracked(c, s) PROVE FALSE
    OBVIOUS
  <2>1. op[c].pc = "idle" /\ tracked[s] = NoPos /\ held[s] > 0
    BY DEF SellUntracked, FillSellNow
  <2> QED
    BY <2>1 DEF BookInv, Watched
<1>2. ASSUME NEW s \in Symbols, SellTracked(c, s) PROVE BookStepOrNone
  <2>1. op[c].pc = "idle" /\ tracked[s] \in PosIds /\ UNCHANGED brokerVars /\ BeginClose(c, s)
    BY <1>2, Typed DEF SellTracked, BeginClose
  <2>2. lock[s] = NoCaller
    BY <2>1 DEF LoopInv, Place, Closing
  <2>3. Kept
    BY <2>1, <2>2, EnterCloseKept DEF BeginClose
  <2> QED BY <2>1, <2>3, QuietRefines DEF Kept
<1>3. ~EntryReplyLost(c)
  BY DEF EntryReplyLost, Steady
<1> QED
  BY <1>1, <1>2, <1>3, SubmitEntryRefines, EntryRepliedRefines DEF ExecuteStep

LEMMA FillStopRefines ==
  ASSUME TypeInv, TypeInv', NEW c \in Callers, BookInv(c), BookInv(c)',
         NEW o \in OrderIds, NEW n \in 1..MaxHeld, FillStop(o, n), UNCHANGED managerVars
  PROVE  BookStepOrNone
<1> DEFINE s == orders[o].sym
           q == orders[o].qty
<1>1. Live(o) /\ s \in Symbols
  BY Typed DEF FillStop
<1>2. q \in 1..held[s] /\ held[s] \in Nat /\ n \in Nat
  BY <1>1, Typed, MaxHeldAssumption DEF BookInv, Resting
<1>3. n >= 1 /\ n <= q
  BY <1>2 DEF FillStop
<1>4. /\ orders'[o].sym = s /\ orders'[o].qty = q - n
      /\ \A u \in OrderIds : u # o => orders'[u] = orders[u]
  BY <1>1, Typed DEF FillStop, Order
<1>5. held' = [held EXCEPT ![s] = held[s] - n]
  BY DEF FillStop
<1>6. Live(o)' <=> n # q
  <2>1. n = q => orders'[o].status = "filled"
    <3>1. n = q => n = IF orders[o].qty < held[orders[o].sym] THEN orders[o].qty ELSE held[orders[o].sym]
      BY <1>2
    <3> QED
      BY <3>1, Typed DEF FillStop, Order
  <2>2. n # q => orders'[o].status = orders[o].status
    <3>1. n # q => n # IF orders[o].qty < held[orders[o].sym] THEN orders[o].qty ELSE held[orders[o].sym]
      BY <1>2, <1>3
    <3> QED
      BY <3>1, Typed DEF FillStop, Order
  <2> QED BY <1>1, <2>1, <2>2 DEF Live, LiveStatus
<1>7. \A u \in OrderIds : Live(u) /\ orders[u].sym = s => u = o
  BY <1>1, OneLive DEF BookInv
<1>8. units_offered[s] = q
  BY <1>1, Offered
<1> HIDE DEF q
<1>9. units_offered'[s] = q - n
  <2>1. CASE Live(o)'
    BY <1>1, <1>4, <2>1, OfferedNext
  <2>2. CASE ~Live(o)'
    <3>1. \A u \in OrderIds : Live(u)' => orders'[u].sym # s
      BY <1>4, <1>7, <2>2 DEF Live
    <3>2. units_offered'[s] = 0
      BY <1>1, <3>1, OfferedNext
    <3>3. q - n = 0
      BY <1>2, <1>6, <2>2
    <3> QED BY <3>2, <3>3
  <2> QED BY <2>1, <2>2
<1>10. \A u \in OrderIds :
         /\ Live(u)' /\ orders'[u].sym # s <=> Live(u) /\ orders[u].sym # s
         /\ Live(u) /\ orders[u].sym # s =>
              orders'[u].sym = orders[u].sym /\ orders'[u].qty = orders[u].qty
  BY <1>4 DEF Live
<1>11. units_offered' = [units_offered EXCEPT ![s] = units_offered[s] - n]
  BY <1>1, <1>8, <1>9, <1>10, OnlyOffer
<1>12. units_watched' = units_watched
  BY WatchedSame
<1> HIDE DEF s
<1>13. n \in 1..units_offered[s]
  BY <1>2, <1>3, <1>8
<1>14. Book!SellOffered(s, n)
  BY <1>5, <1>11, <1>12, <1>13 DEF Book!SellOffered
<1> QED BY <1>1, <1>13, <1>14 DEF BookStepOrNone, Book!Next

LEMMA VenueStepRefines ==
  ASSUME TypeInv, TypeInv', NEW c \in Callers, BookInv(c), BookInv(c)', VenueStep,
         UNCHANGED managerVars
  PROVE  BookStepOrNone
<1>1. ASSUME NEW o \in OrderIds PROVE ~FillMarket(o)
  BY DEF FillMarket, BookInv, Resting, Live, LiveStatus
<1>2. ASSUME NEW s \in Symbols, NEW level \in Level, MovePrice(s, level)
      PROVE  BookStepOrNone
  BY <1>2, QuietRefines DEF MovePrice
<1>3. ASSUME NEW o \in OrderIds, Die(o) \/ RejectStop(o)
      PROVE  BookStepOrNone
  <2>1. PICK status \in {"canceled", "rejected"} : orders' = [orders EXCEPT ![o].status = status]
    BY <1>3 DEF Die, RejectStop
  <2>2. held' = held
    BY <1>3 DEF Die, RejectStop
  <2>3. /\ orders'[o].sym = orders[o].sym /\ ~Live(o)'
        /\ \A q \in OrderIds : q # o => orders'[q] = orders[q]
    BY <2>1, Typed DEF Order, Live, LiveStatus
  <2>4. \A q \in OrderIds : /\ orders'[q].sym = orders[q].sym
                            /\ Live(q)' => Live(q) /\ orders'[q].qty = orders[q].qty
    BY <2>3 DEF Live
  <2>5. \A q \in OrderIds \ {o} : Live(q) => Live(q)'
    BY <2>3 DEF Live
  <2> QED BY <2>2, <2>4, <2>5, KeptRefines
<1> QED BY <1>1, <1>2, <1>3, FillStopRefines DEF VenueStep

-----------------------------------------------------------------------------
LEMMA BookBegins ==
  ASSUME Init
  PROVE  Book!Init
<1>1. \A s \in Symbols : LiveSells(s) = {}
  BY DEF Init, BrokerInit, LiveSells, LiveStops, LiveOf, Live, LiveStatus
<1>2. units_offered = [s \in Symbols |-> 0]
  BY <1>1, NothingLive DEF units_offered
<1>3. units_watched = [s \in Symbols |-> 0]
  BY DEF units_watched, Init, ManagerInit
<1> QED BY <1>2, <1>3 DEF Book!Init, Init, BrokerInit

LEMMA StepRefines ==
  ASSUME NEW c, Callers = {c}, Steady, TypeInv, TypeInv', LoopInv(c), BookInv(c), BookInv(c)',
         [Next]_vars
  PROVE  BookStepOrNone
<1>0. c \in Callers
  OBVIOUS
<1>1. CASE CallerStep(c)
  BY <1>0, <1>1, CloseStepRefines, ArmStepRefines, ReconcileStepRefines, ExecuteStepRefines
     DEF CallerStep
<1>2. CASE VenueStep /\ UNCHANGED managerVars
  BY <1>0, <1>2, VenueStepRefines
<1>3. CASE UNCHANGED <<orders, held, objs, tracked>>
  BY <1>0, <1>3, QuietRefines
<1>4. CASE Crash
  BY <1>4 DEF Crash, Steady
<1> QED
  BY <1>1, <1>2, <1>3, <1>4 DEF Next, CooldownEnds

\* The order path implements the book of long positions: with one task, at a
\* venue that fills market orders at once, every step of its coroutines and
\* of the venue is one the book allows, or none (execute, StopManager).
THEOREM DeskKeepsTheBook ==
  ASSUME NEW c, Tasks = {c}, Tickers = {}, Steady
  PROVE  Spec => KeepsTheBook
<1>0. Callers = {c}
  BY DEF Callers
<1> DEFINE Inv == TypeInv /\ LoopInv(c) /\ BookInv(c)
<1>1. Spec => []Inv
  BY BookInvariant
<1>2. Init => Book!Init
  BY BookBegins
<1>3. Inv /\ Inv' /\ [Next]_vars => [Book!Next]_(Book!book)
  <2>1. Inv /\ Inv' /\ [Next]_vars => BookStepOrNone
    BY <1>0, StepRefines
  <2> QED BY <2>1 DEF BookStepOrNone, Book!book
<1> HIDE DEF Inv
<1> QED
  BY <1>1, <1>2, <1>3, PTL DEF Spec, KeepsTheBook, Book!Spec

-----------------------------------------------------------------------------
(* A restart that gives its protection back.                               *)

\* The process may die at any step, replies and listings may be lost and the
\* exit callback may raise; the venue refuses nothing, and does at once what
\* it is asked.
Recoverable == Env \subseteq {"crash", "lost_reply", "list_fails", "exit_raises"}

\* What is owned, watched and offered is one entry's lot, or nothing.
WholeLots ==
  /\ \A s \in Symbols : held[s] \in {0, Lot}
  /\ \A s \in Symbols : tracked[s] # NoPos => objs[tracked[s]].qty = Lot
  /\ \A o \in OrderIds : Live(o) =>
       orders[o].kind = "stop" /\ orders[o].status = "accepted" /\ orders[o].qty = Lot

\* A stop that a position, a row or the task names is one of its symbol: its
\* slot is not reused while anything names it.
StopOf(o, s) == o # NoOrder => orders[o].sym = s /\ orders[o].kind = "stop"
NamesItsStop(c) ==
  /\ \A s \in Symbols : tracked[s] # NoPos => StopOf(objs[tracked[s]].stop, s)
  /\ \A s \in Symbols : journal[s] # NoRow => StopOf(journal[s].stop, s)
  /\ op[c].pos # NoPos => StopOf(objs[op[c].pos].stop, SymOf(c))
  /\ op[c].pc = "armed" => StopOf(op[c].order, SymOf(c))
  /\ recon[c] # NoRecon =>
       \A s \in Symbols : recon[c].rows[s] # NoRow => StopOf(recon[c].rows[s].stop, s)

\* Some live stop of s is not, or will not be, among the orders that
\* reconcile() takes for orphans.
Guarded(c, s) ==
  \E o \in LiveStops(s) :
    \/ o \notin recon[c].open
    \/ op[c].pc # "orphans" /\ tracked[s] # NoPos /\ o = objs[tracked[s]].stop

\* What reconcile() knows where it stands: of a symbol still held it has seen
\* the quantity, and the orders it has listed are resting stops that live,
\* but for those of a symbol that has been sold since.
Snapshot(c) ==
  /\ op[c].pc \in {"portfolio", "orders", "restore", "orphans", "arm", "armed"}
  /\ op[c].pc # "portfolio" =>
       \A s \in Symbols : recon[c].held[s] \in {0, Lot} /\ (held[s] > 0 => recon[c].held[s] = Lot)
  /\ \A o \in recon[c].open :
       orders[o].kind = "stop" /\ (Live(o) \/ held[orders[o].sym] = 0)
  /\ op[c].pc \in {"portfolio", "orders"} =>
       recon[c].todo = {s \in Symbols : recon[c].rows[s] # NoRow}
  /\ op[c].pc = "orphans" => recon[c].todo = {}
  /\ op[c].pc = "armed" =>
       op[c].order \notin recon[c].open /\ (Live(op[c].order) \/ held[SymOf(c)] = 0)

\* A row that it has handled, of a symbol still held, is watched and guarded,
\* or is being armed.
Restored(c, s) ==
  recon[c].rows[s] # NoRow /\ s \notin recon[c].todo /\ held[s] > 0 =>
    /\ tracked[s] # NoPos
    /\ Guarded(c, s) \/ (op[c].pc \in {"arm", "armed"} /\ SymOf(c) = s)

Recovering(c) ==
  recon[c] # NoRecon => Snapshot(c) /\ \A s \in Symbols : Restored(c, s)

RestartInv(c) == WholeLots /\ NamesItsStop(c) /\ Recovering(c)

-----------------------------------------------------------------------------
(* Slots that are named are not free.                                       *)

LEMMA NamesAreReferenced ==
  ASSUME TypeInv, NEW c \in Callers
  PROVE  /\ \A s \in Symbols : tracked[s] # NoPos => objs[tracked[s]].stop \in Referenced
         /\ \A s \in Symbols : journal[s] # NoRow => journal[s].stop \in Referenced
         /\ op[c].pos # NoPos => op[c].pos \in PosIds /\ objs[op[c].pos].stop \in Referenced
         /\ op[c].order \in Referenced
         /\ recon[c] # NoRecon =>
              /\ recon[c].open \subseteq Referenced
              /\ \A s \in Symbols : recon[c].rows[s] # NoRow => recon[c].rows[s].stop \in Referenced
<1>1. ASSUME NEW s \in Symbols, tracked[s] # NoPos
      PROVE  objs[tracked[s]].stop \in Referenced
  <2>1. tracked[s] \in PosIds \cap LivePos
    BY <1>1, Typed DEF LivePos
  <2> QED
    BY <2>1 DEF Referenced
<1>2. ASSUME NEW s \in Symbols, journal[s] # NoRow
      PROVE  journal[s].stop \in Referenced
  BY <1>2 DEF Referenced
<1>3. ASSUME op[c].pos # NoPos
      PROVE  op[c].pos \in PosIds /\ objs[op[c].pos].stop \in Referenced
  <2>1. op[c].pos \in PosIds \cap LivePos
    BY <1>3, Typed DEF LivePos, Op
  <2> QED
    BY <2>1 DEF Referenced
<1>4. op[c].order \in Referenced
  BY DEF Referenced
<1>5. ASSUME recon[c] # NoRecon
      PROVE  /\ recon[c].open \subseteq Referenced
             /\ \A s \in Symbols : recon[c].rows[s] # NoRow => recon[c].rows[s].stop \in Referenced
  <2> DEFINE names(d) == recon[d].open \cup {recon[d].rows[s].stop :
                                              s \in {t \in Symbols : recon[d].rows[t] # NoRow}}
  <2>1. names(c) \subseteq UNION {names(d) : d \in {e \in Callers : recon[e] # NoRecon}}
    BY <1>5
  <2>2. names(c) \subseteq Referenced
    BY <2>1 DEF Referenced
  <2> QED
    BY <2>2
<1> QED
  BY <1>1, <1>2, <1>3, <1>4, <1>5

\* Orders change, and only orders: those that are named keep their symbol and
\* their kind.
LEMMA NamesKept ==
  ASSUME TypeInv, NEW c \in Callers, NamesItsStop(c),
         UNCHANGED <<objs, tracked, journal>>,
         op'[c].pos = op[c].pos,
         op'[c].pc = "armed" => StopOf(op[c].order, SymOf(c))' \/ op'[c] = op[c],
         recon'[c] # NoRecon => recon[c] # NoRecon /\ recon'[c].rows = recon[c].rows,
         \A o \in Referenced \ {NoOrder} :
           orders'[o].sym = orders[o].sym /\ orders'[o].kind = orders[o].kind
  PROVE  NamesItsStop(c)'
<1>1. \A o \in Referenced, s \in Symbols :
         StopOf(o, s) /\ o # NoOrder => orders'[o].sym = s /\ orders'[o].kind = "stop"
  BY DEF StopOf
<1>2. op[c].pos # NoPos => SymOf(c) \in Symbols /\ SymOf(c)' = SymOf(c)
  BY NamesAreReferenced, Typed DEF SymOf
<1>3. op[c].pc = "armed" => op[c].pos # NoPos
  BY NullAssumption, Typed
<1>4. \A s \in Symbols : tracked[s] # NoPos => StopOf(objs[tracked[s]].stop, s)'
  BY <1>1, NamesAreReferenced DEF NamesItsStop, StopOf
<1>5. \A s \in Symbols : journal[s] # NoRow => StopOf(journal[s].stop, s)'
  BY <1>1, NamesAreReferenced DEF NamesItsStop, StopOf
<1>6. op'[c].pos # NoPos => StopOf(objs[op[c].pos].stop, SymOf(c))'
  BY <1>1, <1>2, NamesAreReferenced DEF NamesItsStop, StopOf
<1>7. op'[c].pc = "armed" => StopOf(op[c].order, SymOf(c))'
  BY <1>1, <1>2, <1>3, NamesAreReferenced DEF NamesItsStop, StopOf
<1>8. recon'[c] # NoRecon =>
         \A s \in Symbols : recon'[c].rows[s] # NoRow => StopOf(recon[c].rows[s].stop, s)'
  BY <1>1, NamesAreReferenced DEF NamesItsStop, StopOf
<1> QED
  BY <1>4, <1>5, <1>6, <1>7, <1>8 DEF NamesItsStop

\* What is named stays so when nothing it is about changes.
LEMMA NamesStay ==
  ASSUME NEW c, NamesItsStop(c), UNCHANGED <<orders, objs>>,
         \A s \in Symbols : tracked'[s] \in {tracked[s], NoPos},
         \A s \in Symbols : journal'[s] \in {journal[s], NoRow},
         op'[c].pos \in {op[c].pos, NoPos}, op'[c].pc # "armed" \/ op'[c] = op[c],
         recon'[c] # NoRecon =>
           \A s \in Symbols : recon'[c].rows[s] # NoRow => StopOf(recon'[c].rows[s].stop, s)
  PROVE  NamesItsStop(c)'
<1>1. ASSUME NEW s \in Symbols, tracked'[s] # NoPos PROVE StopOf(objs[tracked[s]].stop, s)'
  BY <1>1 DEF NamesItsStop, StopOf
<1>2. ASSUME NEW s \in Symbols, journal'[s] # NoRow PROVE StopOf(journal[s].stop, s)'
  BY <1>2 DEF NamesItsStop, StopOf
<1>3. op'[c].pos # NoPos => StopOf(objs[op[c].pos].stop, SymOf(c))'
  BY DEF NamesItsStop, StopOf, SymOf
<1>4. op'[c].pc = "armed" => StopOf(op[c].order, SymOf(c))'
  BY DEF NamesItsStop, StopOf, SymOf
<1>5. recon'[c] # NoRecon =>
        \A s \in Symbols : recon'[c].rows[s] # NoRow => StopOf(recon[c].rows[s].stop, s)'
  BY DEF StopOf
<1> QED
  BY <1>1, <1>2, <1>3, <1>4, <1>5 DEF NamesItsStop

\* A step that changes nothing the invariant is about.
LEMMA RestartFrame ==
  ASSUME NEW c, RestartInv(c), UNCHANGED <<orders, held, objs, tracked, journal, op, recon>>
  PROVE  RestartInv(c)'
<1>1. WholeLots'
  BY DEF RestartInv, WholeLots, Live
<1>2. NamesItsStop(c)'
  BY NamesStay DEF RestartInv, NamesItsStop
<1>3. ASSUME Snapshot(c) PROVE Snapshot(c)'
  BY <1>3 DEF Snapshot, SymOf, Live
<1>4. ASSUME NEW s \in Symbols PROVE Guarded(c, s)' <=> Guarded(c, s)
  BY DEF Guarded, LiveStops, LiveOf, Live
<1>5. ASSUME NEW s \in Symbols, Restored(c, s) PROVE Restored(c, s)'
  BY <1>4, <1>5 DEF Restored, SymOf
<1> QED
  BY <1>1, <1>2, <1>3, <1>5 DEF RestartInv, Recovering

\* Orders die, none comes to life, and reconcile() does not run.
LEMMA OrdersStep ==
  ASSUME TypeInv, NEW c \in Callers, RestartInv(c), recon'[c] = NoRecon,
         UNCHANGED <<objs, tracked, journal>>,
         op'[c].pos = op[c].pos,
         op'[c].pc = "armed" => op'[c] = op[c],
         \A s \in Symbols : held'[s] \in {0, Lot},
         \A o \in Referenced \ {NoOrder} :
           orders'[o].sym = orders[o].sym /\ orders'[o].kind = orders[o].kind,
         \A o \in OrderIds : Live(o)' => orders'[o] = orders[o]
  PROVE  RestartInv(c)'
<1>1. NamesItsStop(c)'
  BY NamesKept DEF RestartInv
<1>2. WholeLots'
  BY DEF RestartInv, WholeLots, Live
<1> QED
  BY <1>1, <1>2 DEF RestartInv, Recovering

\* A position is marked, unmarked or given its stop, and its row written.
LEMMA RowWritten ==
  ASSUME TypeInv, NEW c \in Callers, LoopInv(c), RestartInv(c),
         NEW p \in PosIds, NEW obj \in Object,
         obj.sym = objs[p].sym, obj.qty = objs[p].qty, StopOf(obj.stop, obj.sym),
         objs' = [objs EXCEPT ![p] = obj],
         journal' = [journal EXCEPT ![obj.sym] = RowOf(obj)],
         UNCHANGED <<orders, held, tracked>>,
         op'[c].pos \in {p, NoPos}, op'[c].pc # "armed", recon'[c] = recon[c]
  PROVE  WholeLots' /\ NamesItsStop(c)'
<1>1. objs'[p] = obj /\ \A q \in PosIds : q # p => objs'[q] = objs[q]
  BY Typed
<1>2. obj.sym \in Symbols /\ RowOf(obj).stop = obj.stop
  BY DEF Object, RowOf
<1>3. \A s \in Symbols : journal'[s] = IF s = obj.sym THEN RowOf(obj) ELSE journal[s]
  BY Typed
<1>4. \A s \in Symbols : tracked[s] # NoPos => tracked[s] \in PosIds /\ objs[tracked[s]].sym = s
  BY Typed DEF LoopInv, RowsKept
<1>5. WholeLots'
  BY <1>1, <1>4 DEF RestartInv, WholeLots, Live
<1>6. \A s \in Symbols : tracked[s] # NoPos => StopOf(objs'[tracked[s]].stop, s)
  BY <1>1, <1>4 DEF RestartInv, NamesItsStop
<1>7. \A s \in Symbols : journal'[s] # NoRow => StopOf(journal'[s].stop, s)
  BY <1>2, <1>3 DEF RestartInv, NamesItsStop
<1>8. op'[c].pos # NoPos => StopOf(obj.stop, SymOf(c)')
  BY <1>1 DEF SymOf
<1>9. recon[c] # NoRecon =>
         \A s \in Symbols : recon[c].rows[s] # NoRow => StopOf(recon[c].rows[s].stop, s)
  BY DEF RestartInv, NamesItsStop
<1>10. \A s \in Symbols : tracked'[s] # NoPos => StopOf(objs[tracked[s]].stop, s)'
  BY <1>6 DEF StopOf
<1>11. \A s \in Symbols : journal'[s] # NoRow => StopOf(journal[s].stop, s)'
  BY <1>7 DEF StopOf
<1>12. op'[c].pos # NoPos => StopOf(objs[op[c].pos].stop, SymOf(c))'
  BY <1>1, <1>8 DEF StopOf
<1>13. recon'[c] # NoRecon =>
         \A s \in Symbols : recon'[c].rows[s] # NoRow => StopOf(recon[c].rows[s].stop, s)'
  BY <1>9 DEF StopOf
<1> QED
  BY <1>5, <1>10, <1>11, <1>12, <1>13 DEF NamesItsStop

\* A new object is tracked, with one lot and a stop of its symbol, or none.
LEMMA LotTracked ==
  ASSUME TypeInv, NEW c \in Callers, RestartInv(c), op[c].pos = NoPos, op[c].pc # "armed",
         NEW s \in Symbols, NEW p \in FreePos, NEW obj \in Object,
         obj.sym = s, obj.qty = Lot, StopOf(obj.stop, s),
         objs' = [objs EXCEPT ![p] = obj], tracked' = [tracked EXCEPT ![s] = p],
         journal' = journal \/ journal' = [journal EXCEPT ![s] = RowOf(obj)],
         op'[c] = op[c] \/ op'[c] = Holding("arm", p),
         UNCHANGED <<orders, held>>,
         recon'[c] # NoRecon => recon[c] # NoRecon /\ recon'[c].rows = recon[c].rows
  PROVE  WholeLots' /\ NamesItsStop(c)'
<1>1. p \in PosIds /\ p # NoPos /\ \A t \in Symbols : tracked[t] # p
  BY NullAssumption DEF FreePos, LivePos
<1>2. /\ objs'[p] = obj /\ tracked'[s] = p
      /\ \A t \in Symbols : t # s => tracked'[t] = tracked[t]
      /\ \A q \in PosIds : q # p => objs'[q] = objs[q]
  BY <1>1, Typed
<1>3. \A t \in Symbols : t # s /\ tracked'[t] # NoPos =>
         tracked'[t] = tracked[t] /\ objs'[tracked[t]] = objs[tracked[t]]
  BY <1>1, <1>2, Typed
<1>4. WholeLots'
  BY <1>2, <1>3 DEF RestartInv, WholeLots, Live
<1>5. \A t \in Symbols : tracked'[t] # NoPos => StopOf(objs'[tracked'[t]].stop, t)
  BY <1>2, <1>3 DEF RestartInv, NamesItsStop
<1>6. \A t \in Symbols : journal'[t] = journal[t] \/ (t = s /\ journal'[t].stop = obj.stop)
  BY Typed DEF RowOf
<1>7. \A t \in Symbols : journal'[t] # NoRow => StopOf(journal'[t].stop, t)
  BY <1>6 DEF RestartInv, NamesItsStop
<1>8. /\ op'[c].pc # "armed"
      /\ op'[c].pos # NoPos => op'[c].pos = p
  OBVIOUS
<1>9. op'[c].pos # NoPos => StopOf(objs'[op'[c].pos].stop, SymOf(c)')
  BY <1>2, <1>8 DEF SymOf
<1>10. recon'[c] # NoRecon =>
         \A t \in Symbols : recon'[c].rows[t] # NoRow => StopOf(recon'[c].rows[t].stop, t)
  BY DEF RestartInv, NamesItsStop
<1> QED
  BY <1>4, <1>5, <1>7, <1>8, <1>9, <1>10 DEF NamesItsStop, StopOf

-----------------------------------------------------------------------------
(* _close() and execute(): reconcile() does not run.                        *)

LEMMA NotRestarting ==
  ASSUME NEW c, RestartInv(c),
         op[c].pc \notin {"portfolio", "orders", "restore", "orphans", "arm", "armed"}
  PROVE  recon[c] = NoRecon
BY DEF RestartInv, Recovering, Snapshot

LEMMA BeginCloseRestart ==
  ASSUME TypeInv, NEW c \in Callers, LoopInv(c), RestartInv(c), NEW s \in Symbols,
         BeginClose(c, s)
  PROVE  RestartInv(c)'
<1> DEFINE p == tracked[s]
           marked == [objs[p] EXCEPT !.closing = TRUE]
<1>1. /\ op[c].pc = "idle" /\ p # NoPos /\ recon' = recon /\ recon[c] = NoRecon
      /\ UNCHANGED <<orders, held, tracked>>
  BY NotRestarting DEF BeginClose, EnterClose
<1>2. lock[s] = NoCaller
  BY <1>1 DEF LoopInv, Place, Closing
<1>3. EnterClose(c, p)
  BY <1>2 DEF BeginClose
<1>4. p \in PosIds /\ objs[p] \in Object /\ objs[p].sym = s
  BY <1>1, Typed DEF LoopInv, RowsKept
<1>5. marked \in Object /\ marked.sym = s /\ marked.qty = objs[p].qty /\ marked.stop = objs[p].stop
  BY <1>4 DEF Object
<1>6. /\ objs' = [objs EXCEPT ![p] = marked]
      /\ journal' = [journal EXCEPT ![marked.sym] = RowOf(marked)]
  BY <1>3 DEF EnterClose
<1>7. op'[c].pos = p /\ op'[c].pc # "armed"
  <2>1. op'[c] = [pc |-> IF objs[p].stop = NoOrder THEN "close" ELSE "cancel",
                  pos |-> p, order |-> objs[p].stop]
    BY <1>3, <1>4, EnterCloseType
  <2> QED
    BY <2>1
<1>8. StopOf(objs[p].stop, s)
  BY <1>1 DEF RestartInv, NamesItsStop
<1> HIDE DEF p, marked
<1>9. WholeLots' /\ NamesItsStop(c)'
  BY <1>1, <1>4, <1>5, <1>6, <1>7, <1>8, RowWritten
<1> QED
  BY <1>1, <1>9 DEF RestartInv, Recovering

LEMMA BackOffRestart ==
  ASSUME TypeInv, NEW c \in Callers, LoopInv(c), RestartInv(c), op[c].pc \in InClose \cup {"exit"},
         BackOff(c), UNCHANGED <<orders, held>>
  PROVE  RestartInv(c)'
<1> DEFINE p == op[c].pos
           unmarked == [objs[p] EXCEPT !.closing = FALSE]
<1>1. recon[c] = NoRecon
  BY NotRestarting DEF InClose
<1>2. p \in PosIds /\ p # NoPos /\ objs[p] \in Object
  BY Typed, NullAssumption DEF InClose
<1>3. /\ unmarked \in Object /\ unmarked.sym = objs[p].sym /\ unmarked.qty = objs[p].qty
      /\ unmarked.stop = objs[p].stop
  BY <1>2 DEF Object
<1>4. /\ objs' = [objs EXCEPT ![p] = unmarked]
      /\ journal' = [journal EXCEPT ![unmarked.sym] = RowOf(unmarked)]
      /\ tracked' = tracked /\ recon' = recon
      /\ op'[c].pos = NoPos /\ op'[c].pc = "idle"
  BY <1>2, BackOffType DEF BackOff, Idle, At
<1>5. StopOf(objs[p].stop, objs[p].sym)
  BY <1>2 DEF RestartInv, NamesItsStop, SymOf
<1> HIDE DEF p, unmarked
<1>6. WholeLots' /\ NamesItsStop(c)'
  BY <1>2, <1>3, <1>4, <1>5, RowWritten
<1> QED
  BY <1>1, <1>4, <1>6 DEF RestartInv, Recovering

\* The task writes an order in a slot that nothing names, sold or bought at
\* once.
LEMMA FilledNow ==
  ASSUME TypeInv, NEW c \in Callers, RestartInv(c), recon[c] = NoRecon,
         NEW o \in FreeOrders, NEW s \in Symbols, NEW n \in Nat,
         \/ FillSellNow(o, s, n) /\ n >= held[s]
         \/ FillEntryNow(o, s) /\ held[s] = 0,
         UNCHANGED <<objs, tracked, journal, recon>>,
         op'[c].pos = op[c].pos, op'[c].pc # "armed"
  PROVE  RestartInv(c)'
<1>1. o \in OrderIds /\ o \notin Referenced
  BY DEF FreeOrders
<1>2. \A q \in OrderIds : q # o => orders'[q] = orders[q]
  BY Typed DEF FillSellNow, FillEntryNow
<1>3. orders'[o].status = "filled"
  BY <1>1, Typed DEF FillSellNow, FillEntryNow
<1>4. \A u \in Symbols : u # s => held'[u] = held[u]
  BY Typed DEF FillSellNow, FillEntryNow
<1>5. held'[s] \in {0, Lot}
  BY LotAssumption, Typed DEF FillSellNow, FillEntryNow
<1>6. Referenced \subseteq OrderIds \cup {NoOrder}
  BY DEF Referenced, TypeInv, TypeOK, ManagerTypeOK, Object, Op, Row, Recon
<1>7. \A q \in OrderIds : Live(q)' => orders'[q] = orders[q]
  BY <1>2, <1>3 DEF Live, LiveStatus
<1>8. \A q \in Referenced \ {NoOrder} :
        orders'[q].sym = orders[q].sym /\ orders'[q].kind = orders[q].kind
  BY <1>1, <1>2, <1>6
<1>9. \A u \in Symbols : held'[u] \in {0, Lot}
  BY <1>4, <1>5 DEF RestartInv, WholeLots
<1> QED
  BY <1>7, <1>8, <1>9, OrdersStep

LEMMA CloseStepRestart ==
  ASSUME TypeInv, NEW c \in Callers, LoopInv(c), RestartInv(c), Recoverable, CloseStep(c)
  PROVE  RestartInv(c)'
<1>1. ASSUME NEW s \in Symbols, OnPrice(c, s)
      PROVE  RestartInv(c)'
  BY <1>1, BeginCloseRestart DEF OnPrice
<1>2. CASE Acquire(c)
  BY <1>2 DEF Acquire, LoopInv, Place
<1>3. CASE Unconfirmed(c) \/ CloseRefused(c) \/ CloseReplyLost(c) \/ ExitRaised(c)
  BY <1>3, BackOffRestart DEF Unconfirmed, CloseRefused, CloseReplyLost, ExitRaised, InClose
<1>4. CASE Cancel(c)
  <2> DEFINE o == op[c].order
  <2>1. /\ op[c].pc = "cancel" /\ o \in OrderIds /\ recon' = recon
        /\ UNCHANGED <<held, objs, tracked, journal>>
    BY <1>4, Typed DEF Cancel
  <2>2. recon[c] = NoRecon
    BY <2>1, NotRestarting
  <2>3. op'[c].pos = op[c].pos /\ op'[c].pc = "confirm"
    BY <1>4, Typed DEF Cancel, Op
  <2>4. orders' = [orders EXCEPT ![o].status = "canceled"] \/ orders' = orders
    BY <1>4 DEF Cancel, CancelTakes, CancelPends, CancelFails, Recoverable
  <2> HIDE DEF o
  <2>5. \A q \in OrderIds :
          /\ orders'[q].sym = orders[q].sym /\ orders'[q].kind = orders[q].kind
          /\ Live(q)' => orders'[q] = orders[q]
    BY <2>1, <2>4, Typed DEF Order, Live, LiveStatus
  <2>6. Referenced \subseteq OrderIds \cup {NoOrder}
    BY DEF Referenced, TypeInv, TypeOK, ManagerTypeOK, Object, Op, Row, Recon
  <2> QED
    BY <2>1, <2>2, <2>3, <2>5, <2>6, OrdersStep DEF RestartInv, WholeLots
<1>5. CASE Confirmed(c)
  <2>1. /\ op[c].pc = "confirm" /\ UNCHANGED <<orders, held, objs, tracked, journal, recon>>
        /\ op'[c].pos = op[c].pos /\ op'[c].pc = "close"
    BY <1>5, Typed DEF Confirmed
  <2>2. recon[c] = NoRecon
    BY <2>1, NotRestarting
  <2> QED
    BY <2>1, <2>2, OrdersStep DEF RestartInv, WholeLots
<1>6. CASE SubmitClose(c)
  <2> DEFINE s == SymOf(c)
             n == objs[op[c].pos].qty
  <2>1. op[c].pc = "close" /\ s \in Symbols /\ UNCHANGED <<objs, tracked, journal, recon>>
    BY <1>6, Typed DEF SubmitClose
  <2> HIDE DEF s, n
  <2>2. PICK o \in FreeOrders : /\ FillSellNow(o, s, n)
                                /\ op' = [op EXCEPT ![c].pc = "closed", ![c].order = o]
    <3>1. "async_fill" \notin Env
      BY DEF Recoverable
    <3> QED
      BY <1>6, <3>1, Zenon DEF SubmitClose, s, n
  <2>3. op'[c].pos = op[c].pos /\ op'[c].pc = "closed"
    <3>1. o \in OrderIds /\ "closed" \in PC /\ op \in [Callers -> Op]
      BY Typed DEF FreeOrders, PC
    <3> QED
      BY <2>2, <3>1, SentType
  <2>4. tracked[s] = op[c].pos /\ op[c].pos # NoPos
    BY <2>1, Typed, NullAssumption DEF LoopInv, Place, InClose, s
  <2>5. n = Lot
    BY <2>1, <2>4 DEF RestartInv, WholeLots, n
  <2>6. n \in Nat /\ n >= held[s]
    BY <2>1, <2>5, LotAssumption DEF RestartInv, WholeLots
  <2>7. recon[c] = NoRecon
    BY <2>1, NotRestarting
  <2> QED
    BY <2>1, <2>2, <2>3, <2>6, <2>7, FilledNow
<1>7. CASE CloseReplied(c)
  <2> DEFINE s == SymOf(c)
  <2>1. /\ op[c].pc = "closed" /\ s \in Symbols /\ UNCHANGED <<orders, held, objs, recon>>
        /\ op'[c].pc = "exit" /\ op'[c].pos = op[c].pos
    BY <1>7, Typed DEF CloseReplied
  <2>2. /\ tracked' = [tracked EXCEPT ![s] = NoPos]
        /\ journal' = [journal EXCEPT ![s] = NoRow]
    BY <1>7 DEF CloseReplied
  <2>3. recon[c] = NoRecon
    BY <2>1, NotRestarting
  <2>4. \A u \in Symbols : /\ tracked'[u] # NoPos => tracked'[u] = tracked[u]
                           /\ journal'[u] # NoRow => journal'[u] = journal[u]
    BY <2>2, Typed
  <2>5. WholeLots'
    BY <2>1, <2>4 DEF RestartInv, WholeLots, Live
  <2>6. op[c].pos # NoPos => StopOf(objs'[op[c].pos].stop, SymOf(c)')
    BY <2>1 DEF RestartInv, NamesItsStop, SymOf
  <2>7. NamesItsStop(c)'
    BY <2>1, <2>3, <2>4, <2>6 DEF RestartInv, NamesItsStop, StopOf
  <2> QED
    BY <2>1, <2>3, <2>5, <2>7 DEF RestartInv, Recovering
<1>8. CASE ExitReported(c)
  <2>1. /\ op[c].pc = "exit" /\ UNCHANGED <<orders, held, objs, tracked, journal, recon>>
        /\ op'[c].pos = NoPos /\ op'[c].pc = "idle"
    BY <1>8, Typed DEF ExitReported, Idle, At
  <2>2. recon[c] = NoRecon
    BY <2>1, NotRestarting
  <2> QED
    BY <2>1, <2>2 DEF RestartInv, WholeLots, NamesItsStop, StopOf, Recovering, Live
<1> QED
  BY <1>1, <1>2, <1>3, <1>4, <1>5, <1>6, <1>7, <1>8 DEF CloseStep

LEMMA ExecuteStepRestart ==
  ASSUME TypeInv, NEW c \in Callers, LoopInv(c), RestartInv(c), Recoverable, ExecuteStep(c)
  PROVE  RestartInv(c)'
<1>1. ASSUME NEW s \in Symbols, SubmitEntry(c, s)
      PROVE  RestartInv(c)'
  <2>1. /\ op[c].pc = "idle" /\ held[s] = 0 /\ UNCHANGED <<objs, tracked, journal, recon>>
    BY <1>1 DEF SubmitEntry, MayBuy, Recoverable
  <2>2. PICK o \in FreeOrders :
          /\ FillEntryNow(o, s)
          /\ op' = [op EXCEPT ![c] = [pc |-> "entry", pos |-> NoPos, order |-> o]]
    BY <1>1 DEF SubmitEntry, Recoverable
  <2>3. op'[c].pc = "entry" /\ op'[c].pos = op[c].pos
    BY <2>1, <2>2, Typed DEF LoopInv, Place, Outside
  <2>4. recon[c] = NoRecon
    BY <2>1, NotRestarting
  <2> QED
    BY <2>1, <2>2, <2>3, <2>4, FilledNow
<1>2. ASSUME NEW s \in Symbols, SellUntracked(c, s)
      PROVE  RestartInv(c)'
  <2>1. op[c].pc = "idle" /\ UNCHANGED <<objs, tracked, journal, op, recon>>
    BY <1>2 DEF SellUntracked
  <2>2. PICK o \in FreeOrders : FillSellNow(o, s, held[s])
    BY <1>2 DEF SellUntracked, Recoverable
  <2>3. recon[c] = NoRecon
    BY <2>1, NotRestarting
  <2>4. held[s] \in Nat
    BY Typed
  <2> QED
    BY <2>1, <2>2, <2>3, <2>4, FilledNow
<1>3. ASSUME NEW s \in Symbols, SellTracked(c, s)
      PROVE  RestartInv(c)'
  BY <1>3, BeginCloseRestart DEF SellTracked
<1>4. CASE EntryReplied(c)
  <2> DEFINE s == orders[op[c].order].sym
             obj == [sym |-> s, qty |-> Lot, stop |-> NoOrder, closing |-> FALSE]
  <2>1. /\ op[c].pc = "entry" /\ s \in Symbols
        /\ UNCHANGED <<orders, held, journal, recon>>
    BY <1>4, Typed DEF EntryReplied
  <2>2. recon[c] = NoRecon /\ op[c].pos = NoPos
    BY <2>1, NotRestarting DEF LoopInv, Place, Outside
  <2>3. CASE Protect(c, s, Lot)
    <3>1. PICK p \in FreePos : /\ objs' = [objs EXCEPT ![p] = obj]
                               /\ tracked' = [tracked EXCEPT ![s] = p]
                               /\ op' = [op EXCEPT ![c] = Holding("arm", p)]
      BY <2>3 DEF Protect
    <3>2. obj \in Object /\ obj.sym = s /\ obj.qty = Lot /\ StopOf(obj.stop, s)
      BY <2>1, LotAssumption, MaxHeldAssumption DEF Object, StopOf
    <3>3. op'[c] = Holding("arm", p)
      BY <3>1, Typed
    <3> HIDE DEF obj, s
    <3>4. WholeLots' /\ NamesItsStop(c)'
      BY <2>1, <2>2, <3>1, <3>2, <3>3, LotTracked
    <3> QED
      BY <2>1, <2>2, <3>4 DEF RestartInv, Recovering
  <2>4. CASE op' = [op EXCEPT ![c] = Idle] /\ UNCHANGED <<objs, tracked>>
    <3>1. op'[c].pos = NoPos /\ op'[c].pc = "idle"
      BY <2>4, Typed DEF Idle, At
    <3> QED
      BY <2>1, <2>2, <2>4, <3>1, OrdersStep DEF RestartInv, WholeLots
  <2> QED
    BY <1>4, <2>3, <2>4 DEF EntryReplied
<1>5. CASE EntryReplyLost(c)
  <2>1. /\ op[c].pc = "entry" /\ UNCHANGED <<orders, held, objs, tracked, journal, recon>>
        /\ op'[c].pos = NoPos /\ op'[c].pc = "idle"
    BY <1>5, Typed DEF EntryReplyLost, Idle, At
  <2>2. recon[c] = NoRecon /\ op[c].pos = NoPos
    BY <2>1, NotRestarting DEF LoopInv, Place, Outside
  <2> QED
    BY <2>1, <2>2, OrdersStep DEF RestartInv, WholeLots
<1> QED
  BY <1>1, <1>2, <1>3, <1>4, <1>5 DEF ExecuteStep

-----------------------------------------------------------------------------
(* Arming a stop, inside protect() or inside reconcile().                   *)

LEMMA SubmitStopRestart ==
  ASSUME TypeInv, NEW c \in Callers, LoopInv(c), RestartInv(c), SubmitStop(c)
  PROVE  RestartInv(c)'
<1> DEFINE p == op[c].pos
           s == SymOf(c)
           n == objs[p].qty
<1>1. /\ op[c].pc = "arm" /\ p \in PosIds /\ p # NoPos /\ s \in Symbols
      /\ UNCHANGED <<held, objs, tracked, journal, recon>>
  <2>1. op[c].pc = "arm" /\ UNCHANGED <<objs, tracked, journal, recon>>
    BY DEF SubmitStop
  <2>2. held' = held
    BY DEF SubmitStop, Accept
  <2> QED
    BY <2>1, <2>2, Typed, NullAssumption
<1>2. tracked[s] = p
  BY <1>1 DEF LoopInv, Place
<1>3. n = Lot
  BY <1>1, <1>2 DEF RestartInv, WholeLots
<1> HIDE DEF n, s
<1>4. PICK o \in FreeOrders : /\ Accept(o, s, "stop", n)
                              /\ op' = [op EXCEPT ![c].pc = "armed", ![c].order = o]
  BY DEF SubmitStop, n, s
<1>5. o \in OrderIds /\ o \notin Referenced /\ ~Live(o)
  BY <1>4 DEF FreeOrders
<1>6. op'[c].pc = "armed" /\ op'[c].order = o /\ op'[c].pos = p
  <2>1. op \in [Callers -> Op] /\ op[c] \in Op
    BY Typed
  <2>2. op' = [op EXCEPT ![c] = [op[c] EXCEPT !.pc = "armed", !.order = o]]
    BY <1>4, <2>1
  <2>3. op'[c] = [op[c] EXCEPT !.pc = "armed", !.order = o]
    BY <2>1, <2>2
  <2> QED
    BY <2>1, <2>3 DEF Op
<1>7. /\ orders'[o].sym = s /\ orders'[o].kind = "stop" /\ orders'[o].qty = Lot
      /\ orders'[o].status = "accepted" /\ Live(o)'
      /\ \A q \in OrderIds : q # o => orders'[q] = orders[q]
  BY <1>3, <1>4, <1>5, Typed DEF Accept, Live, LiveStatus
<1>8. SymOf(c)' = s
  BY <1>1, <1>6 DEF SymOf, s
<1>9. \A q \in OrderIds \ {o} : Live(q)' = Live(q)
  BY <1>7 DEF Live
<1>10. WholeLots'
  BY <1>1, <1>7, <1>9 DEF RestartInv, WholeLots
<1>11. NamesItsStop(c)'
  <2>1. Referenced \subseteq OrderIds \cup {NoOrder}
    BY DEF Referenced, TypeInv, TypeOK, ManagerTypeOK, Object, Op, Row, Recon
  <2>2. \A q \in Referenced \ {NoOrder} :
          orders'[q].sym = orders[q].sym /\ orders'[q].kind = orders[q].kind
    BY <1>5, <1>7, <2>1
  <2>3. ASSUME NEW q \in Referenced, NEW u \in Symbols, StopOf(q, u)
        PROVE  q # NoOrder => orders'[q].sym = u /\ orders'[q].kind = "stop"
    BY <2>2, <2>3 DEF StopOf
  <2>4. \A u \in Symbols : tracked[u] # NoPos => StopOf(objs[tracked[u]].stop, u)'
    BY <1>1, <2>3, NamesAreReferenced DEF RestartInv, NamesItsStop, StopOf
  <2>5. \A u \in Symbols : journal[u] # NoRow => StopOf(journal[u].stop, u)'
    BY <1>1, <2>3, NamesAreReferenced DEF RestartInv, NamesItsStop, StopOf
  <2>6. objs[p].stop # NoOrder =>
          orders'[objs[p].stop].sym = s /\ orders'[objs[p].stop].kind = "stop"
    <3>1. objs[p].stop \in Referenced /\ StopOf(objs[p].stop, s)
      BY <1>1, NamesAreReferenced DEF RestartInv, NamesItsStop, s
    <3> QED
      BY <1>1, <2>3, <3>1
  <2>7. recon[c] # NoRecon =>
          \A u \in Symbols : recon[c].rows[u] # NoRow => StopOf(recon[c].rows[u].stop, u)'
    BY <1>1, <2>3, NamesAreReferenced DEF RestartInv, NamesItsStop, StopOf
  <2>8. orders'[o].sym = s /\ orders'[o].kind = "stop"
    BY <1>7
  <2> QED
    BY <1>1, <1>6, <1>8, <2>4, <2>5, <2>6, <2>7, <2>8 DEF NamesItsStop, StopOf
<1>12. ASSUME recon[c] # NoRecon
       PROVE  Snapshot(c)' /\ \A u \in Symbols : Restored(c, u)'
  <2>1. Snapshot(c) /\ \A u \in Symbols : Restored(c, u)
    BY <1>12 DEF RestartInv, Recovering
  <2>2. recon[c].open \subseteq Referenced /\ recon[c].open \subseteq OrderIds
    BY <1>12, NamesAreReferenced, Typed DEF Recon
  <2>3. \A q \in recon[c].open : orders'[q] = orders[q] /\ Live(q)' = Live(q)
    BY <1>5, <1>7, <1>9, <2>2
  <2>4. Snapshot(c)'
    BY <1>1, <1>5, <1>6, <1>7, <2>1, <2>2, <2>3 DEF Snapshot
  <2>5. ASSUME NEW u \in Symbols, u # s, Guarded(c, u)
        PROVE  Guarded(c, u)'
    <3>1. PICK q \in LiveStops(u) :
            \/ q \notin recon[c].open
            \/ tracked[u] # NoPos /\ q = objs[tracked[u]].stop
      BY <2>5 DEF Guarded
    <3>2. q \in OrderIds /\ q # o /\ Live(q)' /\ orders'[q] = orders[q]
      BY <1>5, <1>7, <1>9, <3>1 DEF LiveStops, LiveOf
    <3>3. q \in LiveStops(u)'
      BY <3>1, <3>2 DEF LiveStops, LiveOf
    <3> QED
      BY <1>1, <1>6, <3>1, <3>3 DEF Guarded
  <2> QED
    BY <1>1, <1>2, <1>6, <1>8, <2>1, <2>4, <2>5 DEF Restored, s
<1> QED
  BY <1>1, <1>10, <1>11, <1>12 DEF RestartInv, Recovering

\* The reply, or none: the stop that was sent stands, whether or not the
\* position knows it.
LEMMA StopAnsweredRestart ==
  ASSUME TypeInv, NEW c \in Callers, LoopInv(c), RestartInv(c), op[c].pc = "armed",
         NEW obj \in Object, obj.sym = SymOf(c), obj.qty = objs[op[c].pos].qty,
         obj.stop \in {objs[op[c].pos].stop, op[c].order}, AfterArm(c, obj)
  PROVE  RestartInv(c)'
<1> DEFINE p == op[c].pos
           s == SymOf(c)
<1>1. /\ p \in PosIds /\ p # NoPos /\ s \in Symbols /\ objs[p].sym = s /\ op[c].order \in OrderIds
      /\ UNCHANGED <<orders, held, tracked, recon>>
  BY Typed, NullAssumption DEF AfterArm, SymOf
<1>2. tracked[s] = p
  BY DEF LoopInv, Place
<1>3. /\ objs' = [objs EXCEPT ![p] = obj]
      /\ journal' = [journal EXCEPT ![obj.sym] = RowOf(obj)]
      /\ op'[c].pos = NoPos
      /\ op'[c].pc = IF recon[c] = NoRecon THEN "idle" ELSE "restore"
  BY Typed DEF AfterArm, Idle, At
<1>4. StopOf(obj.stop, s)
  BY <1>1 DEF RestartInv, NamesItsStop
<1> HIDE DEF s, p
<1>5. WholeLots' /\ NamesItsStop(c)'
  <2>1. obj.sym = objs[p].sym /\ obj.qty = objs[p].qty /\ StopOf(obj.stop, obj.sym)
    BY <1>1, <1>4 DEF p, s
  <2>2. op'[c].pos \in {p, NoPos} /\ op'[c].pc # "armed" /\ recon'[c] = recon[c]
    BY <1>1, <1>3
  <2> QED
    BY <1>1, <1>3, <2>1, <2>2, RowWritten
<1>6. ASSUME recon[c] # NoRecon
      PROVE  Snapshot(c)' /\ \A u \in Symbols : Restored(c, u)'
  <2>1. Snapshot(c) /\ \A u \in Symbols : Restored(c, u)
    BY <1>6 DEF RestartInv, Recovering
  <2>2. op'[c].pc = "restore"
    BY <1>3, <1>6
  <2>3. Snapshot(c)'
    BY <1>1, <2>1, <2>2 DEF Snapshot, Live
  <2>4. ASSUME NEW u \in Symbols, u = s, held[u] > 0
        PROVE  Guarded(c, u)'
    <3> USE <2>4
    <3>1. op[c].order \notin recon[c].open /\ Live(op[c].order)
      BY <2>1, Typed DEF Snapshot, s
    <3>2. op[c].order \in LiveStops(u)
      BY <1>1, <3>1, NullAssumption DEF RestartInv, NamesItsStop, StopOf, LiveStops, LiveOf, s
    <3> QED
      BY <1>1, <3>1, <3>2 DEF Guarded, LiveStops, LiveOf, Live
  <2>5. ASSUME NEW u \in Symbols, u # s, tracked[u] # NoPos, Guarded(c, u)
        PROVE  Guarded(c, u)'
    <3>1. tracked[u] \in PosIds /\ objs[tracked[u]].sym = u
      BY <2>5, Typed DEF LoopInv, RowsKept
    <3>2. objs'[tracked[u]] = objs[tracked[u]]
      BY <1>1, <1>3, <2>5, <3>1, Typed
    <3> QED
      BY <1>1, <2>2, <2>5, <3>2 DEF Guarded, LiveStops, LiveOf, Live
  <2> QED
    BY <1>1, <1>2, <2>1, <2>2, <2>3, <2>4, <2>5 DEF Restored, s
<1> QED
  BY <1>1, <1>5, <1>6 DEF RestartInv, Recovering

LEMMA ArmStepRestart ==
  ASSUME TypeInv, NEW c \in Callers, LoopInv(c), RestartInv(c), Recoverable, ArmStep(c)
  PROVE  RestartInv(c)'
<1>1. CASE SubmitStop(c)
  BY <1>1, SubmitStopRestart
<1>2. ~StopRefused(c)
  BY DEF StopRefused, Recoverable
<1>3. ASSUME op[c].pc = "armed"
      PROVE  op[c].pos \in PosIds /\ objs[op[c].pos] \in Object /\ op[c].order \in OrderIds
  BY <1>3, Typed
<1>4. CASE StopReplied(c)
  <2> DEFINE obj == [objs[op[c].pos] EXCEPT !.stop = op[c].order]
  <2>1. op[c].pc = "armed" /\ AfterArm(c, obj)
    BY <1>4 DEF StopReplied
  <2>2. obj \in Object /\ obj.sym = SymOf(c) /\ obj.qty = objs[op[c].pos].qty /\ obj.stop = op[c].order
    BY <1>3, <2>1 DEF Object, SymOf
  <2> HIDE DEF obj
  <2> QED
    BY <2>1, <2>2, StopAnsweredRestart
<1>5. CASE StopReplyLost(c)
  <2>1. op[c].pc = "armed" /\ AfterArm(c, objs[op[c].pos])
    BY <1>5 DEF StopReplyLost
  <2> QED
    BY <1>3, <2>1, StopAnsweredRestart DEF SymOf
<1> QED
  BY <1>1, <1>2, <1>4, <1>5 DEF ArmStep

-----------------------------------------------------------------------------
(* reconcile()                                                              *)

\* Before reconcile() has handled a row there is nothing it has to have
\* restored.
LEMMA LoadRowsRestart ==
  ASSUME TypeInv, NEW c \in Callers, LoopInv(c), RestartInv(c), LoadRows(c)
  PROVE  RestartInv(c)'
<1> DEFINE r == [rows |-> journal, held |-> [s \in Symbols |-> 0], open |-> {},
                 todo |-> {s \in Symbols : journal[s] # NoRow}]
<1>1. /\ recon' = [recon EXCEPT ![c] = r] /\ op' = [op EXCEPT ![c] = At("portfolio")]
      /\ UNCHANGED <<orders, held, objs, tracked, journal>>
  BY DEF LoadRows
<1>2. /\ r.rows = journal /\ r.open = {}
      /\ r.todo = {s \in Symbols : journal[s] # NoRow}
  OBVIOUS
<1> HIDE DEF r
<1>3. recon'[c] = r /\ op'[c].pc = "portfolio" /\ op'[c].pos = NoPos
  BY <1>1, Typed DEF At
<1>4. WholeLots'
  BY <1>1 DEF RestartInv, WholeLots, Live
<1>5. NamesItsStop(c)'
  <2>1. NamesItsStop(c) /\ \A s \in Symbols : r.rows[s] # NoRow => StopOf(r.rows[s].stop, s)
    BY <1>2 DEF RestartInv, NamesItsStop
  <2> QED
    BY <1>1, <1>3, <2>1, NamesStay
<1>6. Snapshot(c)'
  BY <1>2, <1>3 DEF Snapshot
<1>7. \A s \in Symbols : Restored(c, s)'
  BY <1>2, <1>3 DEF Restored
<1> QED
  BY <1>4, <1>5, <1>6, <1>7 DEF RestartInv, Recovering

\* reconcile() goes on to its next await with another snapshot.
LEMMA SnapshotStep ==
  ASSUME TypeInv, NEW c \in Callers, RestartInv(c), NEW r \in Recon, NEW pc \in {"orders", "restore", "orphans"},
         op[c].pos = NoPos, recon[c] # NoRecon, r.rows = recon[c].rows,
         recon' = [recon EXCEPT ![c] = r], op' = [op EXCEPT ![c] = At(pc)],
         UNCHANGED <<orders, held, objs, tracked, journal>>,
         Snapshot(c)', \A s \in Symbols : Restored(c, s)'
  PROVE  RestartInv(c)'
<1>1. recon'[c] = r /\ op'[c].pc = pc /\ op'[c].pos = NoPos
  BY Typed DEF At
<1>2. WholeLots'
  BY DEF RestartInv, WholeLots, Live
<1>3. NamesItsStop(c)'
  <2>1. NamesItsStop(c) /\ \A s \in Symbols : r.rows[s] # NoRow => StopOf(r.rows[s].stop, s)
    BY DEF RestartInv, NamesItsStop
  <2> QED
    BY <1>1, <2>1, NamesStay
<1> QED
  BY <1>2, <1>3 DEF RestartInv, Recovering

LEMMA GotPortfolioRestart ==
  ASSUME TypeInv, NEW c \in Callers, LoopInv(c), RestartInv(c), GotPortfolio(c)
  PROVE  RestartInv(c)'
<1> DEFINE r == [recon[c] EXCEPT !.held = held]
<1>1. /\ op[c].pc = "portfolio" /\ recon[c] \in Recon /\ recon[c] # NoRecon /\ op[c].pos = NoPos
      /\ UNCHANGED <<orders, held, objs, tracked, journal>>
  BY NullAssumption DEF GotPortfolio, TypeInv, OpOK, LoopInv, Place, Outside
<1>2. recon' = [recon EXCEPT ![c] = r] /\ op' = [op EXCEPT ![c] = At("orders")]
  BY Typed DEF GotPortfolio
<1>3. /\ r \in Recon /\ r.rows = recon[c].rows /\ r.held = held
      /\ r.open = recon[c].open /\ r.todo = recon[c].todo
  BY <1>1, Typed DEF Recon
<1> HIDE DEF r
<1>4. recon'[c] = r /\ op'[c].pc = "orders"
  BY <1>2, Typed DEF At
<1>5. Snapshot(c)
  BY <1>1 DEF RestartInv, Recovering
<1>6. \A s \in Symbols : held[s] \in {0, Lot} /\ (held[s] > 0 => held[s] = Lot)
  BY LotAssumption DEF RestartInv, WholeLots
<1>7. Snapshot(c)'
  BY <1>1, <1>3, <1>4, <1>5, <1>6 DEF Snapshot, Live
<1>8. \A s \in Symbols : Restored(c, s)'
  BY <1>1, <1>3, <1>4, <1>5 DEF Snapshot, Restored
<1> QED
  BY <1>1, <1>2, <1>3, <1>7, <1>8, SnapshotStep

LEMMA GotOrdersRestart ==
  ASSUME TypeInv, NEW c \in Callers, LoopInv(c), RestartInv(c), GotOrders(c)
  PROVE  RestartInv(c)'
<1>1. /\ op[c].pc = "orders" /\ recon[c] \in Recon /\ recon[c] # NoRecon /\ op[c].pos = NoPos
      /\ UNCHANGED <<orders, held, objs, tracked, journal>>
      /\ op' = [op EXCEPT ![c] = At("restore")]
  BY NullAssumption DEF GotOrders, TypeInv, OpOK, LoopInv, Place, Outside
<1>2. PICK listed \in {recon[c].open, UNION {LiveStops(s) : s \in Symbols}} :
        recon' = [recon EXCEPT ![c] = [recon[c] EXCEPT !.open = listed]]
  <2>1. CASE recon' = [recon EXCEPT ![c].open = UNION {LiveStops(s) : s \in Symbols}]
    BY <2>1, Typed
  <2>2. CASE recon' = recon
    <3>1. [recon[c] EXCEPT !.open = recon[c].open] = recon[c]
      BY <1>1 DEF Recon
    <3> QED
      BY <2>2, <3>1, Typed
  <2> QED
    BY <2>1, <2>2 DEF GotOrders
<1> DEFINE r == [recon[c] EXCEPT !.open = listed]
<1>3. listed \subseteq OrderIds
  BY <1>1 DEF Recon, LiveStops, LiveOf
<1>4. /\ r \in Recon /\ r.rows = recon[c].rows /\ r.held = recon[c].held
      /\ r.open = listed /\ r.todo = recon[c].todo
  BY <1>1, <1>3 DEF Recon
<1> HIDE DEF r
<1>5. recon'[c] = r /\ op'[c].pc = "restore" /\ recon' = [recon EXCEPT ![c] = r]
  BY <1>1, <1>2, Typed DEF At, r
<1>6. Snapshot(c)
  BY <1>1 DEF RestartInv, Recovering
<1>7. \A o \in listed : orders[o].kind = "stop" /\ (Live(o) \/ held[orders[o].sym] = 0)
  BY <1>6 DEF Snapshot, LiveStops, LiveOf
<1>8. Snapshot(c)'
  BY <1>1, <1>4, <1>5, <1>6, <1>7 DEF Snapshot, Live
<1>9. \A s \in Symbols : Restored(c, s)'
  BY <1>1, <1>4, <1>5, <1>6 DEF Snapshot, Restored
<1> QED
  BY <1>1, <1>4, <1>5, <1>8, <1>9, SnapshotStep

\* The stops that tracked positions own are taken out of the list: those that
\* guarded a position by that now guard it by not being listed.
LEMMA FindOrphansRestart ==
  ASSUME TypeInv, NEW c \in Callers, LoopInv(c), RestartInv(c), FindOrphans(c)
  PROVE  RestartInv(c)'
<1> DEFINE r == [recon[c] EXCEPT !.open = recon[c].open \ TrackedStops]
<1>1. /\ op[c].pc = "restore" /\ recon[c] \in Recon /\ recon[c] # NoRecon /\ op[c].pos = NoPos
      /\ recon[c].todo = {}
      /\ UNCHANGED <<orders, held, objs, tracked, journal>>
      /\ op' = [op EXCEPT ![c] = At("orphans")]
  BY NullAssumption DEF FindOrphans, TypeInv, OpOK, LoopInv, Place, Outside
<1>2. recon' = [recon EXCEPT ![c] = r]
  BY Typed DEF FindOrphans
<1>3. /\ r \in Recon /\ r.rows = recon[c].rows /\ r.held = recon[c].held
      /\ r.open = recon[c].open \ TrackedStops /\ r.todo = {}
  BY <1>1 DEF Recon
<1> HIDE DEF r
<1>4. recon'[c] = r /\ op'[c].pc = "orphans"
  BY <1>1, <1>2, Typed DEF At
<1>5. Snapshot(c) /\ \A s \in Symbols : Restored(c, s)
  BY <1>1 DEF RestartInv, Recovering
<1>6. Snapshot(c)'
  BY <1>1, <1>3, <1>4, <1>5 DEF Snapshot, Live
<1>7. ASSUME NEW s \in Symbols, Guarded(c, s)
      PROVE  Guarded(c, s)'
  <2>1. PICK o \in LiveStops(s) :
          \/ o \notin recon[c].open
          \/ tracked[s] # NoPos /\ o = objs[tracked[s]].stop
    BY <1>7 DEF Guarded
  <2>2. o \notin recon'[c].open
    BY <1>3, <1>4, <2>1 DEF TrackedStops
  <2>3. o \in LiveStops(s)'
    BY <1>1, <2>1 DEF LiveStops, LiveOf, Live
  <2> QED
    BY <2>2, <2>3 DEF Guarded
<1>8. \A s \in Symbols : Restored(c, s)'
  BY <1>1, <1>3, <1>4, <1>5, <1>7 DEF Restored
<1> QED
  BY <1>1, <1>2, <1>3, <1>6, <1>8, SnapshotStep

\* The account no longer holds it, and did not when it was asked.
LEMMA DropRowRestart ==
  ASSUME TypeInv, NEW c \in Callers, LoopInv(c), RestartInv(c), NEW s \in Symbols, DropRow(c, s)
  PROVE  RestartInv(c)'
<1> DEFINE r == [recon[c] EXCEPT !.todo = recon[c].todo \ {s}]
<1>1. /\ op[c].pc = "restore" /\ recon[c] \in Recon /\ recon[c] # NoRecon /\ op[c].pos = NoPos
      /\ s \in recon[c].todo /\ recon[c].held[s] = 0
      /\ UNCHANGED <<orders, held, objs, op>>
      /\ tracked' = [tracked EXCEPT ![s] = NoPos] /\ journal' = [journal EXCEPT ![s] = NoRow]
  BY NullAssumption DEF DropRow, TypeInv, OpOK, LoopInv, Place, Outside
<1>2. recon' = [recon EXCEPT ![c] = r]
  BY Typed DEF DropRow, Handled
<1>3. /\ r.rows = recon[c].rows /\ r.held = recon[c].held
      /\ r.open = recon[c].open /\ r.todo = recon[c].todo \ {s}
  BY <1>1 DEF Recon
<1> HIDE DEF r
<1>4. recon'[c] = r
  BY <1>2, Typed
<1>5. Snapshot(c) /\ \A u \in Symbols : Restored(c, u)
  BY <1>1 DEF RestartInv, Recovering
<1>6. /\ tracked'[s] = NoPos /\ journal'[s] = NoRow
      /\ \A u \in Symbols : u # s => tracked'[u] = tracked[u] /\ journal'[u] = journal[u]
  BY <1>1, Typed
<1>7. WholeLots'
  BY <1>1, <1>6 DEF RestartInv, WholeLots, Live
<1>8. NamesItsStop(c)'
  <2>1. NamesItsStop(c) /\ \A u \in Symbols : r.rows[u] # NoRow => StopOf(r.rows[u].stop, u)
    BY <1>1, <1>3 DEF RestartInv, NamesItsStop
  <2>2. /\ \A u \in Symbols : tracked'[u] \in {tracked[u], NoPos}
        /\ \A u \in Symbols : journal'[u] \in {journal[u], NoRow}
    BY <1>6
  <2> QED
    BY <1>1, <1>4, <2>1, <2>2, NamesStay
<1>9. Snapshot(c)'
  BY <1>1, <1>3, <1>4, <1>5 DEF Snapshot, Live
<1>10. ~(held[s] > 0)
  BY <1>1, <1>5, LotAssumption DEF Snapshot
<1>11. ASSUME NEW u \in Symbols, u # s, Guarded(c, u)
       PROVE  Guarded(c, u)'
  BY <1>1, <1>3, <1>4, <1>6, <1>11 DEF Guarded, LiveStops, LiveOf, Live
<1>12. \A u \in Symbols : Restored(c, u)'
  BY <1>1, <1>3, <1>4, <1>5, <1>6, <1>10, <1>11 DEF Restored
<1> QED
  BY <1>7, <1>8, <1>9, <1>12 DEF RestartInv, Recovering

\* The account holds it: its stop is among the orders listed and lives, or
\* another one is armed.
LEMMA RestoreRowRestart ==
  ASSUME TypeInv, NEW c \in Callers, LoopInv(c), RestartInv(c), NEW s \in Symbols, RestoreRow(c, s)
  PROVE  RestartInv(c)'
<1> DEFINE r == [recon[c] EXCEPT !.todo = recon[c].todo \ {s}]
           stop == recon[c].rows[s].stop
           obj == [sym |-> s, qty |-> recon[c].held[s], stop |-> stop, closing |-> FALSE]
<1>1. /\ op[c].pc = "restore" /\ recon[c] \in Recon /\ recon[c] # NoRecon /\ op[c].pos = NoPos
      /\ s \in recon[c].todo /\ recon[c].held[s] > 0
      /\ UNCHANGED <<orders, held>>
  BY NullAssumption DEF RestoreRow, TypeInv, OpOK, LoopInv, Place, Outside
<1>2. recon[c].rows[s] \in Row /\ recon[c].rows[s] # NoRow
  BY <1>1, NullAssumption DEF TypeInv, TodoOK
<1>3. recon' = [recon EXCEPT ![c] = r]
  BY Typed DEF RestoreRow, Handled
<1>4. /\ r.rows = recon[c].rows /\ r.held = recon[c].held
      /\ r.open = recon[c].open /\ r.todo = recon[c].todo \ {s}
  BY <1>1 DEF Recon
<1>5. Snapshot(c) /\ \A u \in Symbols : Restored(c, u)
  BY <1>1 DEF RestartInv, Recovering
<1>6. recon[c].held[s] = Lot
  BY <1>1, <1>5, LotAssumption DEF Snapshot
<1>7. StopOf(stop, s)
  BY <1>1, <1>2 DEF RestartInv, NamesItsStop
<1>8. obj \in Object /\ obj.sym = s /\ obj.qty = Lot /\ obj.stop = stop
  BY <1>2, <1>6, LotAssumption, MaxHeldAssumption DEF Object, Row
<1>9. PICK p \in FreePos :
        /\ objs' = [objs EXCEPT ![p] = obj] /\ tracked' = [tracked EXCEPT ![s] = p]
        /\ \/ stop \in recon[c].open /\ journal' = [journal EXCEPT ![s] = RowOf(obj)] /\ op' = op
           \/ journal' = journal /\ op' = [op EXCEPT ![c] = Holding("arm", p)]
  BY DEF RestoreRow
<1> HIDE DEF r, obj, stop
<1>10. recon'[c] = r
  BY <1>3, Typed
<1>11. op'[c] = op[c] \/ op'[c] = Holding("arm", p)
  BY <1>9, Typed
<1>12. WholeLots' /\ NamesItsStop(c)'
  BY <1>1, <1>4, <1>7, <1>8, <1>9, <1>10, <1>11, LotTracked
<1>13. p \in PosIds /\ p # NoPos /\ \A u \in Symbols : tracked[u] # p
  BY NullAssumption DEF FreePos, LivePos
<1>14. /\ objs'[p] = obj /\ tracked'[s] = p
       /\ \A u \in Symbols : u # s => tracked'[u] = tracked[u]
       /\ \A u \in Symbols : u # s /\ tracked[u] # NoPos => objs'[tracked[u]] = objs[tracked[u]]
  BY <1>9, <1>13, Typed
<1>15. op'[c].pc \in {"restore", "arm"} /\ (op'[c].pc = "restore" => stop \in recon[c].open)
       /\ (op'[c].pc = "arm" => op'[c].pos = p)
  BY <1>1, <1>9, Typed
<1>16. Snapshot(c)'
  BY <1>1, <1>4, <1>5, <1>10, <1>15 DEF Snapshot, Live
<1>17. ASSUME NEW u \in Symbols, u # s, tracked[u] # NoPos, Guarded(c, u)
       PROVE  Guarded(c, u)'
  BY <1>1, <1>4, <1>10, <1>14, <1>15, <1>17 DEF Guarded, LiveStops, LiveOf, Live
<1>18. Restored(c, s)'
  <2>1. CASE op'[c].pc = "arm"
    <3>1. SymOf(c)' = s
      BY <1>8, <1>14, <1>15, <2>1 DEF SymOf
    <3> QED
      BY <1>13, <1>14, <2>1, <3>1 DEF Restored
  <2>2. CASE op'[c].pc = "restore" /\ held[s] > 0
    <3>1. stop \in OrderIds /\ stop # NoOrder
      BY <1>1, <1>15, <2>2, NullAssumption DEF Recon
    <3>2. orders[stop].sym = s /\ orders[stop].kind = "stop"
      BY <1>7, <3>1 DEF StopOf
    <3>3. Live(stop)
      BY <1>5, <1>15, <2>2, <3>2, LotAssumption DEF Snapshot
    <3>4. stop \in LiveStops(s)'
      BY <1>1, <3>1, <3>2, <3>3 DEF LiveStops, LiveOf, Live
    <3>5. Guarded(c, s)'
      BY <1>8, <1>13, <1>14, <2>2, <3>4 DEF Guarded
    <3> QED
      BY <1>13, <1>14, <3>5 DEF Restored
  <2> QED
    BY <1>1, <1>15, <2>1, <2>2 DEF Restored
<1>19. ASSUME NEW u \in Symbols, u # s
       PROVE  Restored(c, u)'
  BY <1>1, <1>4, <1>5, <1>10, <1>14, <1>17, <1>19 DEF Restored
<1> QED
  BY <1>12, <1>16, <1>18, <1>19 DEF RestartInv, Recovering

\* Orders die at the hands of reconcile() or of the venue: those it has not
\* listed, and those of a symbol still held, are left alone.
LEMMA OrdersDie ==
  ASSUME TypeInv, NEW c \in Callers, RestartInv(c), NEW o \in OrderIds, Live(o),
         NEW order \in Order, order.sym = orders[o].sym, order.kind = orders[o].kind,
         order.status \notin LiveStatus,
         orders' = [orders EXCEPT ![o] = order],
         UNCHANGED <<objs, tracked, journal, op>>,
         held' = held \/ held' = [held EXCEPT ![orders[o].sym] = 0],
         \/ recon' = recon /\ held'[orders[o].sym] = 0
         \/ /\ op[c].pc = "orphans" /\ o \in recon[c].open
            /\ recon'[c] = [recon[c] EXCEPT !.open = recon[c].open \ {o}]
            /\ recon[c] \in Recon
  PROVE  RestartInv(c)'
<1> DEFINE s == orders[o].sym
<1>1. /\ orders'[o] = order /\ \A q \in OrderIds : q # o => orders'[q] = orders[q]
      /\ s \in Symbols
  BY Typed
<1>2. ~Live(o)' /\ \A q \in OrderIds : q # o => Live(q)' = Live(q)
  BY <1>1 DEF Live
<1>3. \A q \in OrderIds : orders'[q].sym = orders[q].sym /\ orders'[q].kind = orders[q].kind
  BY <1>1
<1> HIDE DEF s
<1>4. \A u \in Symbols : held'[u] = held[u] \/ held'[u] = 0
  BY Typed
<1>5. recon'[c] # NoRecon => recon[c] # NoRecon /\ recon'[c].rows = recon[c].rows
                             /\ recon'[c].held = recon[c].held /\ recon'[c].todo = recon[c].todo
                             /\ recon'[c].open \subseteq recon[c].open
  BY NullAssumption DEF Recon
<1>6. Referenced \subseteq OrderIds \cup {NoOrder}
  BY DEF Referenced, TypeInv, TypeOK, ManagerTypeOK, Object, Op, Row, Recon
<1>7. NamesItsStop(c)'
  BY <1>3, <1>5, <1>6, NamesKept DEF RestartInv
<1>8. WholeLots'
  BY <1>1, <1>2, <1>4 DEF RestartInv, WholeLots
<1>9. ASSUME recon'[c] # NoRecon
      PROVE  Snapshot(c)' /\ \A u \in Symbols : Restored(c, u)'
  <2>1. Snapshot(c) /\ \A u \in Symbols : Restored(c, u)
    BY <1>5, <1>9 DEF RestartInv, Recovering
  <2>2. recon[c] \in Recon /\ recon[c].open \subseteq OrderIds
    BY <1>5, <1>9, Typed DEF Recon
  <2>3. \A u \in Symbols : held'[u] > 0 => held[u] > 0 /\ held'[u] = held[u]
    BY <1>4
  <2>4. \A q \in OrderIds : Live(q) \/ held[orders[q].sym] = 0 =>
          Live(q)' \/ held'[orders'[q].sym] = 0 \/ q = o
    BY <1>2, <1>3, <1>4, Typed
  <2>5. o \in recon'[c].open => held'[orders'[o].sym] = 0
    BY <1>3, <2>2 DEF Recon
  <2>6. op[c].pc = "armed" =>
          /\ op[c].order \in OrderIds /\ op[c].pos # NoPos /\ op[c].pos \in PosIds
          /\ SymOf(c) \in Symbols /\ SymOf(c)' = SymOf(c)
          /\ orders[op[c].order].sym = SymOf(c)
    BY Typed, NullAssumption DEF RestartInv, NamesItsStop, StopOf, SymOf
  <2>7. op[c].pc = "armed" => Live(op[c].order)' \/ held'[SymOf(c)] = 0
    BY <1>2, <1>3, <1>4, <2>1, <2>6, Typed DEF Snapshot
  <2>8. Snapshot(c)'
    <3>1. \A q \in recon'[c].open :
            orders'[q].kind = "stop" /\ (Live(q)' \/ held'[orders'[q].sym] = 0)
      BY <1>3, <1>5, <1>9, <2>1, <2>2, <2>4, <2>5 DEF Snapshot
    <3>2. \A u \in Symbols : held'[u] > 0 => held[u] > 0
      BY <2>3
    <3> QED
      BY <1>5, <1>9, <2>1, <2>6, <2>7, <3>1, <3>2 DEF Snapshot
  <2>9. ASSUME NEW u \in Symbols, held'[u] > 0, Guarded(c, u)
        PROVE  Guarded(c, u)'
    <3>1. PICK q \in LiveStops(u) :
            \/ q \notin recon[c].open
            \/ op[c].pc # "orphans" /\ tracked[u] # NoPos /\ q = objs[tracked[u]].stop
      BY <2>9 DEF Guarded
    <3>2. q \in OrderIds /\ orders[q].sym = u /\ Live(q)
      BY <3>1 DEF LiveStops, LiveOf
    <3>3. q # o
      BY <2>9, <3>1, <3>2
    <3>4. q \in LiveStops(u)'
      BY <1>1, <1>2, <3>1, <3>2, <3>3 DEF LiveStops, LiveOf
    <3> QED
      BY <1>5, <1>9, <3>1, <3>4 DEF Guarded
  <2>10. op[c].pc \in {"arm", "armed"} => SymOf(c)' = SymOf(c)
    BY Typed DEF SymOf
  <2> QED
    BY <1>5, <1>9, <2>1, <2>3, <2>8, <2>9, <2>10 DEF Restored
<1> QED
  BY <1>7, <1>8, <1>9 DEF RestartInv, Recovering

LEMMA CancelOrphanRestart ==
  ASSUME TypeInv, NEW c \in Callers, LoopInv(c), RestartInv(c), Recoverable,
         NEW o \in OrderIds, CancelOrphan(c, o)
  PROVE  RestartInv(c)'
<1> DEFINE r == [recon[c] EXCEPT !.open = recon[c].open \ {o}]
<1>1. /\ op[c].pc = "orphans" /\ recon[c] \in Recon /\ recon[c] # NoRecon /\ op[c].pos = NoPos
      /\ o \in recon[c].open
      /\ UNCHANGED <<held, objs, tracked, journal, op>>
  BY NullAssumption DEF CancelOrphan, TypeInv, OpOK, LoopInv, Place, Outside
<1>2. recon'[c] = r
  BY Typed DEF CancelOrphan
<1>3. /\ r.rows = recon[c].rows /\ r.held = recon[c].held
      /\ r.open = recon[c].open \ {o} /\ r.todo = recon[c].todo
  BY <1>1 DEF Recon
<1>4. CASE Live(o)
  <2> DEFINE order == [orders[o] EXCEPT !.status = "canceled"]
  <2>1. orders' = [orders EXCEPT ![o] = order]
    BY <1>4, Typed DEF CancelOrphan, CancelTakes, CancelPends, CancelFails, Recoverable
  <2>2. /\ order \in Order /\ order.sym = orders[o].sym /\ order.kind = orders[o].kind
        /\ order.status \notin LiveStatus
    BY Typed DEF Order, Status, LiveStatus
  <2> HIDE DEF order
  <2> QED
    BY <1>1, <1>2, <1>4, <2>1, <2>2, OrdersDie
<1>5. CASE ~Live(o)
  <2>1. orders' = orders
    BY <1>5 DEF CancelOrphan, CancelTakes, CancelPends, CancelFails
  <2> HIDE DEF r
  <2>2. Snapshot(c) /\ \A u \in Symbols : Restored(c, u)
    BY <1>1 DEF RestartInv, Recovering
  <2>3. Snapshot(c)'
    BY <1>1, <1>2, <1>3, <2>1, <2>2 DEF Snapshot, Live
  <2>4. ASSUME NEW u \in Symbols, Guarded(c, u)
        PROVE  Guarded(c, u)'
    BY <1>1, <1>2, <1>3, <2>1, <2>4 DEF Guarded, LiveStops, LiveOf, Live
  <2>5. \A u \in Symbols : Restored(c, u)'
    BY <1>1, <1>2, <1>3, <2>2, <2>4 DEF Restored
  <2>6. WholeLots'
    BY <1>1, <1>2, <1>3, <2>1 DEF RestartInv, WholeLots, Live
  <2>7. NamesItsStop(c)'
    <3>1. NamesItsStop(c) /\ \A s \in Symbols : r.rows[s] # NoRow => StopOf(r.rows[s].stop, s)
      BY <1>1, <1>2, <1>3 DEF RestartInv, NamesItsStop
    <3> QED
      BY <1>1, <1>2, <1>3, <2>1, <3>1, NamesStay
  <2> QED
    BY <2>3, <2>5, <2>6, <2>7 DEF RestartInv, Recovering
<1> QED
  BY <1>4, <1>5

LEMMA ReconcileStepRestart ==
  ASSUME TypeInv, NEW c \in Callers, LoopInv(c), RestartInv(c), Recoverable, ReconcileStep(c)
  PROVE  RestartInv(c)'
<1>1. ~ReconcileFailed(c)
  BY DEF ReconcileFailed, Recoverable
<1>2. CASE ReconcileDone(c)
  <2>1. /\ op[c].pc = "orphans" /\ UNCHANGED <<orders, held, objs, tracked, journal>>
        /\ op' = [op EXCEPT ![c] = Idle] /\ recon' = [recon EXCEPT ![c] = NoRecon]
    BY <1>2 DEF ReconcileDone
  <2>2. op[c].pos = NoPos
    BY <2>1 DEF LoopInv, Place, Outside
  <2>3. op'[c].pos = NoPos /\ op'[c].pc = "idle" /\ recon'[c] = NoRecon
    BY <2>1, Typed DEF Idle, At
  <2> QED
    BY <2>1, <2>2, <2>3, OrdersStep DEF RestartInv, WholeLots
<1> QED
  BY <1>1, <1>2, LoadRowsRestart, GotPortfolioRestart, GotOrdersRestart, FindOrphansRestart,
     DropRowRestart, RestoreRowRestart, CancelOrphanRestart DEF ReconcileStep

-----------------------------------------------------------------------------
(* The venue, the death of the process, and the theorem.                    *)

LEMMA VenueStepRestart ==
  ASSUME TypeInv, NEW c \in Callers, RestartInv(c), Recoverable, VenueStep, UNCHANGED managerVars
  PROVE  RestartInv(c)'
<1>1. ASSUME NEW s \in Symbols, NEW level \in Level, MovePrice(s, level)
      PROVE  RestartInv(c)'
  BY <1>1, RestartFrame DEF MovePrice
<1>2. ASSUME NEW o \in OrderIds PROVE ~FillMarket(o) /\ ~Die(o)
  BY DEF FillMarket, Die, RestartInv, WholeLots, Live, LiveStatus
<1>3. ASSUME NEW o \in OrderIds, NEW n \in 1..MaxHeld, FillStop(o, n)
      PROVE  RestartInv(c)'
  <2> DEFINE s == orders[o].sym
             q == orders[o].qty
             order == [orders[o] EXCEPT !.qty = 0, !.status = "filled"]
  <2>1. Live(o) /\ s \in Symbols /\ q = Lot /\ held[s] \in {0, Lot}
    BY <1>3, Typed DEF FillStop, RestartInv, WholeLots
  <2>2. n \in 1..(IF q < held[s] THEN q ELSE held[s]) /\ n = IF q < held[s] THEN q ELSE held[s]
    BY <1>3 DEF FillStop, Recoverable
  <2>3. n = Lot /\ held[s] = Lot
    BY <2>1, <2>2, LotAssumption
  <2>4. held' = [held EXCEPT ![s] = 0]
    <3>1. held' = [held EXCEPT ![s] = held[s] - n]
      BY <1>3 DEF FillStop
    <3>2. held[s] - n = 0
      BY <2>3, LotAssumption
    <3> QED
      BY <3>1, <3>2
  <2>5. /\ order \in Order /\ order.sym = s /\ order.kind = orders[o].kind
        /\ order.status \notin LiveStatus
    <3>1. orders[o] \in Order /\ 0 \in 0..MaxHeld
      BY MaxHeldAssumption, Typed
    <3>2. "filled" \in Status /\ "filled" \notin LiveStatus
      BY DEF Status, LiveStatus
    <3> QED
      BY <3>1, <3>2 DEF Order
  <2>6. orders' = [orders EXCEPT ![o] = order]
    <3>1. orders' = [orders EXCEPT ![o] = [orders[o] EXCEPT !.qty = q - n, !.status = "filled"]]
      BY <1>3, <2>2, Typed DEF FillStop
    <3>2. q - n = 0
      BY <2>1, <2>3, LotAssumption
    <3> QED
      BY <3>1, <3>2
  <2>7. held'[s] = 0
    BY <2>1, <2>4, Typed
  <2> HIDE DEF order
  <2> QED
    BY <2>1, <2>4, <2>5, <2>6, <2>7, OrdersDie
<1>4. ASSUME NEW o \in OrderIds, RejectStop(o)
      PROVE  RestartInv(c)'
  <2> DEFINE order == [orders[o] EXCEPT !.status = "rejected"]
  <2>1. Live(o) /\ held[orders[o].sym] = 0 /\ held' = held
    BY <1>4 DEF RejectStop, Recoverable
  <2>2. /\ order \in Order /\ order.sym = orders[o].sym /\ order.kind = orders[o].kind
        /\ order.status \notin LiveStatus
    BY Typed DEF Order, Status, LiveStatus
  <2>3. orders' = [orders EXCEPT ![o] = order]
    BY <1>4, Typed DEF RejectStop
  <2> HIDE DEF order
  <2> QED
    BY <2>1, <2>2, <2>3, OrdersDie
<1> QED
  BY <1>1, <1>2, <1>3, <1>4 DEF VenueStep

LEMMA RestartInit ==
  ASSUME Init, NEW c, Tasks = {c}
  PROVE  RestartInv(c)
<1>1. op[c].pc = "off" /\ op[c].pos = NoPos /\ recon[c] = NoRecon
  BY DEF Init, ManagerInit, Callers, At
<1>2. \A o \in OrderIds : ~Live(o)
  BY DEF Init, BrokerInit, Live, LiveStatus
<1>3. \A s \in Symbols : held[s] = 0 /\ tracked[s] = NoPos /\ journal[s] = NoRow
  BY DEF Init, BrokerInit, ManagerInit
<1> QED
  BY <1>1, <1>2, <1>3 DEF RestartInv, WholeLots, NamesItsStop, Recovering

LEMMA RestartStep ==
  ASSUME NEW c, Callers = {c}, Tasks = {c}, Recoverable, TypeInv, LoopInv(c), RestartInv(c),
         [Next]_vars
  PROVE  RestartInv(c)'
<1>0. c \in Callers
  OBVIOUS
<1>1. CASE CallerStep(c)
  BY <1>0, <1>1, CloseStepRestart, ArmStepRestart, ReconcileStepRestart, ExecuteStepRestart
     DEF CallerStep
<1>2. CASE VenueStep /\ UNCHANGED managerVars
  BY <1>0, <1>2, VenueStepRestart
<1>3. CASE UNCHANGED <<brokerVars, objs, tracked, journal, op, recon>>
  BY <1>3, RestartFrame
<1>4. CASE Crash
  <2>1. /\ op'[c].pc = "off" /\ op'[c].pos = NoPos /\ recon'[c] = NoRecon
        /\ \A s \in Symbols : tracked'[s] = NoPos
        /\ UNCHANGED <<orders, held, journal>>
    BY <1>0, <1>4 DEF Crash, At
  <2> QED
    BY <2>1 DEF RestartInv, WholeLots, NamesItsStop, StopOf, Recovering, Live
<1> QED
  BY <1>1, <1>2, <1>3, <1>4 DEF Next, CooldownEnds

Protected ==
  \A c \in Callers, s \in Symbols :
    ReconcileDone(c) /\ recon[c].rows[s] # NoRow /\ held[s] > 0
      => /\ tracked[s] # NoPos /\ held[s] <= objs[tracked[s]].qty
         /\ LiveStops(s) # {}
LEMMA ProtectedSteps == [][Protected]_vars => RestartRestoresProtection
BY DEF Protected, RestartRestoresProtection

\* After any restart, whatever replies and listings were lost before or
\* during it: when reconcile() returns, a position that had a row and is
\* still held is tracked for what is held and has a live resting stop, though
\* the venue went on selling while it ran (StopManager.reconcile, protect).
THEOREM RestartProtects ==
  ASSUME NEW c, Tasks = {c}, Tickers = {}, Recoverable
  PROVE  Spec => RestartRestoresProtection
<1>0. Callers = {c}
  BY DEF Callers
<1> DEFINE Inv == TypeInv /\ LoopInv(c) /\ RestartInv(c)
<1>1. Init => RestartInv(c)
  BY RestartInit
<1>2. Inv /\ [Next]_vars => RestartInv(c)'
  BY <1>0, RestartStep
<1>3. Inv => Protected
  <2> SUFFICES ASSUME Inv, NEW s \in Symbols, ReconcileDone(c), recon[c].rows[s] # NoRow, held[s] > 0
               PROVE  /\ tracked[s] # NoPos /\ held[s] <= objs[tracked[s]].qty
                      /\ LiveStops(s) # {}
    BY <1>0 DEF Protected
  <2>1. op[c].pc = "orphans" /\ recon[c] # NoRecon
    BY <1>0, NullAssumption DEF ReconcileDone, TypeInv, OpOK
  <2>2. recon[c].todo = {} /\ Restored(c, s)
    BY <2>1 DEF RestartInv, Recovering, Snapshot
  <2>3. tracked[s] # NoPos /\ Guarded(c, s)
    BY <2>1, <2>2 DEF Restored
  <2>4. held[s] = Lot /\ objs[tracked[s]].qty = Lot
    BY <2>3, LotAssumption DEF RestartInv, WholeLots
  <2> QED
    BY <2>3, <2>4, LotAssumption DEF Guarded
<1>4. Spec => []LoopInv(c)
  BY <1>0, LoopInvariant
<1>5. Spec => [][Protected]_vars
  BY <1>1, <1>2, <1>3, <1>4, TypeInvariant, PTL DEF Spec
<1> QED
  BY <1>5, ProtectedSteps, PTL

=============================================================================
