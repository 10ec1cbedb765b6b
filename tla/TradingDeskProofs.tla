------------------------- MODULE TradingDeskProofs -------------------------
(***************************************************************************)
(* Theorems about TradingDesk, for every value of the constants that the   *)
(* named assumptions of Broker and StopManager allow: any set of symbols,  *)
(* tasks, tickers, objects and order slots, and any environment.           *)
(***************************************************************************)
EXTENDS TradingDesk, TLAPS

USE DEF brokerVars, managerVars, vars, Holding

-----------------------------------------------------------------------------
(* Type correctness.  TypeOK alone is not inductive: an action uses the    *)
(* object, the order or the snapshot its caller holds, and must know that  *)
(* the caller does hold one at that point of its code.                     *)

\* A caller inside _close or _arm_broker_stop holds an object, one that waits
\* for an order holds its id, one inside reconcile holds its local variables.
OpOK ==
  \A c \in Callers :
    /\ op[c].pc \in {"arm", "armed", "waiting", "cancel", "confirm", "close", "closed", "exit"}
         => op[c].pos \in PosIds
    /\ op[c].pc \in {"entry", "armed", "cancel", "confirm", "closed"} => op[c].order \in OrderIds
    /\ op[c].pc \in {"portfolio", "orders", "restore", "orphans"} => recon[c] \in Recon

\* reconcile() still has to handle only symbols that had a row.
TodoOK ==
  \A c \in Callers : recon[c] \in Recon =>
    \A s \in recon[c].todo : recon[c].rows[s] \in Row

TypeInv == TypeOK /\ OpOK /\ TodoOK

LEMMA TypeInit == Init => TypeInv
<1> SUFFICES ASSUME Init PROVE TypeInv
  OBVIOUS
<1>1. (CHOOSE s \in Symbols : TRUE) \in Symbols
  BY SymbolsAssumption
<1> USE <1>1, LotAssumption, MaxHeldAssumption, NullAssumption DEF Init, BrokerInit, ManagerInit
<1>2. /\ orders \in [OrderIds -> Order]
      /\ held \in [Symbols -> 0..MaxHeld]
      /\ price \in [Symbols -> Level]
  BY DEF Order, Kind, Status, LiveStatus, Level
<1>3. objs \in [PosIds -> Object]
  BY DEF Object
<1>4. /\ tracked \in [Symbols -> PosIds \cup {NoPos}]
      /\ lock \in [Symbols -> Callers \cup {NoCaller}]
      /\ journal \in [Symbols -> Row \cup {NoRow}]
      /\ recon \in [Callers -> Recon \cup {NoRecon}]
      /\ cooling \subseteq Symbols
  OBVIOUS
<1>5. op \in [Callers -> Op] /\ OpOK
  BY DEF Op, PC, At, Idle, OpOK
<1>6. TodoOK
  BY DEF TodoOK
<1> QED
  BY <1>2, <1>3, <1>4, <1>5, <1>6 DEF TypeInv, TypeOK, ManagerTypeOK

\* What the calls to the venue, and the venue itself, leave is well typed.
LEMMA VenueType ==
  ASSUME TypeOK, VenueStep
  PROVE  /\ orders' \in [OrderIds -> Order]
         /\ held' \in [Symbols -> 0..MaxHeld]
         /\ price' \in [Symbols -> Level]
<1> USE MaxHeldAssumption, LotAssumption DEF TypeOK, ManagerTypeOK, Order, Kind, Status, LiveStatus, Level
<1>1. CASE \E s \in Symbols, level \in Level : MovePrice(s, level)
  BY <1>1 DEF MovePrice
<1>2. ASSUME NEW o \in OrderIds, NEW n \in 1..MaxHeld, FillStop(o, n)
      PROVE  /\ orders' \in [OrderIds -> Order]
             /\ held' \in [Symbols -> 0..MaxHeld]
             /\ price' \in [Symbols -> Level]
  <2>1. orders[o] \in Order /\ held[orders[o].sym] \in 0..MaxHeld
    OBVIOUS
  <2>2. n <= orders[o].qty /\ n <= held[orders[o].sym]
    BY <1>2, <2>1 DEF FillStop
  <2>3. orders[o].qty - n \in 0..MaxHeld /\ held[orders[o].sym] - n \in 0..MaxHeld
    BY <2>1, <2>2
  <2>4. held' \in [Symbols -> 0..MaxHeld] /\ price' \in [Symbols -> Level]
    BY <1>2, <2>3 DEF FillStop
  <2>5. PICK st \in Status :
          orders' = [orders EXCEPT ![o] = [orders[o] EXCEPT !.qty = @ - n, !.status = st]]
    <3>1. CASE n = IF orders[o].qty < held[orders[o].sym] THEN orders[o].qty
                   ELSE held[orders[o].sym]
      BY <1>2, <2>1, <3>1 DEF FillStop
    <3>2. CASE n # IF orders[o].qty < held[orders[o].sym] THEN orders[o].qty
                   ELSE held[orders[o].sym]
      BY <1>2, <2>1, <3>2 DEF FillStop
    <3> QED
      BY <3>1, <3>2
  <2>6. orders' \in [OrderIds -> Order]
    BY <2>1, <2>3, <2>5
  <2> QED
    BY <2>4, <2>6
<1>3. ASSUME NEW o \in OrderIds, FillMarket(o)
      PROVE  /\ orders' \in [OrderIds -> Order]
             /\ held' \in [Symbols -> 0..MaxHeld]
             /\ price' \in [Symbols -> Level]
  BY <1>3 DEF FillMarket
<1>4. ASSUME NEW o \in OrderIds, Die(o) \/ RejectStop(o)
      PROVE  /\ orders' \in [OrderIds -> Order]
             /\ held' \in [Symbols -> 0..MaxHeld]
             /\ price' \in [Symbols -> Level]
  BY <1>4 DEF Die, RejectStop
<1> QED
  BY <1>1, <1>2, <1>3, <1>4 DEF VenueStep

LEMMA SubmitType ==
  ASSUME TypeOK, NEW o \in OrderIds, NEW s \in Symbols, NEW kind \in Kind, NEW qty \in 0..MaxHeld,
         \/ Accept(o, s, kind, qty)
         \/ FillSellNow(o, s, qty)
         \/ FillEntryNow(o, s) /\ held[s] + Lot <= MaxHeld
  PROVE  /\ orders' \in [OrderIds -> Order]
         /\ held' \in [Symbols -> 0..MaxHeld]
<1>1. orders \in [OrderIds -> Order] /\ held \in [Symbols -> 0..MaxHeld] /\ 0 \in 0..MaxHeld
  BY MaxHeldAssumption DEF TypeOK, ManagerTypeOK
<1>2. CASE Accept(o, s, kind, qty)
  BY <1>1, <1>2 DEF Order, Status, LiveStatus, Accept
<1>3. CASE FillSellNow(o, s, qty)
  BY <1>1, <1>3, MaxHeldAssumption DEF Order, Kind, Status, FillSellNow
<1>4. CASE FillEntryNow(o, s) /\ held[s] + Lot <= MaxHeld
  BY <1>1, <1>4, MaxHeldAssumption, LotAssumption DEF Order, Kind, Status, FillEntryNow
<1> QED BY <1>2, <1>3, <1>4

LEMMA CancelType ==
  ASSUME TypeOK, NEW o \in OrderIds, CancelTakes(o) \/ CancelPends(o) \/ CancelFails(o)
  PROVE  orders' \in [OrderIds -> Order]
BY DEF TypeOK, ManagerTypeOK, Order, Kind, Status, LiveStatus, CancelTakes, CancelPends, CancelFails

\* The marks _close sets and clears, and the rows it writes, are well typed.
LEMMA EnterCloseType ==
  ASSUME TypeInv, NEW c \in Callers, NEW p \in PosIds, EnterClose(c, p)
  PROVE  /\ objs' \in [PosIds -> Object]
         /\ lock' \in [Symbols -> Callers \cup {NoCaller}]
         /\ journal' \in [Symbols -> Row \cup {NoRow}]
         /\ op' \in [Callers -> Op]
         /\ op'[c] = [pc |-> IF objs[p].stop = NoOrder THEN "close" ELSE "cancel",
                      pos |-> p, order |-> objs[p].stop]
         /\ \A d \in Callers : d # c => op'[d] = op[d]
<1>1. objs[p] \in Object
  BY DEF TypeInv, TypeOK, ManagerTypeOK
<1> DEFINE marked == [objs[p] EXCEPT !.closing = TRUE]
<1>2. marked \in Object /\ marked.stop = objs[p].stop /\ RowOf(marked) \in Row
  BY <1>1 DEF Object, Row, RowOf
<1>3. /\ objs' = [objs EXCEPT ![p] = marked]
      /\ lock' = [lock EXCEPT ![marked.sym] = c]
      /\ journal' = [journal EXCEPT ![marked.sym] = RowOf(marked)]
      /\ op' = [op EXCEPT ![c] = [pc |-> IF objs[p].stop = NoOrder THEN "close" ELSE "cancel",
                                  pos |-> p, order |-> objs[p].stop]]
  BY <1>2 DEF EnterClose
<1>4. op[c] \in Op /\ op \in [Callers -> Op]
  BY DEF TypeInv, TypeOK, ManagerTypeOK
<1>5. [pc |-> IF objs[p].stop = NoOrder THEN "close" ELSE "cancel",
       pos |-> p, order |-> objs[p].stop] \in Op
  BY <1>1 DEF Op, PC, Object
<1>6. marked.sym \in Symbols
  BY <1>2 DEF Object
<1> HIDE DEF marked
<1> QED
  BY <1>6, <1>2, <1>3, <1>4, <1>5 DEF TypeInv, TypeOK, ManagerTypeOK

LEMMA BackOffType ==
  ASSUME TypeInv, NEW c \in Callers, op[c].pos \in PosIds, BackOff(c)
  PROVE  /\ objs' \in [PosIds -> Object]
         /\ lock' \in [Symbols -> Callers \cup {NoCaller}]
         /\ journal' \in [Symbols -> Row \cup {NoRow}]
         /\ op' \in [Callers -> Op]
         /\ op'[c] = Idle
         /\ \A d \in Callers : d # c => op'[d] = op[d]
<1>1. objs[op[c].pos] \in Object
  BY DEF TypeInv, TypeOK, ManagerTypeOK
<1> DEFINE open == [objs[op[c].pos] EXCEPT !.closing = FALSE]
<1>2. open \in Object /\ RowOf(open) \in Row
  BY <1>1 DEF Object, Row, RowOf
<1>3. /\ objs' = [objs EXCEPT ![op[c].pos] = open]
      /\ lock' = [lock EXCEPT ![open.sym] = NoCaller]
      /\ journal' = [journal EXCEPT ![open.sym] = RowOf(open)]
      /\ op' = [op EXCEPT ![c] = Idle]
  BY <1>2 DEF BackOff
<1>4. Idle \in Op /\ op \in [Callers -> Op]
  BY DEF TypeInv, TypeOK, ManagerTypeOK, Idle, At, Op, PC
<1>5. open.sym \in Symbols
  BY <1>2 DEF Object
<1> HIDE DEF open
<1> QED
  BY <1>5, <1>2, <1>3, <1>4 DEF TypeInv, TypeOK, ManagerTypeOK

\* A caller that goes on to a step it has what it needs for, and leaves the
\* other callers alone, keeps OpOK and TodoOK.
LEMMA OpFrame ==
  ASSUME TypeInv, NEW c \in Callers, op' \in [Callers -> Op],
         \A d \in Callers : d # c => op'[d] = op[d] /\ recon'[d] = recon[d],
         op'[c].pc \in {"arm", "armed", "waiting", "cancel", "confirm", "close", "closed", "exit"}
           => op'[c].pos \in PosIds,
         op'[c].pc \in {"entry", "armed", "cancel", "confirm", "closed"} => op'[c].order \in OrderIds,
         op'[c].pc \in {"portfolio", "orders", "restore", "orphans"} => recon'[c] \in Recon,
         recon'[c] \in Recon => \A s \in recon'[c].todo : recon'[c].rows[s] \in Row
  PROVE  OpOK' /\ TodoOK'
BY DEF TypeInv, OpOK, TodoOK

\* A caller that has sent an order goes on with its id.
LEMMA SentType ==
  ASSUME op \in [Callers -> Op], NEW c \in Callers, NEW pc \in PC, NEW o \in OrderIds,
         op' = [op EXCEPT ![c].pc = pc, ![c].order = o]
  PROVE  /\ op' \in [Callers -> Op]
         /\ op'[c].pc = pc /\ op'[c].order = o /\ op'[c].pos = op[c].pos
         /\ \A d \in Callers : d # c => op'[d] = op[d]
<1> DEFINE next == [op[c] EXCEPT !.pc = pc, !.order = o]
<1>1. op[c] \in Op
  OBVIOUS
<1>2. next \in Op /\ next.pc = pc /\ next.order = o /\ next.pos = op[c].pos
  BY <1>1 DEF Op
<1>3. op' = [op EXCEPT ![c] = next]
  BY <1>1
<1> HIDE DEF next
<1> QED
  BY <1>2, <1>3

LEMMA BackOffKeepsTypes ==
  ASSUME TypeInv, NEW c \in Callers, op[c].pos \in PosIds,
         BackOff(c), UNCHANGED <<brokerVars, cooling>>
  PROVE  TypeInv'
<1>1. OpOK' /\ TodoOK'
  BY BackOffType, OpFrame DEF BackOff, TypeInv, TypeOK, ManagerTypeOK, TodoOK, Idle, At
<1> QED
  BY <1>1, BackOffType DEF BackOff, TypeInv, TypeOK, ManagerTypeOK

LEMMA BeginCloseTypeStep ==
  ASSUME TypeInv, NEW c \in Callers, NEW s \in Symbols, BeginClose(c, s)
  PROVE  TypeInv'
<1>1. tracked[s] \in PosIds
  BY DEF BeginClose, TypeInv, TypeOK, ManagerTypeOK
<1>2. CASE EnterClose(c, tracked[s])
  <2>1. /\ objs' \in [PosIds -> Object]
        /\ lock' \in [Symbols -> Callers \cup {NoCaller}]
        /\ journal' \in [Symbols -> Row \cup {NoRow}]
        /\ op' \in [Callers -> Op]
        /\ op'[c] = [pc |-> IF objs[tracked[s]].stop = NoOrder THEN "close" ELSE "cancel",
                     pos |-> tracked[s], order |-> objs[tracked[s]].stop]
        /\ \A d \in Callers : d # c => op'[d] = op[d]
    BY <1>1, <1>2, EnterCloseType
  <2>2. UNCHANGED recon /\ objs[tracked[s]].stop \in OrderIds \cup {NoOrder}
    BY <1>1 DEF BeginClose, TypeInv, TypeOK, ManagerTypeOK, Object
  <2>3. OpOK' /\ TodoOK'
    BY <1>1, <2>1, <2>2, OpFrame DEF TypeInv, TodoOK
  <2> QED
    BY <1>2, <2>1, <2>3 DEF BeginClose, EnterClose, TypeInv, TypeOK, ManagerTypeOK
<1>3. CASE ~EnterClose(c, tracked[s])
  <2>1. op' = [op EXCEPT ![c] = Holding("waiting", tracked[s])]
    BY <1>3 DEF BeginClose
  <2>2. op' \in [Callers -> Op]
    BY <1>1, <2>1 DEF TypeInv, TypeOK, ManagerTypeOK, Op, PC
  <2>3. OpOK' /\ TodoOK'
    BY <1>1, <2>1, <2>2, OpFrame DEF BeginClose, TypeInv, TodoOK
  <2> QED
    BY <1>3, <2>2, <2>3 DEF BeginClose, TypeInv, TypeOK, ManagerTypeOK
<1> QED
  BY <1>2, <1>3

LEMMA CloseTypeStep ==
  ASSUME TypeInv, NEW c \in Callers, CloseStep(c)
  PROVE  TypeInv'
<1>0. op[c] \in Op /\ (op[c].pos \in PosIds => SymOf(c) \in Symbols /\ objs[op[c].pos].qty \in 0..MaxHeld)
  BY DEF TypeInv, TypeOK, ManagerTypeOK, SymOf, Object, Op
<1>1. ASSUME NEW s \in Symbols, BeginClose(c, s)
      PROVE  TypeInv'
  BY <1>1, BeginCloseTypeStep
<1>2. ASSUME Acquire(c)
      PROVE  TypeInv'
  <2>1. op[c].pos \in PosIds
    BY <1>2 DEF Acquire, TypeInv, OpOK
  <2>2. CASE EnterClose(c, op[c].pos)
    <3>1. /\ objs' \in [PosIds -> Object]
          /\ lock' \in [Symbols -> Callers \cup {NoCaller}]
          /\ journal' \in [Symbols -> Row \cup {NoRow}]
          /\ op' \in [Callers -> Op]
          /\ op'[c] = [pc |-> IF objs[op[c].pos].stop = NoOrder THEN "close" ELSE "cancel",
                       pos |-> op[c].pos, order |-> objs[op[c].pos].stop]
          /\ \A d \in Callers : d # c => op'[d] = op[d]
      BY <2>1, <2>2, EnterCloseType
    <3>2. UNCHANGED recon /\ objs[op[c].pos].stop \in OrderIds \cup {NoOrder}
      BY <1>2, <2>1 DEF Acquire, TypeInv, TypeOK, ManagerTypeOK, Object
    <3>3. OpOK' /\ TodoOK'
      BY <2>1, <3>1, <3>2, OpFrame DEF TypeInv, TodoOK
    <3> QED
      BY <1>2, <2>2, <3>1, <3>3 DEF Acquire, EnterClose, TypeInv, TypeOK, ManagerTypeOK
  <2>3. CASE ~EnterClose(c, op[c].pos)
    <3>1. op' = [op EXCEPT ![c] = Idle]
      BY <1>2, <2>3 DEF Acquire
    <3>2. op' \in [Callers -> Op]
      BY <3>1 DEF TypeInv, TypeOK, ManagerTypeOK, Op, PC, Idle, At
    <3>3. OpOK' /\ TodoOK'
      BY <1>2, <3>1, <3>2, OpFrame DEF Acquire, TypeInv, TodoOK, Idle, At
    <3> QED
      BY <1>2, <2>3, <3>2, <3>3 DEF Acquire, TypeInv, TypeOK, ManagerTypeOK
  <2> QED
    BY <2>2, <2>3
<1>3. ASSUME Cancel(c)
      PROVE  TypeInv'
  <2>1. op[c].order \in OrderIds /\ op[c].pos \in PosIds
    BY <1>3 DEF Cancel, TypeInv, OpOK
  <2>2. orders' \in [OrderIds -> Order]
    BY <1>3, <2>1, CancelType DEF Cancel, TypeInv
  <2>3. op' \in [Callers -> Op]
    BY <1>3 DEF Cancel, TypeInv, TypeOK, ManagerTypeOK, Op, PC
  <2>4. OpOK' /\ TodoOK'
    BY <1>3, <2>1, <2>3, OpFrame DEF Cancel, TypeInv, TypeOK, ManagerTypeOK, TodoOK, Op
  <2> QED
    BY <1>3, <2>2, <2>3, <2>4 DEF Cancel, TypeInv, TypeOK, ManagerTypeOK
<1>4. ASSUME Confirmed(c)
      PROVE  TypeInv'
  <2>1. op' \in [Callers -> Op]
    BY <1>4 DEF Confirmed, TypeInv, TypeOK, ManagerTypeOK, Op, PC
  <2>2. OpOK' /\ TodoOK'
    BY <1>4, <2>1, OpFrame DEF Confirmed, TypeInv, TypeOK, ManagerTypeOK, OpOK, TodoOK, Op
  <2> QED
    BY <1>4, <2>1, <2>2 DEF Confirmed, TypeInv, TypeOK, ManagerTypeOK
<1>5. ASSUME Unconfirmed(c)
      PROVE  TypeInv'
  <2>1. op[c].pos \in PosIds
    BY <1>5 DEF Unconfirmed, TypeInv, OpOK
  <2>2. BackOff(c) /\ UNCHANGED <<brokerVars, cooling>>
    BY <1>5 DEF Unconfirmed
  <2> QED
    BY <2>1, <2>2, BackOffKeepsTypes
<1>6. ASSUME SubmitClose(c)
      PROVE  TypeInv'
  <2>1. op[c].pos \in PosIds
    BY <1>6 DEF SubmitClose, TypeInv, OpOK
  <2>2. PICK o \in OrderIds :
          /\ \/ FillSellNow(o, SymOf(c), objs[op[c].pos].qty)
             \/ Accept(o, SymOf(c), "sell", objs[op[c].pos].qty)
          /\ op' = [op EXCEPT ![c].pc = "closed", ![c].order = o]
    BY <1>6 DEF SubmitClose, FreeOrders
  <2>3. orders' \in [OrderIds -> Order] /\ held' \in [Symbols -> 0..MaxHeld]
    BY <1>0, <2>1, <2>2, SubmitType DEF TypeInv, Kind
  <2>4. op' \in [Callers -> Op]
    BY <2>2, SentType DEF TypeInv, TypeOK, ManagerTypeOK, PC
  <2>5. OpOK' /\ TodoOK'
    BY <1>6, <2>1, <2>2, <2>4, OpFrame DEF SubmitClose, TypeInv, TypeOK, ManagerTypeOK, TodoOK, Op
  <2> QED
    BY <1>6, <2>3, <2>4, <2>5 DEF SubmitClose, TypeInv, TypeOK, ManagerTypeOK
<1>7. ASSUME CloseRefused(c)
      PROVE  TypeInv'
  <2>1. op[c].pos \in PosIds
    BY <1>7 DEF CloseRefused, TypeInv, OpOK
  <2>2. BackOff(c) /\ UNCHANGED <<brokerVars, cooling>>
    BY <1>7 DEF CloseRefused
  <2> QED
    BY <2>1, <2>2, BackOffKeepsTypes
<1>8. ASSUME CloseReplied(c)
      PROVE  TypeInv'
  <2>1. op[c].pos \in PosIds
    BY <1>8 DEF CloseReplied, TypeInv, OpOK
  <2>2. op' = [op EXCEPT ![c] = Holding("exit", op[c].pos)] /\ UNCHANGED recon
    BY <1>8 DEF CloseReplied
  <2>3. op' \in [Callers -> Op]
    BY <2>1, <2>2 DEF TypeInv, TypeOK, ManagerTypeOK, Op, PC
  <2>4. OpOK' /\ TodoOK'
    BY <2>1, <2>2, <2>3, OpFrame DEF TypeInv, TypeOK, ManagerTypeOK, TodoOK
  <2>5. /\ tracked' \in [Symbols -> PosIds \cup {NoPos}]
        /\ journal' \in [Symbols -> Row \cup {NoRow}]
        /\ cooling' \subseteq Symbols
    BY <1>0, <1>8, <2>1 DEF CloseReplied, TypeInv, TypeOK, ManagerTypeOK
  <2> QED
    BY <1>8, <2>3, <2>4, <2>5 DEF CloseReplied, TypeInv, TypeOK, ManagerTypeOK
<1>9. ASSUME CloseReplyLost(c)
      PROVE  TypeInv'
  <2>1. op[c].pos \in PosIds
    BY <1>9 DEF CloseReplyLost, TypeInv, OpOK
  <2>2. BackOff(c) /\ UNCHANGED <<brokerVars, cooling>>
    BY <1>9 DEF CloseReplyLost
  <2> QED
    BY <2>1, <2>2, BackOffKeepsTypes
<1>10. ASSUME ExitReported(c)
      PROVE  TypeInv'
  <2>1. op' \in [Callers -> Op]
    BY <1>10 DEF ExitReported, TypeInv, TypeOK, ManagerTypeOK, Op, PC, Idle, At
  <2>2. OpOK' /\ TodoOK'
    BY <1>10, <2>1, OpFrame DEF ExitReported, TypeInv, TypeOK, ManagerTypeOK, OpOK, TodoOK, Op, Idle, At
  <2> QED
    BY <1>10, <2>1, <2>2, <1>0 DEF ExitReported, TypeInv, TypeOK, ManagerTypeOK, Idle, At
<1>11. ASSUME ExitRaised(c)
      PROVE  TypeInv'
  <2>1. op[c].pos \in PosIds
    BY <1>11 DEF ExitRaised, TypeInv, OpOK
  <2>2. BackOff(c) /\ UNCHANGED <<brokerVars, cooling>>
    BY <1>11 DEF ExitRaised
  <2> QED
    BY <2>1, <2>2, BackOffKeepsTypes
<1> QED
  BY <1>1, <1>2, <1>3, <1>4, <1>5, <1>6, <1>7, <1>8, <1>9, <1>10, <1>11 DEF CloseStep, OnPrice

LEMMA ArmTypeStep ==
  ASSUME TypeInv, NEW c \in Callers, ArmStep(c)
  PROVE  TypeInv'
<1>1. op[c].pos \in PosIds /\ objs[op[c].pos] \in Object
  BY DEF ArmStep, SubmitStop, StopRefused, StopReplied, StopReplyLost, TypeInv, OpOK, TypeOK,
         ManagerTypeOK
<1>2. CASE SubmitStop(c)
  <2>1. PICK o \in OrderIds :
          /\ Accept(o, SymOf(c), "stop", objs[op[c].pos].qty)
          /\ op' = [op EXCEPT ![c].pc = "armed", ![c].order = o]
    BY <1>2 DEF SubmitStop, FreeOrders
  <2>2. orders' \in [OrderIds -> Order] /\ held' \in [Symbols -> 0..MaxHeld]
    BY <1>1, <2>1, SubmitType DEF TypeInv, Kind, SymOf, Object
  <2>3. op' \in [Callers -> Op]
    BY <2>1, SentType DEF TypeInv, TypeOK, ManagerTypeOK, PC
  <2>4. OpOK' /\ TodoOK'
    BY <1>1, <1>2, <2>1, <2>3, OpFrame DEF SubmitStop, TypeInv, TypeOK, ManagerTypeOK, TodoOK, Op
  <2> QED
    BY <1>2, <2>2, <2>3, <2>4 DEF SubmitStop, TypeInv, TypeOK, ManagerTypeOK
<1>3. ASSUME NEW obj \in Object, AfterArm(c, obj)
      PROVE  TypeInv'
  <2>1. PICK next \in Op : /\ op' = [op EXCEPT ![c] = next]
                           /\ \/ next = Idle
                              \/ next = At("restore") /\ recon[c] \in Recon
    BY <1>3 DEF AfterArm, TypeInv, TypeOK, ManagerTypeOK, Op, PC, Idle, At
  <2>2. op' \in [Callers -> Op]
    BY <2>1 DEF TypeInv, TypeOK, ManagerTypeOK
  <2>3. OpOK' /\ TodoOK'
    BY <1>3, <2>1, <2>2, OpFrame DEF AfterArm, TypeInv, TypeOK, ManagerTypeOK, TodoOK, Idle, At
  <2>4. RowOf(obj) \in Row /\ obj.sym \in Symbols
    BY DEF RowOf, Row, Object
  <2> QED
    BY <1>1, <1>3, <2>2, <2>3, <2>4 DEF AfterArm, TypeInv, TypeOK, ManagerTypeOK
<1>4. CASE StopReplied(c)
  <2>1. [objs[op[c].pos] EXCEPT !.stop = op[c].order] \in Object
    BY <1>1, <1>4 DEF StopReplied, TypeInv, OpOK, Object
  <2> QED
    BY <1>3, <1>4, <2>1 DEF StopReplied
<1> QED
  BY <1>1, <1>2, <1>3, <1>4 DEF ArmStep, StopRefused, StopReplyLost

LEMMA ReconcileTypeStep ==
  ASSUME TypeInv, NEW c \in Callers, ReconcileStep(c)
  PROVE  TypeInv'
<1>1. ASSUME LoadRows(c)
      PROVE  TypeInv'
  <2>1. [rows |-> journal, held |-> [s \in Symbols |-> 0], open |-> {},
         todo |-> {s \in Symbols : journal[s] # NoRow}] \in Recon
    BY MaxHeldAssumption DEF Recon, TypeInv, TypeOK, ManagerTypeOK
  <2>2. op' \in [Callers -> Op] /\ recon' \in [Callers -> Recon \cup {NoRecon}]
    BY <1>1, <2>1 DEF LoadRows, TypeInv, TypeOK, ManagerTypeOK, Op, PC, At
  <2>3. OpOK' /\ TodoOK'
    BY <1>1, <2>1, <2>2, OpFrame DEF LoadRows, TypeInv, TypeOK, ManagerTypeOK, At
  <2> QED
    BY <1>1, <2>2, <2>3 DEF LoadRows, TypeInv, TypeOK, ManagerTypeOK
<1>2. ASSUME GotPortfolio(c)
      PROVE  TypeInv'
  <2>1. recon[c] \in Recon
    BY <1>2 DEF GotPortfolio, TypeInv, OpOK
  <2> DEFINE r == [recon[c] EXCEPT !.held = held]
  <2>2. /\ r \in Recon /\ recon' = [recon EXCEPT ![c] = r]
        /\ r.rows = recon[c].rows /\ r.todo = recon[c].todo
    BY <1>2, <2>1 DEF GotPortfolio, TypeInv, TypeOK, ManagerTypeOK, Recon
  <2> HIDE DEF r
  <2>3. op' \in [Callers -> Op] /\ recon' \in [Callers -> Recon \cup {NoRecon}]
    BY <1>2, <2>2 DEF GotPortfolio, TypeInv, TypeOK, ManagerTypeOK, Op, PC, At
  <2>4. OpOK' /\ TodoOK'
    BY <1>2, <2>1, <2>2, <2>3, OpFrame DEF GotPortfolio, TypeInv, TypeOK, ManagerTypeOK, TodoOK, At
  <2> QED
    BY <1>2, <2>3, <2>4 DEF GotPortfolio, TypeInv, TypeOK, ManagerTypeOK
<1>3. ASSUME ReconcileFailed(c) \/ ReconcileDone(c)
      PROVE  TypeInv'
  <2>1. op' = [op EXCEPT ![c] = Idle] /\ recon' = [recon EXCEPT ![c] = NoRecon]
    BY <1>3 DEF ReconcileFailed, ReconcileDone
  <2>2. op' \in [Callers -> Op] /\ recon' \in [Callers -> Recon \cup {NoRecon}]
    BY <2>1 DEF TypeInv, TypeOK, ManagerTypeOK, Op, PC, Idle, At
  <2>3. OpOK' /\ TodoOK'
    BY <2>1, <2>2, OpFrame, NullAssumption DEF TypeInv, TypeOK, ManagerTypeOK, Idle, At
  <2> QED
    BY <1>3, <2>2, <2>3 DEF ReconcileFailed, ReconcileDone, TypeInv, TypeOK, ManagerTypeOK
<1>4. ASSUME GotOrders(c)
      PROVE  TypeInv'
  <2>1. recon[c] \in Recon
    BY <1>4 DEF GotOrders, TypeInv, OpOK
  <2>2. PICK r \in Recon : /\ recon' = [recon EXCEPT ![c] = r]
                          /\ r.rows = recon[c].rows /\ r.todo = recon[c].todo
    BY <1>4, <2>1 DEF GotOrders, TypeInv, TypeOK, ManagerTypeOK, Recon, LiveStops, LiveOf
  <2>3. op' \in [Callers -> Op] /\ recon' \in [Callers -> Recon \cup {NoRecon}]
    BY <1>4, <2>2 DEF GotOrders, TypeInv, TypeOK, ManagerTypeOK, Op, PC, At
  <2>4. OpOK' /\ TodoOK'
    BY <1>4, <2>1, <2>2, <2>3, OpFrame DEF GotOrders, TypeInv, TypeOK, ManagerTypeOK, TodoOK, At
  <2> QED
    BY <1>4, <2>3, <2>4 DEF GotOrders, TypeInv, TypeOK, ManagerTypeOK
<1>5. ASSUME NEW s \in Symbols, NEW r \in Recon, op[c].pc = "restore",
             recon[c] \in Recon, recon' = [recon EXCEPT ![c] = r],
             r.rows = recon[c].rows, r.todo \subseteq recon[c].todo,
             op' = op \/ (\E p \in PosIds : op' = [op EXCEPT ![c] = Holding("arm", p)])
      PROVE  /\ op' \in [Callers -> Op] /\ recon' \in [Callers -> Recon \cup {NoRecon}]
             /\ OpOK' /\ TodoOK'
  <2>1. op' \in [Callers -> Op] /\ recon' \in [Callers -> Recon \cup {NoRecon}]
    BY <1>5 DEF TypeInv, TypeOK, ManagerTypeOK, Op, PC
  <2>2. OpOK' /\ TodoOK'
    BY <1>5, <2>1, OpFrame DEF TypeInv, TypeOK, ManagerTypeOK, TodoOK
  <2> QED
    BY <2>1, <2>2
<1>6. ASSUME NEW s \in Symbols, op[c].pc = "restore", recon' = Handled(c, s)
      PROVE  \E r \in Recon : /\ recon[c] \in Recon /\ recon' = [recon EXCEPT ![c] = r]
                             /\ r.rows = recon[c].rows /\ r.todo \subseteq recon[c].todo
  <2>1. recon[c] \in Recon
    BY <1>6 DEF TypeInv, OpOK
  <2> DEFINE r == [recon[c] EXCEPT !.todo = @ \ {s}]
  <2>2. r \in Recon /\ r.rows = recon[c].rows /\ r.todo \subseteq recon[c].todo
    BY <2>1 DEF Recon
  <2>3. recon' = [recon EXCEPT ![c] = r]
    BY <1>6 DEF Handled, TypeInv, TypeOK, ManagerTypeOK
  <2> QED
    BY <2>1, <2>2, <2>3
<1>7. ASSUME NEW s \in Symbols, DropRow(c, s)
      PROVE  TypeInv'
  <2>1. /\ op' \in [Callers -> Op] /\ recon' \in [Callers -> Recon \cup {NoRecon}]
        /\ OpOK' /\ TodoOK'
    BY <1>5, <1>6, <1>7 DEF DropRow
  <2> QED
    BY <1>7, <2>1 DEF DropRow, TypeInv, TypeOK, ManagerTypeOK
<1>8. ASSUME NEW s \in Symbols, RestoreRow(c, s)
      PROVE  TypeInv'
  <2> DEFINE obj == [sym |-> s, qty |-> recon[c].held[s], stop |-> recon[c].rows[s].stop,
                     closing |-> FALSE]
  <2>1. recon[c] \in Recon /\ recon[c].rows[s] \in Row
    BY <1>8 DEF RestoreRow, TypeInv, OpOK, TodoOK
  <2>2. obj \in Object /\ RowOf(obj) \in Row
    BY <2>1 DEF Recon, Row, Object, RowOf
  <2>3. PICK p \in PosIds :
          /\ objs' = [objs EXCEPT ![p] = obj]
          /\ tracked' = [tracked EXCEPT ![s] = p]
          /\ op' = op \/ op' = [op EXCEPT ![c] = Holding("arm", p)]
          /\ journal' = journal \/ journal' = [journal EXCEPT ![s] = RowOf(obj)]
    BY <1>8 DEF RestoreRow, FreePos
  <2>4. /\ op' \in [Callers -> Op] /\ recon' \in [Callers -> Recon \cup {NoRecon}]
        /\ OpOK' /\ TodoOK'
    BY <1>5, <1>6, <1>8, <2>3 DEF RestoreRow
  <2> HIDE DEF obj
  <2> QED
    <3>1. UNCHANGED <<brokerVars, lock, cooling>>
      BY <1>8 DEF RestoreRow
    <3> QED
      BY <2>2, <2>3, <2>4, <3>1 DEF TypeInv, TypeOK, ManagerTypeOK
<1>9. ASSUME FindOrphans(c)
      PROVE  TypeInv'
  <2>1. recon[c] \in Recon
    BY <1>9 DEF FindOrphans, TypeInv, OpOK
  <2> DEFINE r == [recon[c] EXCEPT !.open = @ \ TrackedStops]
  <2>2. /\ r \in Recon /\ recon' = [recon EXCEPT ![c] = r]
        /\ r.rows = recon[c].rows /\ r.todo = recon[c].todo
    BY <1>9, <2>1 DEF FindOrphans, TypeInv, TypeOK, ManagerTypeOK, Recon
  <2> HIDE DEF r
  <2>3. /\ op' \in [Callers -> Op] /\ recon' \in [Callers -> Recon \cup {NoRecon}]
        /\ op'[c].pc = "orphans" /\ recon'[c] = r
        /\ \A d \in Callers : d # c => op'[d] = op[d] /\ recon'[d] = recon[d]
    <3>1. At("orphans") \in Op /\ At("orphans").pc = "orphans"
      BY DEF Op, PC, At
    <3>2. op' = [op EXCEPT ![c] = At("orphans")]
      BY <1>9 DEF FindOrphans
    <3> QED
      BY <2>2, <3>1, <3>2 DEF TypeInv, TypeOK, ManagerTypeOK
  <2>4. OpOK' /\ TodoOK'
    BY <2>1, <2>2, <2>3, OpFrame DEF TypeInv, TodoOK
  <2> QED
    BY <1>9, <2>3, <2>4 DEF FindOrphans, TypeInv, TypeOK, ManagerTypeOK
<1>10. ASSUME NEW o \in OrderIds, CancelOrphan(c, o)
       PROVE  TypeInv'
  <2>1. recon[c] \in Recon
    BY <1>10 DEF CancelOrphan, TypeInv, OpOK
  <2> DEFINE r == [recon[c] EXCEPT !.open = @ \ {o}]
  <2>2. /\ r \in Recon /\ recon' = [recon EXCEPT ![c] = r]
        /\ r.rows = recon[c].rows /\ r.todo = recon[c].todo
    BY <1>10, <2>1 DEF CancelOrphan, TypeInv, TypeOK, ManagerTypeOK, Recon
  <2> HIDE DEF r
  <2>3. recon' \in [Callers -> Recon \cup {NoRecon}] /\ op' \in [Callers -> Op]
    BY <1>10, <2>2 DEF CancelOrphan, TypeInv, TypeOK, ManagerTypeOK
  <2>5. OpOK' /\ TodoOK'
    <3>1. op[c].pc = "orphans" /\ op' = op
      BY <1>10 DEF CancelOrphan
    <3>2. recon'[c] = r /\ \A d \in Callers : d # c => recon'[d] = recon[d]
      BY <2>2 DEF TypeInv, TypeOK, ManagerTypeOK
    <3> QED
      BY <2>1, <2>2, <2>3, <3>1, <3>2 DEF TypeInv, OpOK, TodoOK
  <2>4. orders' \in [OrderIds -> Order]
    BY <1>10, CancelType DEF CancelOrphan, TypeInv
  <2> QED
    BY <1>10, <2>3, <2>4, <2>5 DEF CancelOrphan, TypeInv, TypeOK, ManagerTypeOK
<1> QED
  BY <1>1, <1>2, <1>3, <1>4, <1>7, <1>8, <1>9, <1>10 DEF ReconcileStep

LEMMA ExecuteTypeStep ==
  ASSUME TypeInv, NEW c \in Callers, ExecuteStep(c)
  PROVE  TypeInv'
<1>1. ASSUME NEW s \in Symbols, SubmitEntry(c, s)
      PROVE  TypeInv'
  <2>1. PICK o \in OrderIds :
          /\ (FillEntryNow(o, s) /\ held[s] + Lot <= MaxHeld) \/ Accept(o, s, "entry", Lot)
          /\ op' = [op EXCEPT ![c] = [pc |-> "entry", pos |-> NoPos, order |-> o]]
    BY <1>1 DEF SubmitEntry, MayBuy, FreeOrders
  <2>2. orders' \in [OrderIds -> Order] /\ held' \in [Symbols -> 0..MaxHeld]
    BY <2>1, SubmitType, LotAssumption, MaxHeldAssumption DEF TypeInv, Kind
  <2>3. op' \in [Callers -> Op]
    BY <2>1 DEF TypeInv, TypeOK, ManagerTypeOK, Op, PC
  <2>4. OpOK' /\ TodoOK'
    BY <1>1, <2>1, <2>3, OpFrame DEF SubmitEntry, TypeInv, TypeOK, ManagerTypeOK, TodoOK
  <2> QED
    BY <1>1, <2>2, <2>3, <2>4 DEF SubmitEntry, TypeInv, TypeOK, ManagerTypeOK
<1>2. ASSUME NEW s \in Symbols, SellUntracked(c, s)
      PROVE  TypeInv'
  <2>1. orders' \in [OrderIds -> Order] /\ held' \in [Symbols -> 0..MaxHeld]
    BY <1>2, SubmitType DEF SellUntracked, FreeOrders, TypeInv, TypeOK, ManagerTypeOK, Kind
  <2> QED
    BY <1>2, <2>1 DEF SellUntracked, TypeInv, TypeOK, ManagerTypeOK, OpOK, TodoOK
<1>3. ASSUME EntryReplied(c)
      PROVE  TypeInv'
  <2>1. orders[op[c].order].sym \in Symbols
    BY <1>3 DEF EntryReplied, TypeInv, OpOK, TypeOK, ManagerTypeOK, Order
  <2>2. CASE orders[op[c].order].status = "filled"
    <3>1. PICK p \in PosIds :
            /\ objs' = [objs EXCEPT ![p] = [sym |-> orders[op[c].order].sym, qty |-> Lot,
                                            stop |-> NoOrder, closing |-> FALSE]]
            /\ tracked' = [tracked EXCEPT ![orders[op[c].order].sym] = p]
            /\ op' = [op EXCEPT ![c] = Holding("arm", p)]
      BY <1>3, <2>2 DEF EntryReplied, Protect, FreePos
    <3>2. objs' \in [PosIds -> Object] /\ tracked' \in [Symbols -> PosIds \cup {NoPos}]
      BY <2>1, <3>1, LotAssumption, MaxHeldAssumption DEF TypeInv, TypeOK, ManagerTypeOK, Object
    <3>3. op' \in [Callers -> Op]
      BY <3>1 DEF TypeInv, TypeOK, ManagerTypeOK, Op, PC
    <3>4. OpOK' /\ TodoOK'
      BY <1>3, <3>1, <3>3, OpFrame DEF EntryReplied, TypeInv, TypeOK, ManagerTypeOK, TodoOK
    <3> QED
      BY <1>3, <3>2, <3>3, <3>4 DEF EntryReplied, TypeInv, TypeOK, ManagerTypeOK
  <2>3. CASE orders[op[c].order].status # "filled"
    <3>1. op' \in [Callers -> Op]
      BY <1>3, <2>3 DEF EntryReplied, TypeInv, TypeOK, ManagerTypeOK, Op, PC, Idle, At
    <3>2. OpOK' /\ TodoOK'
      BY <1>3, <2>3, <3>1, OpFrame DEF EntryReplied, TypeInv, TypeOK, ManagerTypeOK, TodoOK, Idle, At
    <3> QED
      BY <1>3, <2>3, <3>1, <3>2 DEF EntryReplied, TypeInv, TypeOK, ManagerTypeOK
  <2> QED
    BY <2>2, <2>3
<1>4. ASSUME EntryReplyLost(c)
      PROVE  TypeInv'
  <2>1. op' \in [Callers -> Op]
    BY <1>4 DEF EntryReplyLost, TypeInv, TypeOK, ManagerTypeOK, Op, PC, Idle, At
  <2>2. OpOK' /\ TodoOK'
    BY <1>4, <2>1, OpFrame DEF EntryReplyLost, TypeInv, TypeOK, ManagerTypeOK, OpOK, TodoOK, Op, Idle, At
  <2> QED
    BY <1>4, <2>1, <2>2 DEF EntryReplyLost, TypeInv, TypeOK, ManagerTypeOK, Idle, At
<1> QED
  BY <1>1, <1>2, <1>3, <1>4, BeginCloseTypeStep DEF ExecuteStep, SellTracked

LEMMA TypeStep == TypeInv /\ [Next]_vars => TypeInv'
<1> SUFFICES ASSUME TypeInv, [Next]_vars PROVE TypeInv'
  OBVIOUS
<1>1. ASSUME NEW c \in Callers, CallerStep(c)
      PROVE  TypeInv'
  BY <1>1, CloseTypeStep, ArmTypeStep, ReconcileTypeStep, ExecuteTypeStep DEF CallerStep
<1>2. CASE VenueStep /\ UNCHANGED managerVars
  <2>1. /\ orders' \in [OrderIds -> Order]
        /\ held' \in [Symbols -> 0..MaxHeld]
        /\ price' \in [Symbols -> Level]
    BY <1>2, VenueType DEF TypeInv
  <2> QED
    BY <1>2, <2>1 DEF TypeInv, TypeOK, ManagerTypeOK, OpOK, TodoOK
<1>3. ASSUME NEW s \in Symbols, CooldownEnds(s)
      PROVE  TypeInv'
  BY <1>3 DEF CooldownEnds, TypeInv, TypeOK, ManagerTypeOK, OpOK, TodoOK
<1>4. CASE Crash
  <2>1. (CHOOSE s \in Symbols : TRUE) \in Symbols
    BY SymbolsAssumption
  <2>2. objs' \in [PosIds -> Object]
    BY <1>4, <2>1, MaxHeldAssumption DEF Crash, Object
  <2>3. op' \in [Callers -> Op] /\ OpOK' /\ TodoOK'
    BY <1>4, NullAssumption DEF Crash, Op, PC, At, Idle, OpOK, TodoOK
  <2> QED
    BY <1>4, <2>2, <2>3 DEF Crash, TypeInv, TypeOK, ManagerTypeOK
<1>5. CASE UNCHANGED vars
  BY <1>5 DEF TypeInv, TypeOK, ManagerTypeOK, OpOK, TodoOK
<1> QED
  BY <1>1, <1>2, <1>3, <1>4, <1>5 DEF Next

LEMMA TypeInvariant == Spec => []TypeInv
<1> QED
  BY TypeInit, TypeStep, PTL DEF Spec

\* Every reachable state of the desk is well typed: quantities stay between
\* nothing and the bound, however the venue fills, refuses, delays or loses
\* what StopManager and ExecutionEngine send it.
THEOREM TypeCorrect == Spec => []TypeOK
<1>1. TypeInv => TypeOK
  BY DEF TypeInv
<1> QED
  BY <1>1, TypeInvariant, PTL

-----------------------------------------------------------------------------
(* The closing flag and the lock.  CloseHasOwner is not inductive: that the *)
(* flag is cleared with the lock held, and that a closed object is never    *)
(* tracked again, are what carry it over a step.                            *)

CloseInv ==
  /\ \A s \in Symbols : tracked[s] # NoPos => objs[tracked[s]].sym = s
  /\ \A c \in Callers : Closing(c) => lock[SymOf(c)] = c
  /\ \A c \in Callers : op[c].pc = "exit" => \A s \in Symbols : tracked[s] # op[c].pos
  /\ \A s \in Symbols : tracked[s] # NoPos /\ objs[tracked[s]].closing
       => \E c \in Callers : Closing(c) /\ op[c].pos = tracked[s]

LEMMA ClosingHasPos ==
  ASSUME TypeInv, NEW c \in Callers, Closing(c)
  PROVE  op[c].pos \in PosIds /\ SymOf(c) \in Symbols
BY DEF TypeInv, TypeOK, ManagerTypeOK, OpOK, Closing, SymOf, Object

\* A step that leaves the objects, positions and locks alone, and no caller
\* enters or leaves _close, or reaches its end.
LEMMA QuietStep ==
  ASSUME TypeInv, CloseInv, UNCHANGED <<objs, tracked, lock>>,
         \A d \in Callers : /\ Closing(d)' <=> Closing(d)
                            /\ Closing(d) => op'[d].pos = op[d].pos
                            /\ op'[d].pc = "exit" => op[d].pc = "exit"
  PROVE  CloseInv'
<1>1. \A s \in Symbols : tracked'[s] # NoPos => objs'[tracked'[s]].sym = s
  BY DEF CloseInv
<1>2. \A d \in Callers : Closing(d)' => lock'[SymOf(d)'] = d
  BY DEF CloseInv, SymOf
<1>3. \A d \in Callers : op'[d].pc = "exit" => \A s \in Symbols : tracked'[s] # op'[d].pos
  <2>1. \A d \in Callers : op'[d].pc = "exit" => op[d].pc = "exit" /\ op'[d].pos = op[d].pos
    BY DEF Closing
  <2> QED
    BY <2>1 DEF CloseInv
<1>4. ASSUME NEW s \in Symbols, tracked'[s] # NoPos, objs'[tracked'[s]].closing
      PROVE  \E d \in Callers : Closing(d)' /\ op'[d].pos = tracked'[s]
  BY <1>4 DEF CloseInv
<1> QED
  BY <1>1, <1>2, <1>3, <1>4 DEF CloseInv

LEMMA EnterCloseOwner ==
  ASSUME TypeInv, CloseInv, NEW c \in Callers, NEW p \in PosIds, ~Closing(c),
         lock[objs[p].sym] = NoCaller, EnterClose(c, p)
  PROVE  CloseInv'
<1>1. objs[p] \in Object
  BY DEF TypeInv, TypeOK, ManagerTypeOK
<1>2. /\ objs' = [objs EXCEPT ![p] = [objs[p] EXCEPT !.closing = TRUE]]
      /\ lock' = [lock EXCEPT ![objs[p].sym] = c]
      /\ tracked' = tracked
  BY <1>1 DEF EnterClose, Object
<1>3. /\ op'[c].pc \in {"close", "cancel"} /\ op'[c].pos = p
      /\ \A d \in Callers : d # c => op'[d] = op[d]
  <2>1. op'[c] = [pc |-> IF objs[p].stop = NoOrder THEN "close" ELSE "cancel",
                  pos |-> p, order |-> objs[p].stop]
    BY EnterCloseType
  <2>2. \A d \in Callers : d # c => op'[d] = op[d]
    BY EnterCloseType
  <2> QED
    BY <2>1, <2>2
<1>4. \A q \in PosIds : objs'[q].sym = objs[q].sym /\ (q # p => objs'[q] = objs[q])
  BY <1>1, <1>2 DEF TypeInv, TypeOK, ManagerTypeOK, Object
<1>5. \A s \in Symbols : tracked'[s] # NoPos => objs'[tracked'[s]].sym = s
  BY <1>2, <1>4 DEF CloseInv, TypeInv, TypeOK, ManagerTypeOK
<1>6. ASSUME NEW d \in Callers, Closing(d)'
      PROVE  lock'[SymOf(d)'] = d
  <2>1. CASE d = c
    BY <1>1, <1>2, <1>3, <1>4, <2>1 DEF SymOf, Object, TypeInv, TypeOK, ManagerTypeOK
  <2>2. CASE d # c
    <3>1. Closing(d) /\ op'[d].pos = op[d].pos
      BY <1>3, <1>6, <2>2 DEF Closing
    <3>2. lock[SymOf(d)] = d /\ op[d].pos \in PosIds /\ SymOf(d) \in Symbols
      BY <3>1, ClosingHasPos DEF CloseInv
    <3>3. SymOf(d) # objs[p].sym
      BY <3>2, NullAssumption
    <3>4. SymOf(d)' = SymOf(d)
      BY <1>4, <3>1, <3>2 DEF SymOf
    <3> QED
      BY <1>1, <1>2, <3>2, <3>3, <3>4 DEF TypeInv, TypeOK, ManagerTypeOK, Object
  <2> QED
    BY <2>1, <2>2
<1>7. \A d \in Callers : op'[d].pc = "exit" => \A s \in Symbols : tracked'[s] # op'[d].pos
  BY <1>2, <1>3 DEF CloseInv
<1>8. ASSUME NEW s \in Symbols, tracked'[s] # NoPos, objs'[tracked'[s]].closing
      PROVE  \E d \in Callers : Closing(d)' /\ op'[d].pos = tracked'[s]
  <2>1. CASE tracked[s] = p
    BY <1>2, <1>3, <2>1 DEF Closing
  <2>2. CASE tracked[s] # p
    <3>1. objs[tracked[s]].closing
      BY <1>2, <1>4, <1>8, <2>2 DEF TypeInv, TypeOK, ManagerTypeOK
    <3>2. PICK d \in Callers : Closing(d) /\ op[d].pos = tracked[s]
      BY <1>2, <1>8, <3>1 DEF CloseInv
    <3> QED
      BY <1>2, <1>3, <3>2 DEF Closing
  <2> QED
    BY <2>1, <2>2
<1> QED
  BY <1>5, <1>6, <1>7, <1>8 DEF CloseInv

\* The lock is released and the caller is out, its object no longer closing
\* or no longer tracked.
LEMMA LeaveCloseOwner ==
  ASSUME TypeInv, CloseInv, NEW c \in Callers, Closing(c),
         lock' = [lock EXCEPT ![SymOf(c)] = NoCaller],
         op' = [op EXCEPT ![c] = Idle],
         tracked' = tracked,
         \/ objs' = [objs EXCEPT ![op[c].pos] = [objs[op[c].pos] EXCEPT !.closing = FALSE]]
         \/ op[c].pc = "exit" /\ objs' = objs
  PROVE  CloseInv'
<1>1. op[c].pos \in PosIds /\ SymOf(c) \in Symbols /\ objs[op[c].pos] \in Object
  BY ClosingHasPos DEF TypeInv, TypeOK, ManagerTypeOK
<1>2. \A q \in PosIds : objs'[q].sym = objs[q].sym /\ (q # op[c].pos => objs'[q] = objs[q])
  BY <1>1 DEF TypeInv, TypeOK, ManagerTypeOK, Object
<1>3. op'[c] = Idle /\ \A d \in Callers : d # c => op'[d] = op[d]
  BY DEF TypeInv, TypeOK, ManagerTypeOK
<1>4. ~Closing(c)' /\ op'[c].pc # "exit"
  BY <1>3 DEF Closing, Idle, At
<1>5. \A s \in Symbols : tracked'[s] # NoPos => objs'[tracked'[s]].sym = s
  BY <1>2 DEF CloseInv, TypeInv, TypeOK, ManagerTypeOK
<1>6. ASSUME NEW d \in Callers, Closing(d)'
      PROVE  lock'[SymOf(d)'] = d
  <2>1. d # c /\ Closing(d) /\ op'[d].pos = op[d].pos
    BY <1>3, <1>4, <1>6 DEF Closing
  <2>2. lock[SymOf(d)] = d /\ lock[SymOf(c)] = c /\ op[d].pos \in PosIds /\ SymOf(d) \in Symbols
    BY <2>1, ClosingHasPos DEF CloseInv
  <2>3. SymOf(d)' = SymOf(d)
    BY <1>2, <2>1, <2>2 DEF SymOf
  <2> QED
    BY <2>1, <2>2, <2>3 DEF TypeInv, TypeOK, ManagerTypeOK
<1>7. \A d \in Callers : op'[d].pc = "exit" => \A s \in Symbols : tracked'[s] # op'[d].pos
  BY <1>3, <1>4 DEF CloseInv
<1>8. ASSUME NEW s \in Symbols, tracked'[s] # NoPos, objs'[tracked'[s]].closing
      PROVE  \E d \in Callers : Closing(d)' /\ op'[d].pos = tracked'[s]
  <2>1. tracked[s] # op[c].pos
    <3>1. CASE op[c].pc = "exit"
      BY <3>1 DEF CloseInv
    <3>2. CASE objs' = [objs EXCEPT ![op[c].pos] = [objs[op[c].pos] EXCEPT !.closing = FALSE]]
      BY <1>1, <1>8, <3>2 DEF TypeInv, TypeOK, ManagerTypeOK, Object
    <3> QED
      BY <3>1, <3>2
  <2>2. objs[tracked[s]].closing
    BY <1>2, <1>8, <2>1 DEF TypeInv, TypeOK, ManagerTypeOK
  <2>3. PICK d \in Callers : Closing(d) /\ op[d].pos = tracked[s]
    BY <1>8, <2>2 DEF CloseInv
  <2> QED
    BY <1>3, <2>1, <2>3 DEF Closing
<1> QED
  BY <1>5, <1>6, <1>7, <1>8 DEF CloseInv

\* A fresh object, not closing, becomes the position of s.
LEMMA TrackOwner ==
  ASSUME TypeInv, CloseInv, NEW c \in Callers, NEW s \in Symbols, NEW p \in FreePos,
         NEW obj \in Object, obj.sym = s, ~obj.closing, ~Closing(c), lock' = lock,
         objs' = [objs EXCEPT ![p] = obj],
         tracked' = [tracked EXCEPT ![s] = p],
         op' = op \/ op' = [op EXCEPT ![c] = Holding("arm", p)]
  PROVE  CloseInv'
<1>1. /\ p \in PosIds /\ \A d \in Callers : op[d].pos # p
      /\ \A r \in Symbols : tracked[r] # p
  BY DEF FreePos, LivePos
<1>2. /\ objs'[p] = obj /\ \A q \in PosIds : q # p => objs'[q] = objs[q]
      /\ tracked'[s] = p /\ \A r \in Symbols : r # s => tracked'[r] = tracked[r]
  BY <1>1 DEF TypeInv, TypeOK, ManagerTypeOK
<1>3. \A d \in Callers : /\ Closing(d)' <=> Closing(d)
                         /\ Closing(d) => op'[d] = op[d]
                         /\ op'[d].pc = "exit" => op[d].pc = "exit" /\ op'[d] = op[d]
  BY DEF Closing, TypeInv, TypeOK, ManagerTypeOK
<1>4. \A r \in Symbols : tracked'[r] # NoPos => objs'[tracked'[r]].sym = r
  BY <1>1, <1>2 DEF CloseInv, TypeInv, TypeOK, ManagerTypeOK
<1>5. ASSUME NEW d \in Callers, Closing(d)'
      PROVE  lock'[SymOf(d)'] = d
  <2>1. Closing(d) /\ op'[d] = op[d] /\ op[d].pos \in PosIds
    BY <1>3, <1>5, ClosingHasPos
  <2> QED
    BY <1>1, <1>2, <2>1 DEF CloseInv, SymOf
<1>6. \A d \in Callers : op'[d].pc = "exit" => \A r \in Symbols : tracked'[r] # op'[d].pos
  BY <1>1, <1>2, <1>3 DEF CloseInv
<1>7. ASSUME NEW r \in Symbols, tracked'[r] # NoPos, objs'[tracked'[r]].closing
      PROVE  \E d \in Callers : Closing(d)' /\ op'[d].pos = tracked'[r]
  <2>1. r # s /\ tracked'[r] = tracked[r] /\ objs[tracked[r]].closing
    BY <1>1, <1>2, <1>7 DEF TypeInv, TypeOK, ManagerTypeOK
  <2>2. PICK d \in Callers : Closing(d) /\ op[d].pos = tracked[r]
    BY <1>7, <2>1 DEF CloseInv
  <2> QED
    BY <1>3, <2>1, <2>2
<1> QED
  BY <1>4, <1>5, <1>6, <1>7 DEF CloseInv

\* Untracking a symbol, with no caller moving except to the end of _close
\* with the object that was tracked for it.
LEMMA UntrackOwner ==
  ASSUME TypeInv, CloseInv, NEW c \in Callers, NEW s \in Symbols,
         UNCHANGED <<objs, lock>>, tracked' = [tracked EXCEPT ![s] = NoPos],
         \/ op' = op
         \/ /\ Closing(c) /\ SymOf(c) = s
            /\ op' = [op EXCEPT ![c] = Holding("exit", op[c].pos)]
  PROVE  CloseInv'
<1>1. tracked'[s] = NoPos /\ \A r \in Symbols : r # s => tracked'[r] = tracked[r]
  BY DEF TypeInv, TypeOK, ManagerTypeOK
<1>2. \A d \in Callers : /\ Closing(d)' <=> Closing(d)
                         /\ op'[d].pos = op[d].pos
                         /\ op'[d].pc = "exit" => op[d].pc = "exit" \/ (Closing(d) /\ SymOf(d) = s)
  BY DEF Closing, TypeInv, TypeOK, ManagerTypeOK
<1>3. ASSUME NEW d \in Callers, op'[d].pc = "exit", NEW r \in Symbols
      PROVE  tracked'[r] # op'[d].pos
  <2>1. Closing(d) /\ op'[d].pos = op[d].pos
    BY <1>2, <1>3 DEF Closing
  <2>2. op[d].pos \in PosIds /\ NoPos \notin PosIds
    BY <2>1, ClosingHasPos, NullAssumption
  <2>3. CASE r = s
    BY <1>1, <2>1, <2>2, <2>3
  <2>4. CASE r # s /\ op[d].pc = "exit"
    BY <1>1, <2>1, <2>4 DEF CloseInv
  <2>5. CASE r # s /\ SymOf(d) = s
    BY <1>1, <2>1, <2>2, <2>5 DEF CloseInv, SymOf
  <2> QED
    BY <1>2, <1>3, <2>3, <2>4, <2>5
<1>4. \A r \in Symbols : tracked'[r] # NoPos => objs'[tracked'[r]].sym = r
  BY <1>1 DEF CloseInv
<1>5. \A d \in Callers : Closing(d)' => lock'[SymOf(d)'] = d
  BY <1>2 DEF CloseInv, SymOf
<1>6. ASSUME NEW r \in Symbols, tracked'[r] # NoPos, objs'[tracked'[r]].closing
      PROVE  \E d \in Callers : Closing(d)' /\ op'[d].pos = tracked'[r]
  <2>1. tracked'[r] = tracked[r] /\ objs[tracked[r]].closing
    BY <1>1, <1>6
  <2>2. PICK d \in Callers : Closing(d) /\ op[d].pos = tracked[r]
    BY <1>6, <2>1 DEF CloseInv
  <2> QED
    BY <1>2, <2>1, <2>2
<1> QED
  BY <1>3, <1>4, <1>5, <1>6 DEF CloseInv

\* Writing a field of an object that is neither its symbol nor its closing
\* mark, by a caller that is outside _close and stays there.
LEMMA ArmOwner ==
  ASSUME TypeInv, CloseInv, NEW c \in Callers, op[c].pc \in {"arm", "armed"},
         NEW obj \in Object, obj.sym = SymOf(c), obj.closing = objs[op[c].pos].closing,
         AfterArm(c, obj)
  PROVE  CloseInv'
<1>1. op[c].pos \in PosIds /\ op \in [Callers -> Op] /\ objs \in [PosIds -> Object]
  BY DEF TypeInv, TypeOK, ManagerTypeOK, OpOK
<1>2. \A q \in PosIds : objs'[q].sym = objs[q].sym /\ objs'[q].closing = objs[q].closing
  BY <1>1 DEF AfterArm, SymOf
<1>3. tracked' = tracked /\ lock' = lock
  BY DEF AfterArm
<1>4. ~Closing(c) /\ op'[c].pc \in {"idle", "restore"} /\ \A d \in Callers : d # c => op'[d] = op[d]
  BY <1>1 DEF AfterArm, Closing, Idle, At
<1>5. ASSUME NEW d \in Callers, Closing(d)'
      PROVE  d # c /\ Closing(d) /\ op'[d] = op[d]
  BY <1>4, <1>5 DEF Closing
<1>6. \A s \in Symbols : tracked'[s] # NoPos => objs'[tracked'[s]].sym = s
  BY <1>2, <1>3 DEF CloseInv, TypeInv, TypeOK, ManagerTypeOK
<1>7. ASSUME NEW d \in Callers, Closing(d)'
      PROVE  lock'[SymOf(d)'] = d
  <2>1. Closing(d) /\ op'[d] = op[d] /\ op[d].pos \in PosIds
    BY <1>5, <1>7, ClosingHasPos
  <2> QED
    BY <1>2, <1>3, <2>1 DEF CloseInv, SymOf
<1>8. \A d \in Callers : op'[d].pc = "exit" => \A s \in Symbols : tracked'[s] # op'[d].pos
  BY <1>3, <1>4 DEF CloseInv
<1>9. ASSUME NEW s \in Symbols, tracked'[s] # NoPos, objs'[tracked'[s]].closing
      PROVE  \E d \in Callers : Closing(d)' /\ op'[d].pos = tracked'[s]
  <2>1. tracked[s] # NoPos /\ objs[tracked[s]].closing
    BY <1>2, <1>3, <1>9 DEF TypeInv, TypeOK, ManagerTypeOK
  <2>2. PICK d \in Callers : Closing(d) /\ op[d].pos = tracked[s]
    BY <2>1 DEF CloseInv
  <2> QED
    BY <1>3, <1>4, <2>2 DEF Closing
<1> QED
  BY <1>6, <1>7, <1>8, <1>9 DEF CloseInv

\* One caller moves, neither in or out of _close nor to its end, and touches
\* no object, no position and no lock.
LEMMA MoveOwner ==
  ASSUME TypeInv, CloseInv, UNCHANGED <<objs, tracked, lock>>, NEW c \in Callers,
         NEW to \in Op, op' = [op EXCEPT ![c] = to], to.pc # "exit",
         \/ ~Closing(c) /\ to.pc \notin {"cancel", "confirm", "close", "closed", "exit"}
         \/ /\ Closing(c) /\ to.pos = op[c].pos
            /\ to.pc \in {"cancel", "confirm", "close", "closed"}
  PROVE  CloseInv'
<1>1. op'[c] = to /\ \A d \in Callers : d # c => op'[d] = op[d]
  BY DEF TypeInv, TypeOK, ManagerTypeOK
<1> QED
  BY <1>1, QuietStep DEF Closing

LEMMA CloseInvInit == Init => CloseInv
BY DEF Init, BrokerInit, ManagerInit, CloseInv, Closing, At, Idle

LEMMA CloseStepOwner ==
  ASSUME TypeInv, CloseInv, NEW c \in Callers, CloseStep(c) \/ \E s \in Symbols : SellTracked(c, s)
  PROVE  CloseInv'
<1> USE DEF Closing
<1>0. op \in [Callers -> Op] /\ op[c] \in Op
  BY DEF TypeInv, TypeOK, ManagerTypeOK
<1>1. ASSUME NEW s \in Symbols, BeginClose(c, s)
      PROVE  CloseInv'
  <2>1. tracked[s] \in PosIds /\ objs[tracked[s]].sym = s /\ op[c].pc = "idle"
    BY <1>1 DEF BeginClose, CloseInv, TypeInv, TypeOK, ManagerTypeOK
  <2>2. CASE lock[s] = NoCaller /\ EnterClose(c, tracked[s])
    BY <2>1, <2>2, EnterCloseOwner
  <2>3. CASE UNCHANGED <<objs, tracked, lock>> /\ op' = [op EXCEPT ![c] = Holding("waiting", tracked[s])]
    <3>1. Holding("waiting", tracked[s]) \in Op
      BY <2>1 DEF Op, PC
    <3> QED
      BY <2>1, <2>3, <3>1, MoveOwner
  <2> QED
    BY <1>1, <2>2, <2>3 DEF BeginClose
<1>2. CASE Acquire(c)
  <2>1. op[c].pc = "waiting" /\ op[c].pos \in PosIds /\ lock[objs[op[c].pos].sym] = NoCaller
    BY <1>2 DEF Acquire, SymOf, TypeInv, OpOK
  <2>2. CASE EnterClose(c, op[c].pos)
    BY <2>1, <2>2, EnterCloseOwner
  <2>3. CASE UNCHANGED <<objs, tracked, lock>> /\ op' = [op EXCEPT ![c] = Idle]
    <3>1. Idle \in Op
      BY DEF Op, PC, Idle, At
    <3> QED
      BY <2>1, <2>3, <3>1, MoveOwner DEF Idle, At
  <2> QED
    BY <1>2, <2>2, <2>3 DEF Acquire
<1>3. ASSUME op[c].pc \in {"cancel", "confirm", "close", "closed", "exit"}, BackOff(c)
      PROVE  CloseInv'
  <2>1. op[c].pos \in PosIds /\ objs[op[c].pos] \in Object
    BY <1>3, ClosingHasPos DEF TypeInv, TypeOK, ManagerTypeOK
  <2>2. /\ objs' = [objs EXCEPT ![op[c].pos] = [objs[op[c].pos] EXCEPT !.closing = FALSE]]
        /\ lock' = [lock EXCEPT ![SymOf(c)] = NoCaller]
        /\ op' = [op EXCEPT ![c] = Idle] /\ tracked' = tracked
    BY <1>3, <2>1 DEF BackOff, SymOf, Object
  <2> QED
    BY <1>3, <2>2, LeaveCloseOwner
<1>4. CASE Cancel(c) \/ SubmitClose(c)
  <2>1. PICK to \in Op : /\ op' = [op EXCEPT ![c] = to] /\ to.pos = op[c].pos
                         /\ to.pc \in {"confirm", "closed"}
    <3>1. CASE Cancel(c)
      <4>1. [op[c] EXCEPT !.pc = "confirm"] \in Op
        BY <1>0 DEF Op, PC
      <4> QED
        BY <1>0, <3>1, <4>1 DEF Cancel, Op
    <3>2. CASE SubmitClose(c)
      <4>1. PICK o \in OrderIds : op' = [op EXCEPT ![c] = [op[c] EXCEPT !.pc = "closed", !.order = o]]
        BY <1>0, <3>2 DEF SubmitClose, FreeOrders, Op
      <4>2. [op[c] EXCEPT !.pc = "closed", !.order = o] \in Op
        BY <1>0 DEF Op, PC
      <4> QED
        BY <1>0, <4>1, <4>2 DEF Op
    <3> QED
      BY <1>4, <3>1, <3>2
  <2>2. op[c].pc \in {"cancel", "close"} /\ UNCHANGED <<objs, tracked, lock>>
    BY <1>4 DEF Cancel, SubmitClose
  <2> QED
    BY <2>1, <2>2, MoveOwner
<1>5. CASE Confirmed(c)
  <2>1. Holding("close", op[c].pos) \in Op
    BY <1>0 DEF Op, PC
  <2> QED
    BY <1>5, <2>1, MoveOwner DEF Confirmed
<1>6. CASE CloseReplied(c)
  <2>1. SymOf(c) \in Symbols
    BY <1>6, ClosingHasPos DEF CloseReplied
  <2> QED
    BY <1>6, <2>1, UntrackOwner DEF CloseReplied
<1>7. CASE ExitReported(c)
  BY <1>7, LeaveCloseOwner DEF ExitReported
<1> QED
  BY <1>1, <1>2, <1>3, <1>4, <1>5, <1>6, <1>7
     DEF CloseStep, OnPrice, SellTracked, Unconfirmed, CloseRefused, CloseReplyLost, ExitRaised

LEMMA ArmStepOwner ==
  ASSUME TypeInv, CloseInv, NEW c \in Callers, ArmStep(c)
  PROVE  CloseInv'
<1>0. op \in [Callers -> Op] /\ op[c] \in Op
  BY DEF TypeInv, TypeOK, ManagerTypeOK
<1>1. CASE SubmitStop(c)
  <2>1. PICK o \in OrderIds : op' = [op EXCEPT ![c] = [op[c] EXCEPT !.pc = "armed", !.order = o]]
    BY <1>0, <1>1 DEF SubmitStop, FreeOrders, Op
  <2>2. [op[c] EXCEPT !.pc = "armed", !.order = o] \in Op
    BY <1>0 DEF Op, PC
  <2>3. op[c].pc = "arm" /\ UNCHANGED <<objs, tracked, lock>>
    BY <1>1 DEF SubmitStop
  <2>4. [op[c] EXCEPT !.pc = "armed", !.order = o].pc = "armed"
    BY <1>0 DEF Op
  <2> QED
    BY <2>1, <2>2, <2>3, <2>4, MoveOwner DEF Closing
<1>2. CASE StopRefused(c) \/ StopReplied(c) \/ StopReplyLost(c)
  <2>1. op[c].pc \in {"arm", "armed"} /\ op[c].pos \in PosIds /\ objs[op[c].pos] \in Object
    BY <1>2 DEF StopRefused, StopReplied, StopReplyLost, TypeInv, OpOK, TypeOK, ManagerTypeOK
  <2>2. CASE AfterArm(c, objs[op[c].pos])
    BY <2>1, <2>2, ArmOwner DEF SymOf
  <2>3. CASE StopReplied(c)
    <3> DEFINE obj == [objs[op[c].pos] EXCEPT !.stop = op[c].order]
    <3>1. obj \in Object /\ obj.sym = SymOf(c) /\ obj.closing = objs[op[c].pos].closing
      BY <1>0, <2>1 DEF Object, SymOf, Op
    <3>2. AfterArm(c, obj)
      BY <2>3 DEF StopReplied
    <3> HIDE DEF obj
    <3> QED
      BY <2>1, <3>1, <3>2, ArmOwner
  <2> QED
    BY <1>2, <2>2, <2>3 DEF StopRefused, StopReplyLost
<1> QED
  BY <1>1, <1>2 DEF ArmStep

LEMMA ReconcileStepOwner ==
  ASSUME TypeInv, CloseInv, NEW c \in Callers, ReconcileStep(c)
  PROVE  CloseInv'
<1> USE DEF Closing
<1>1. CASE LoadRows(c) \/ GotPortfolio(c) \/ ReconcileFailed(c) \/ GotOrders(c)
             \/ FindOrphans(c) \/ ReconcileDone(c)
  <2>1. PICK to \in {At("portfolio"), At("orders"), Idle, At("restore"), At("orphans")} :
          op' = [op EXCEPT ![c] = to]
    BY <1>1 DEF LoadRows, GotPortfolio, ReconcileFailed, GotOrders, FindOrphans, ReconcileDone
  <2>2. to \in Op /\ to.pc \in {"portfolio", "orders", "idle", "restore", "orphans"}
    BY DEF Op, PC, At, Idle
  <2>3. ~Closing(c) /\ UNCHANGED <<objs, tracked, lock>>
    BY <1>1 DEF LoadRows, GotPortfolio, ReconcileFailed, GotOrders, FindOrphans, ReconcileDone
  <2> QED
    BY <2>1, <2>2, <2>3, MoveOwner
<1>2. ASSUME NEW o \in OrderIds, CancelOrphan(c, o)
      PROVE  CloseInv'
  BY <1>2, QuietStep DEF CancelOrphan
<1>3. ASSUME NEW s \in Symbols, DropRow(c, s)
      PROVE  CloseInv'
  BY <1>3, UntrackOwner DEF DropRow
<1>4. ASSUME NEW s \in Symbols, RestoreRow(c, s)
      PROVE  CloseInv'
  <2>1. op[c].pc = "restore" /\ s \in recon[c].todo
    BY <1>4 DEF RestoreRow
  <2>2. recon[c] \in Recon /\ recon[c].rows[s] \in Row
    BY <2>1 DEF TypeInv, OpOK, TodoOK
  <2> DEFINE obj == [sym |-> s, qty |-> recon[c].held[s], stop |-> recon[c].rows[s].stop,
                     closing |-> FALSE]
  <2>3. obj \in Object /\ obj.sym = s /\ ~obj.closing
    BY <2>2, MaxHeldAssumption DEF Object, Row, Recon
  <2>4. PICK p \in FreePos : /\ objs' = [objs EXCEPT ![p] = obj]
                             /\ tracked' = [tracked EXCEPT ![s] = p]
                             /\ op' = op \/ op' = [op EXCEPT ![c] = Holding("arm", p)]
    BY <1>4 DEF RestoreRow
  <2>5. lock' = lock
    BY <1>4 DEF RestoreRow
  <2> HIDE DEF obj
  <2> QED
    BY <2>1, <2>3, <2>4, <2>5, TrackOwner
<1> QED
  BY <1>1, <1>2, <1>3, <1>4 DEF ReconcileStep

LEMMA ExecuteStepOwner ==
  ASSUME TypeInv, CloseInv, NEW c \in Callers, ExecuteStep(c)
  PROVE  CloseInv'
<1> USE DEF Closing
<1>1. ASSUME NEW s \in Symbols, SubmitEntry(c, s)
      PROVE  CloseInv'
  <2>1. PICK o \in OrderIds : op' = [op EXCEPT ![c] = [pc |-> "entry", pos |-> NoPos, order |-> o]]
    BY <1>1 DEF SubmitEntry, FreeOrders
  <2>2. [pc |-> "entry", pos |-> NoPos, order |-> o] \in Op
    BY DEF Op, PC
  <2>3. op[c].pc = "idle" /\ UNCHANGED <<objs, tracked, lock>>
    BY <1>1 DEF SubmitEntry
  <2> QED
    BY <2>1, <2>2, <2>3, MoveOwner
<1>2. ASSUME NEW s \in Symbols, SellUntracked(c, s)
      PROVE  CloseInv'
  BY <1>2, QuietStep DEF SellUntracked
<1>3. CASE EntryReplied(c)
  <2>1. orders[op[c].order].sym \in Symbols /\ op[c].pc = "entry" /\ lock' = lock
    BY <1>3 DEF EntryReplied, TypeInv, OpOK, TypeOK, ManagerTypeOK, Order
  <2>2. CASE Protect(c, orders[op[c].order].sym, Lot)
    <3> DEFINE obj == [sym |-> orders[op[c].order].sym, qty |-> Lot, stop |-> NoOrder,
                       closing |-> FALSE]
    <3>1. obj \in Object /\ obj.sym = orders[op[c].order].sym /\ ~obj.closing
      BY <2>1, LotAssumption, MaxHeldAssumption DEF Object
    <3>2. PICK p \in FreePos : /\ objs' = [objs EXCEPT ![p] = obj]
                               /\ tracked' = [tracked EXCEPT ![orders[op[c].order].sym] = p]
                               /\ op' = [op EXCEPT ![c] = Holding("arm", p)]
      BY <2>2 DEF Protect
    <3> HIDE DEF obj
    <3> QED
      BY <2>1, <3>1, <3>2, TrackOwner
  <2>3. CASE op' = [op EXCEPT ![c] = Idle] /\ UNCHANGED <<objs, tracked>>
    <3>1. Idle \in Op
      BY DEF Op, PC, Idle, At
    <3> QED
      BY <2>1, <2>3, <3>1, MoveOwner DEF Idle, At
  <2> QED
    BY <1>3, <2>2, <2>3 DEF EntryReplied
<1>4. CASE EntryReplyLost(c)
  <2>1. Idle \in Op
    BY DEF Op, PC, Idle, At
  <2> QED
    BY <1>4, <2>1, MoveOwner DEF EntryReplyLost, Idle, At
<1> QED
  BY <1>1, <1>2, <1>3, <1>4, CloseStepOwner DEF ExecuteStep

LEMMA CloseInvStep == TypeInv /\ CloseInv /\ [Next]_vars => CloseInv'
<1> SUFFICES ASSUME TypeInv, CloseInv, [Next]_vars PROVE CloseInv'
  OBVIOUS
<1>1. ASSUME NEW c \in Callers, CallerStep(c)
      PROVE  CloseInv'
  BY <1>1, CloseStepOwner, ArmStepOwner, ReconcileStepOwner, ExecuteStepOwner DEF CallerStep
<1>2. CASE Crash
  BY <1>2 DEF Crash, CloseInv, Closing, At, Idle
<1>3. CASE (VenueStep /\ UNCHANGED managerVars) \/ UNCHANGED vars
  BY <1>3, QuietStep DEF Closing
<1>4. ASSUME NEW s \in Symbols, CooldownEnds(s)
      PROVE  CloseInv'
  BY <1>4, QuietStep DEF CooldownEnds, Closing
<1> QED
  BY <1>1, <1>2, <1>3, <1>4 DEF Next

LEMMA CloseInvariant == Spec => [](TypeInv /\ CloseInv)
<1> QED
  BY TypeInvariant, CloseInvInit, CloseInvStep, PTL DEF Spec

\* A position is never left marked closing with nobody closing it, and _close
\* is never run twice at a time for one symbol, with any number of bar tasks
\* and price-stream ticks interleaved, through exits that raise, calls that
\* fail and restarts: the closing flag needs no recovery of its own.
THEOREM CloseOwned == Spec => []CloseHasOwner
<1>1. TypeInv /\ CloseInv => CloseHasOwner
  <2> SUFFICES ASSUME TypeInv, CloseInv PROVE CloseHasOwner
    OBVIOUS
  <2>1. ASSUME NEW s \in Symbols, NEW c \in Callers, NEW d \in Callers,
               Closing(c), Closing(d), WorkingOn(c, s), WorkingOn(d, s)
        PROVE  c = d
    BY <2>1 DEF CloseInv, WorkingOn
  <2> QED
    BY <2>1 DEF CloseInv, CloseHasOwner
<1> QED
  BY <1>1, CloseInvariant, PTL

=============================================================================
