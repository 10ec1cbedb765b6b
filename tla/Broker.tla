------------------------------- MODULE Broker -------------------------------
(***************************************************************************)
(* The venue behind BrokerPort (contracts.py), as StopManager and          *)
(* ExecutionEngine see it through broker_alpaca.py and broker_sim.py.      *)
(*                                                                         *)
(* An order is one of three kinds: "entry" (a market BUY), "stop" (the     *)
(* resting STOP_LIMIT SELL) and "sell" (a market SELL).  Prices are        *)
(* abstracted to where they stand relative to a position's two levels:     *)
(* at or below the stop, in between, at or above the take.  Quantities     *)
(* are in units such that one entry buys Lot of them, so that a partial    *)
(* fill can be told from a full one.                                       *)
(*                                                                         *)
(* Env lists what the venue and the host may do beyond the behaviour of    *)
(* the simulated broker, which fills a market order within submit():       *)
(*   "async_fill"     a market order is ACCEPTED first and fills, or dies, *)
(*                    later (_STATUS_MAP: new, accepted, pending_new)      *)
(*   "pending_cancel" a cancel is acknowledged before it takes effect      *)
(*                    (_STATUS_MAP: pending_cancel is ACCEPTED)            *)
(*   "late_reject"    a resting stop that was ACCEPTED is REJECTED later   *)
(*   "partial_stop"   a resting stop fills in part                         *)
(*   "call_fails"     a call raises or returns None before it has any      *)
(*                    effect                                               *)
(*   "lost_reply"     submit() raises after the venue took the order       *)
(*   "list_fails"     list_open_orders() fails, and so returns []          *)
(*   "exit_raises"    the exit callback raises                             *)
(*   "add_on"         the desk buys a symbol it already holds              *)
(*   "crash"          the process dies between two awaits and restarts     *)
(***************************************************************************)
EXTENDS Naturals, FiniteSets

CONSTANTS Symbols,    \* the watchlist
          OrderIds,   \* slots for orders; see FreeOrders in StopManager
          Lot,        \* units one entry buys
          MaxHeld,    \* bound: units of one symbol held or being bought
          Env         \* the features of the environment that are present

EnvFeatures == {"async_fill", "pending_cancel", "late_reject", "partial_stop",
                "call_fails", "lost_reply", "list_fails", "exit_raises",
                "add_on", "crash"}

ASSUME SymbolsAssumption == Symbols # {}
ASSUME LotAssumption == Lot \in Nat \ {0}
ASSUME MaxHeldAssumption == MaxHeld \in Nat /\ Lot <= MaxHeld
ASSUME EnvAssumption == Env \subseteq EnvFeatures

VARIABLES orders,   \* the venue's order book
          held,     \* the units of each symbol the account owns
          price     \* where the last price stands

brokerVars == <<orders, held, price>>

Kind == {"entry", "stop", "sell"}
LiveStatus == {"accepted", "canceling"}          \* NEW, ACCEPTED, PARTIALLY_FILLED
Status == LiveStatus \cup {"filled", "canceled", "rejected"}
Order == [sym: Symbols, kind: Kind, qty: 0..MaxHeld, status: Status]
Level == {"stop", "mid", "take"}

Live(o) == orders[o].status \in LiveStatus
LiveOf(s, kind) == {o \in OrderIds : Live(o) /\ orders[o].sym = s /\ orders[o].kind = kind}
LiveStops(s) == LiveOf(s, "stop")

\* The slots no order has used yet hold an order that can do nothing.
BrokerInit ==
  /\ orders = [o \in OrderIds |-> [sym |-> CHOOSE s \in Symbols : TRUE, kind |-> "sell",
                                   qty |-> 0, status |-> "canceled"]]
  /\ held = [s \in Symbols |-> 0]
  /\ price = [s \in Symbols |-> "mid"]

-----------------------------------------------------------------------------
(* What a call of BrokerPort does to the venue.  Each is one conjunct of   *)
(* an action of StopManager.                                               *)

\* submit(): the venue takes an order of qty units and leaves it open.
Accept(o, s, kind, qty) ==
  /\ orders' = [orders EXCEPT ![o] = [sym |-> s, kind |-> kind, qty |-> qty,
                                      status |-> "accepted"]]
  /\ UNCHANGED held

\* submit() of a market BUY that fills at once.
FillEntryNow(o, s) ==
  /\ orders' = [orders EXCEPT ![o] = [sym |-> s, kind |-> "entry", qty |-> 0,
                                      status |-> "filled"]]
  /\ held' = [held EXCEPT ![s] = @ + Lot]

\* Mutant: SimBroker without the clamp of a sell to what is owned.
UnclampedSellNow(o, s, qty) ==
  /\ held[s] > 0
  /\ orders' = [orders EXCEPT ![o] = [sym |-> s, kind |-> "sell", qty |-> 0,
                                      status |-> "filled"]]
  /\ held' = [held EXCEPT ![s] = @ - qty]

\* submit() of a market SELL that fills at once.  A sell of more than the
\* account owns sells what there is (SimBroker); a venue that refuses it is
\* Refused.
FillSellNow(o, s, qty) ==
  /\ held[s] > 0
  /\ orders' = [orders EXCEPT ![o] = [sym |-> s, kind |-> "sell", qty |-> 0,
                                      status |-> "filled"]]
  /\ held' = [held EXCEPT ![s] = IF qty < @ THEN @ - qty ELSE 0]

\* A market SELL of qty units may come back REJECTED, or raise.
Refused(s, qty) == held[s] < qty \/ "call_fails" \in Env

\* cancel() of a live order: done, or acknowledged only; and a cancel that
\* fails, or of an order that is not live, leaves the order as it is.
CancelTakes(o) ==
  /\ Live(o)
  /\ orders' = [orders EXCEPT ![o].status = "canceled"]
CancelPends(o) ==
  /\ "pending_cancel" \in Env
  /\ Live(o)
  /\ orders' = [orders EXCEPT ![o].status = "canceling"]
CancelFails(o) ==
  /\ Live(o) => "call_fails" \in Env
  /\ UNCHANGED orders

-----------------------------------------------------------------------------
(* What the venue does on its own.                                         *)

MovePrice(s, level) ==
  /\ price[s] # level
  /\ price' = [price EXCEPT ![s] = level]
  /\ UNCHANGED <<orders, held>>

\* A resting stop whose level is crossed sells n units: all it covers, or
\* what the account still owns if that is less, or only a part.
FillStop(o, n) ==
  LET s == orders[o].sym
      most == IF orders[o].qty < held[s] THEN orders[o].qty ELSE held[s]
  IN /\ Live(o) /\ orders[o].kind = "stop" /\ price[s] = "stop"
     /\ n \in 1..most
     /\ n = most \/ "partial_stop" \in Env
     /\ orders' = [orders EXCEPT ![o].qty = @ - n,
                                 ![o].status = IF n = most THEN "filled" ELSE @]
     /\ held' = [held EXCEPT ![s] = @ - n]
     /\ UNCHANGED price

\* A market order that was left open fills.
FillMarket(o) ==
  LET s == orders[o].sym
  IN /\ orders[o].status = "accepted"
     /\ \/ /\ orders[o].kind = "entry"
           /\ held[s] + orders[o].qty <= MaxHeld
           /\ held' = [held EXCEPT ![s] = @ + orders[o].qty]
        \/ /\ orders[o].kind = "sell"
           /\ held[s] > 0
           /\ held' = [held EXCEPT ![s] = IF orders[o].qty < @ THEN @ - orders[o].qty ELSE 0]
     /\ orders' = [orders EXCEPT ![o].qty = 0, ![o].status = "filled"]
     /\ UNCHANGED price

\* A pending cancel completes, or an open market order dies unfilled.
Die(o) ==
  /\ \/ orders[o].status = "canceling"
     \/ orders[o].status = "accepted" /\ orders[o].kind # "stop"
  /\ orders' = [orders EXCEPT ![o].status = "canceled"]
  /\ UNCHANGED <<held, price>>

\* A resting stop is rejected after all: by the venue, or by SimBroker._fill
\* when it triggers and nothing is left to sell.
RejectStop(o) ==
  /\ Live(o) /\ orders[o].kind = "stop"
  /\ \/ "late_reject" \in Env
     \/ held[orders[o].sym] = 0 /\ price[orders[o].sym] = "stop"
  /\ orders' = [orders EXCEPT ![o].status = "rejected"]
  /\ UNCHANGED <<held, price>>

VenueStep ==
  \/ \E s \in Symbols, level \in Level : MovePrice(s, level)
  \/ \E o \in OrderIds :
       \/ \E n \in 1..MaxHeld : FillStop(o, n)
       \/ FillMarket(o)
       \/ Die(o)
       \/ RejectStop(o)

=============================================================================
