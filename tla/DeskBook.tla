------------------------------ MODULE DeskBook ------------------------------
(***************************************************************************)
(* The order path (TradingDesk) as a book of long positions (LongBook).    *)
(***************************************************************************)
EXTENDS TradingDesk, FiniteSetsExt

total_qty(book, live) == MapThenSumSet(LAMBDA o : book[o].qty, live)
units_offered == [s \in Symbols |-> total_qty(orders, LiveSells(s))]
units_watched ==
  [s \in Symbols |-> IF tracked[s] = NoPos THEN 0 ELSE objs[tracked[s]].qty]

Book == INSTANCE LongBook
          WITH owned <- held, offered <- units_offered, watched <- units_watched

\* Whatever the coroutines are doing, and whatever cancels, refusals, late
\* rejections and partial fills they meet, the desk's account is a book of
\* long positions: no sale while something is on offer, nothing offered
\* twice, nothing dropped that is still owned (execute, protect, _close).
KeepsTheBook == Book!Spec

=============================================================================
