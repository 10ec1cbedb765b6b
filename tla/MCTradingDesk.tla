---------------------------- MODULE MCTradingDesk ----------------------------
(* The instances of TradingDesk that TLC checks; the cfg files choose Env.  *)
EXTENDS DeskBook, TLC

\* Objects and order slots are interchangeable: nothing orders them.
Symmetry == Permutations(PosIds) \cup Permutations(OrderIds)

=============================================================================
