-------------------------- MODULE MCTradingSession --------------------------
(* A small instance of TradingSession for TLC, under both settings of       *)
(* HALT_FLATTENS_POSITIONS: the one of the cfg, and a desk that flattens    *)
(* in a process that nothing disturbs.  The symbols are interchangeable for *)
(* properties that no cfg states with fairness.                             *)
EXTENDS TradingSession, TLC

VARIABLE flattens

Flattening == INSTANCE TradingSession WITH HaltFlattens <- TRUE, Env <- {}

MCInit == Init /\ flattens \in BOOLEAN
MCNext ==
  \/ Next /\ ~flattens /\ UNCHANGED flattens
  \/ Flattening!Next /\ flattens /\ UNCHANGED flattens
MCSpec == MCInit /\ [][MCNext]_<<vars, flattens>>

Symmetry == Permutations(Symbols)

=============================================================================
