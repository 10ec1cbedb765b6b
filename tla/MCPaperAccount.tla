--------------------------- MODULE MCPaperAccount ---------------------------
(* Values for TLC that a cfg cannot write: a record.                       *)
EXTENDS PaperAccount, TLC
MCAsset == [tradable |-> TRUE, increment |-> 7, min_order_size |-> 1]
Symmetry == Permutations(Symbols)
=============================================================================
