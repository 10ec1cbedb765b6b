---------------------------- MODULE MCDeskControl ----------------------------
(* Values for TLC that a cfg cannot write: the watchlists.                 *)
EXTENDS DeskControl

CONSTANTS btc, eth

MCSymbols == {btc, eth}
MCWatchlists == {<<btc, eth>>, <<eth, btc>>, <<btc>>}
=============================================================================
