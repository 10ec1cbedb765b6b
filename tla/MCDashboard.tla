----------------------------- MODULE MCDashboard -----------------------------
(* Values for TLC that a cfg cannot write: sequences and a function.       *)
EXTENDS Dashboard

MCBarAgents == {<<"scout">>, <<"regime", "scout">>}
MCWatchlists == {<<"btc">>, <<"btc", "eth">>}
MCTTL == [market |-> 1, suggest |-> 2]
=============================================================================
