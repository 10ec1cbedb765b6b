------------------------------ MODULE LongBook ------------------------------
(***************************************************************************)
(* What the order path promises its caller while every order that is not a *)
(* resting one fills at once: a book of long positions, each of which is   *)
(* bought whole, watched for what it is, offered for sale at most once and *)
(* for no more than it is, sold outright only while nothing is on offer,   *)
(* and watched until there is nothing left of it.                          *)
(***************************************************************************)
EXTENDS Naturals

CONSTANTS Symbols, Lot

VARIABLES owned,     \* the units the account owns
          offered,   \* the units its live sell orders ask for
          watched    \* the units the software stop would sell

book == <<owned, offered, watched>>

Init ==
  /\ owned = [s \in Symbols |-> 0]
  /\ offered = [s \in Symbols |-> 0]
  /\ watched = [s \in Symbols |-> 0]

\* execute() fills an entry.
Buy(s) ==
  /\ owned[s] = 0 /\ offered[s] = 0
  /\ owned' = [owned EXCEPT ![s] = Lot]
  /\ UNCHANGED <<offered, watched>>

\* protect() takes the position on.
Watch(s) ==
  /\ owned[s] > 0 /\ offered[s] = 0
  /\ watched' = [watched EXCEPT ![s] = owned[s]]
  /\ UNCHANGED <<owned, offered>>

\* The resting stop is placed.
Offer(s) ==
  /\ owned[s] > 0 /\ offered[s] = 0 /\ watched[s] = owned[s]
  /\ offered' = [offered EXCEPT ![s] = owned[s]]
  /\ UNCHANGED <<owned, watched>>

\* It is cancelled, or rejected late.
Withdraw(s) ==
  /\ offered[s] > 0
  /\ offered' = [offered EXCEPT ![s] = 0]
  /\ UNCHANGED <<owned, watched>>

\* It sells n units.
SellOffered(s, n) ==
  /\ n \in 1..offered[s]
  /\ owned' = [owned EXCEPT ![s] = @ - n]
  /\ offered' = [offered EXCEPT ![s] = @ - n]
  /\ UNCHANGED watched

\* The desk sells the rest itself.
SellRest(s) ==
  /\ owned[s] > 0 /\ offered[s] = 0
  /\ owned' = [owned EXCEPT ![s] = 0]
  /\ UNCHANGED <<offered, watched>>

Unwatch(s) ==
  /\ owned[s] = 0
  /\ watched' = [watched EXCEPT ![s] = 0]
  /\ UNCHANGED <<owned, offered>>

Next ==
  \E s \in Symbols :
    \/ Buy(s) \/ Watch(s) \/ Offer(s) \/ Withdraw(s)
    \/ \E n \in 1..offered[s] : SellOffered(s, n)
    \/ SellRest(s) \/ Unwatch(s)

Spec == Init /\ [][Next]_book

=============================================================================
