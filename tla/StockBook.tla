------------------------------- MODULE StockBook -------------------------------
(***************************************************************************)
(* What the stock core promises its callers, without transactions, locks   *)
(* or movement rows: a book with one balance for each (product, store).    *)
(* A sale, a transfer or an import is one deal, posted whole or not at     *)
(* all, against the balances of that very moment, and no balance goes      *)
(* below zero.                                                             *)
(***************************************************************************)
EXTENDS Integers

CONSTANTS
  Pair,   \* the balances of the book
  Deals   \* subset of [Pair -> Int]: what each request adds to each balance

VARIABLE onHand

Init == onHand = [p \in Pair |-> 0]

Post(d) ==
  /\ \A p \in Pair : onHand[p] + d[p] >= 0
  /\ onHand' = [p \in Pair |-> onHand[p] + d[p]]

Next == \E d \in Deals : Post(d)

Spec == Init /\ [][Next]_onHand
================================================================================
