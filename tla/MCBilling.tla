------------------------------ MODULE MCBilling ------------------------------
(***************************************************************************)
(* Small instances of Billing for TLC.                                     *)
(***************************************************************************)
EXTENDS Billing, TLC

CONSTANTS t1, k1, k2, x1, v1, a1, a2, c1, c2

Symmetry == Permutations(Charger) \cup Permutations(Agreement) \cup Permutations(Charge)
================================================================================
