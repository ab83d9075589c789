----------------------------- MODULE MCNfeImport -----------------------------
(***************************************************************************)
(* Small instances of NfeImport for TLC: a note of two lines, one with a   *)
(* barcode and one without.                                                *)
(***************************************************************************)
EXTENDS NfeImport, TLC

CONSTANTS o1, o2, p1, p2, p3

ProductSymmetry == Permutations(Product)

Codes == [l \in {"rice", "milk"} |-> l]
================================================================================
