---------------------------- MODULE MCStockLedger ----------------------------
(***************************************************************************)
(* Small instances of StockLedger for TLC.  Products are "rice", without   *)
(* lots, and "milk", perishable; stores are 1 and 2.                       *)
(***************************************************************************)
EXTENDS StockLedger, TLC

CONSTANTS t1, t2, t3, b1, b2, b3, b4

TxSymmetry == Permutations(Tx)
LotSymmetry == Permutations(Tx) \cup Permutations(BatchId)

Early == [number |-> "A", expiry |-> 1]
Late == [number |-> "B", expiry |-> 2]
Labels == {Early, Late}

I(product, q) == [product |-> product, qty |-> q, manual |-> FALSE, label |-> NoLabel]
Named(product, q) == [I(product, q) EXCEPT !.manual = TRUE]
In(product, q, l) == [I(product, q) EXCEPT !.label = l]
R(kind, from, to, items) == [kind |-> kind, from |-> from, to |-> to, items |-> items]

(* No two pairs share a hashtext value; and rice of both stores does.      *)
OwnKeys == [p \in Pair |-> p]
OneHashForRice == [p \in Pair |-> IF p[1] = "rice" THEN <<"rice", 1>> ELSE p]

(* Receipts give a lot to milk and none to rice, as docs/api/stock.md      *)
(* says they should.                                                       *)
Documented ==
  {R("nfe", 1, 1, <<In("milk", 1, Early), In("milk", 2, Late), I("rice", 2)>>),
   R("entry", 2, 2, <<In("milk", 1, Early)>>),
   R("entry", 1, 1, <<I("rice", 1)>>),
   R("sale", 1, 1, <<I("milk", 2), I("rice", 1)>>),
   R("sale", 1, 1, <<I("rice", 2), I("milk", 1)>>),
   R("sale", 1, 1, <<I("milk", 1), Named("milk", 1)>>),
   R("sale", 1, 1, <<I("rice", 1), I("rice", 1)>>),
   R("exit", 1, 1, <<Named("milk", 2)>>),
   R("transfer", 1, 2, <<I("milk", 2)>>),
   R("transfer", 1, 2, <<I("rice", 1), I("milk", 1)>>),
   R("transfer", 2, 1, <<I("milk", 1)>>)}

(* One item per request: transfers in both directions, of a product whose  *)
(* keys collide and of one whose keys do not.                              *)
SingleItem ==
  {R("entry", 1, 1, <<I("rice", 1)>>),
   R("entry", 2, 2, <<In("milk", 1, Early)>>),
   R("transfer", 1, 2, <<I("rice", 1)>>),
   R("transfer", 2, 1, <<I("rice", 1)>>),
   R("transfer", 1, 2, <<I("milk", 1)>>),
   R("transfer", 2, 1, <<I("milk", 1)>>)}

(* Two transfers of the same two products, listed in opposite orders.      *)
OppositeItems ==
  {R("nfe", 1, 1, <<In("milk", 1, Early), I("rice", 1)>>),
   R("transfer", 1, 2, <<I("milk", 1), I("rice", 1)>>),
   R("transfer", 1, 2, <<I("rice", 1), I("milk", 1)>>)}

(* An import of two lots and an exit that uses both.                       *)
TwoLots ==
  {R("nfe", 1, 1, <<In("milk", 1, Early), In("milk", 2, Late)>>),
   R("exit", 1, 1, <<I("milk", 2)>>)}

(* A lot is typed for a product without lots, which no check prevents.     *)
LotsOfRice ==
  {R("entry", 1, 1, <<In("rice", 1, Early)>>),
   R("sale", 1, 1, <<I("rice", 1)>>),
   R("exit", 1, 1, <<Named("rice", 1)>>)}
================================================================================
