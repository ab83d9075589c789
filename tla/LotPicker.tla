------------------------------- MODULE LotPicker -------------------------------
(***************************************************************************)
(* The item of a sale (vendas/nova, SaleItemRow) or of a stock exit        *)
(* (estoque/saida) while it is filled in: a product, the store, a quantity *)
(* and, for a perishable product, a lot - the first of the FEFO suggestion *)
(* or one chosen from it.  What the server does with a lot it is given is  *)
(* in StockLedger.                                                         *)
(***************************************************************************)
EXTENDS Integers, Sequences, FiniteSets, SequencesExt

CONSTANTS
  Perishable,   \* products
  Shop,         \* stores
  MaxQuantity,
  MaxTaken,     \* units others take meanwhile (bound)
  NotSet

ASSUME LotAssumption ==
  {MaxQuantity, MaxTaken} \subseteq Nat /\ 0 < MaxQuantity /\ NotSet \notin Perishable \cup Shop

(* Each product has a lot that falls due first and a second one everywhere *)
Batch == [of : Perishable, at : Shop, due : {1, 2}]
NoBatch == [of |-> NotSet, at |-> NotSet, due |-> 0]

VARIABLES
  place,        \* sale or exit
  item,         \* product, store, quantity, lot (batchId)
  overridden,   \* fefoOverridden
  suggestion,   \* what the query of this product, store and quantity says
  left,         \* units in each lot
  moved         \* history: the store was changed after the lot was chosen

lotVars == <<place, item, overridden, suggestion, left, moved>>

(* enabled: of the query                                                   *)
Query(i) == [at |-> IF NotSet \in {i.product, i.store} THEN "none" ELSE "loading",
             lots |-> <<>>]
Suggested == suggestion.lots # <<>>

LotInit ==
  /\ place \in {"sale", "exit"}
  /\ item = [product |-> NotSet, store |-> NotSet, quantity |-> 1, lot |-> NoBatch]
  /\ overridden = FALSE /\ suggestion = Query(item)
  /\ left = [b \in Batch |-> 1]
  /\ moved = FALSE

--------------------------------------------------------------------------------
Becomes(i) == item' = i /\ suggestion' = Query(i)

(* onSelect: the picker offers products only while none is selected.       *)
LotStays(i, p) == [i EXCEPT !.product = p]                 \* mutated form
WithProduct(i, p) == [i EXCEPT !.product = p, !.lot = NoBatch]

SelectProduct(p) ==
  /\ item.product = NotSet
  /\ Becomes(WithProduct(item, p))
  /\ overridden' = FALSE /\ moved' = FALSE
  /\ UNCHANGED <<place, left>>

(* onClear: the row of a sale drops the lot, the exit keeps it.            *)
ClearProduct ==
  /\ item.product # NotSet
  /\ Becomes([item EXCEPT !.product = NotSet,
                          !.lot = IF place = "sale" THEN NoBatch ELSE @])
  /\ UNCHANGED <<place, overridden, left, moved>>

(* Neither form looks at the lot here.                                     *)
SelectStore(s) ==
  /\ s # item.store
  /\ Becomes([item EXCEPT !.store = s])
  /\ moved' = (moved \/ item.lot # NoBatch)
  /\ UNCHANGED <<place, overridden, left>>

SetQuantity(n) ==
  /\ n # item.quantity
  /\ Becomes([item EXCEPT !.quantity = n])
  /\ UNCHANGED <<place, overridden, left, moved>>

(* GET fefo-suggestion: the lots that cover the quantity, the first to     *)
(* fall due first.                                                         *)
LotOf(i, due) == [of |-> i.product, at |-> i.store, due |-> due]
IfLeft(lots, b) == IF left[b] > 0 THEN Append(lots, b) ELSE lots
Lots(i) == IfLeft(IfLeft(<<>>, LotOf(i, 1)), LotOf(i, 2))
Covering(lots, n) ==
  IF lots # <<>> /\ left[lots[1]] >= n THEN <<lots[1]>> ELSE lots

Suggest ==
  /\ suggestion.at = "loading"
  /\ suggestion' = [at |-> "shown", lots |-> Covering(Lots(item), item.quantity)]
  /\ UNCHANGED <<place, item, overridden, left, moved>>

(* Usar sugestao: the first lot, or none if there is none.                 *)
Accept ==
  /\ Suggested
  /\ item' = [item EXCEPT !.lot = suggestion.lots[1]]
  /\ overridden' = FALSE /\ moved' = FALSE
  /\ UNCHANGED <<place, suggestion, left>>

Override ==
  /\ Suggested
  /\ overridden' = TRUE
  /\ UNCHANGED <<place, item, suggestion, left, moved>>

ChooseLot ==
  /\ overridden /\ Len(suggestion.lots) > 1
  /\ \E b \in Range(suggestion.lots) : item' = [item EXCEPT !.lot = b]
  /\ moved' = FALSE
  /\ UNCHANGED <<place, overridden, suggestion, left>>

(* Someone else sells a unit.                                              *)
Taken == Cardinality({b \in Batch : left[b] = 0})
TakeUnit(b) ==
  /\ left[b] > 0 /\ Taken < MaxTaken
  /\ left' = [left EXCEPT ![b] = @ - 1]
  /\ UNCHANGED <<place, item, overridden, suggestion, moved>>

LotNext ==
  \/ \E p \in Perishable : SelectProduct(p)
  \/ \E s \in Shop : SelectStore(s)
  \/ \E n \in 1 .. MaxQuantity : SetQuantity(n)
  \/ \E b \in Batch : TakeUnit(b)
  \/ ClearProduct \/ Suggest \/ Accept \/ Override \/ ChooseLot

LotSpec == LotInit /\ [][LotNext]_lotVars

--------------------------------------------------------------------------------
LotTypeOK ==
  /\ place \in {"sale", "exit"}
  /\ item \in [product : Perishable \cup {NotSet}, store : Shop \cup {NotSet},
               quantity : 1 .. MaxQuantity, lot : Batch \cup {NoBatch}]
  /\ overridden \in BOOLEAN /\ moved \in BOOLEAN
  /\ suggestion.at \in {"none", "loading", "shown"} /\ Range(suggestion.lots) \subseteq Batch
  /\ left \in [Batch -> Nat]

(* The lot that is sent with an item is one of its product, and of its     *)
(* store unless the store was changed after the lot was chosen             *)
(* (vendas/nova/page.tsx:147, saida/page.tsx:120): the server takes a lot  *)
(* by its id alone (resolve-batches.ts:30), so that nothing else keeps the *)
(* stock of one product from being sold as another.                        *)
LotOfItem ==
  item.product # NotSet /\ item.lot # NoBatch =>
    item.lot.of = item.product /\ (item.lot.at = item.store \/ moved)
================================================================================
