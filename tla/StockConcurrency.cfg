\* Three concurrent transactions under READ COMMITTED; every movement of a
\* pair has a created_at of its own; operators follow the documented use of lots.
CONSTANTS
  Tx = {t1, t2, t3}
  NoTx = NoTx
  Product = {"rice", "milk"}
  Perishable = {"milk"}
  Store = {1, 2}
  BatchId = {b1, b2, b3, b4}
  NoBatch = NoBatch
  NoLot = NoLot
  Label <- Labels
  NoLabel = NoLabel
  Key <- Pair
  LockKey <- OwnKeys
  Requests <- Documented
  NamesOwnLot = TRUE
  Resolution = 1
  t1 = t1
  t2 = t2
  t3 = t3
  b1 = b1
  b2 = b2
  b3 = b3
  b4 = b4
SPECIFICATION Spec
SYMMETRY LotSymmetry
INVARIANTS
  TypeOK
  LedgerChains
  BalanceIsSum
  NoOversell
  DealsAddUp
  LotsMatchBalance
PROPERTIES
  FefoOrder
  RefusedOnlyWhenShort
  RefinesBook
CHECK_DEADLOCK FALSE
