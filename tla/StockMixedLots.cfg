\* A product without lots receives a lot.
CONSTANTS
  Tx = {t1, t2, t3}
  NoTx = NoTx
  Product = {"rice", "milk"}
  Perishable = {"milk"}
  Store = {1, 2}
  BatchId = {b1, b2, b3, b4}
  NoBatch = NoBatch
  NoLot = NoLot
  Label <- Labels
  NoLabel = NoLabel
  Key <- Pair
  LockKey <- OwnKeys
  Requests <- LotsOfRice
  NamesOwnLot = TRUE
  Resolution = 1
  t1 = t1
  t2 = t2
  t3 = t3
  b1 = b1
  b2 = b2
  b3 = b3
  b4 = b4
SPECIFICATION Spec
SYMMETRY LotSymmetry
INVARIANTS
  NoOversell
CHECK_DEADLOCK FALSE
