\* One item per request and no faults: the locks alone must let everyone end.
\* The two keys of rice collide.
CONSTANTS
  Tx = {t1, t2, t3}
  NoTx = NoTx
  Product = {"rice", "milk"}
  Perishable = {"milk"}
  Store = {1, 2}
  BatchId = {b1, b2, b3, b4}
  NoBatch = NoBatch
  NoLot = NoLot
  Label <- Labels
  NoLabel = NoLabel
  Key <- Pair
  LockKey <- OneHashForRice
  Requests <- SingleItem
  NamesOwnLot = TRUE
  Resolution = 1
  t1 = t1
  t2 = t2
  t3 = t3
  b1 = b1
  b2 = b2
  b3 = b3
  b4 = b4
SPECIFICATION FairSpec
INVARIANTS
  NoWaitCycle
PROPERTIES
  EveryTxEnds
CHECK_DEADLOCK FALSE
