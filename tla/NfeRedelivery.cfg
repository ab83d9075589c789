\* The worker may also die after its commit, before the queue has heard of it.
CONSTANTS
  Line = {"rice", "milk"}
  Code = {"rice", "milk"}
  LineCode <- Codes
  Scanned = {"rice", "milk"}
  Product = {p1, p2, p3}
  NoProduct = NoProduct
  NewProduct = NewProduct
  MaxProducts = 3
  Linkers = {o1}
  Confirmers = {o2}
  MaxOps = 2
  MaxRuns = 2
  MaxErrors = 2
  MaxDeaths = 1
  Redelivers = TRUE
  o1 = o1
  o2 = o2
  p1 = p1
  p2 = p2
  p3 = p3
SPECIFICATION Spec
PROPERTY StatusOrder
CHECK_DEADLOCK FALSE
