\* Two confirmations of the same import, in two tabs or by two operators.
CONSTANTS
  Line = {"rice", "milk"}
  Code = {"rice", "milk"}
  LineCode <- Codes
  Scanned = {"rice", "milk"}
  Product = {p1, p2, p3}
  NoProduct = NoProduct
  NewProduct = NewProduct
  MaxProducts = 3
  Linkers = {}
  Confirmers = {o1, o2}
  MaxOps = 1
  MaxRuns = 1
  MaxErrors = 2
  MaxDeaths = 1
  Redelivers = FALSE
  o1 = o1
  o2 = o2
  p1 = p1
  p2 = p2
  p3 = p3
SPECIFICATION Spec
INVARIANT EntersOnce
CHECK_DEADLOCK FALSE
