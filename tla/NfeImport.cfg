\* One operator links while another confirms; the worker dies once at most and
\* the database fails it twice at most.
CONSTANTS
  Line = {"rice", "milk"}
  Code = {"rice", "milk"}
  LineCode <- Codes
  Scanned = {"milk"}
  Product = {p1, p2, p3}
  NoProduct = NoProduct
  NewProduct = NewProduct
  MaxProducts = 3
  Linkers = {o1}
  Confirmers = {o2}
  MaxOps = 2
  MaxRuns = 1
  MaxErrors = 2
  MaxDeaths = 1
  Redelivers = FALSE
  o1 = o1
  o2 = o2
  p1 = p1
  p2 = p2
  p3 = p3
SPECIFICATION Spec
INVARIANTS
  TypeOK
  EntersOnce
  PostedAsShown
PROPERTIES
  StatusOrder
  NoteIsOneDeal
  ParseSettles
CHECK_DEADLOCK FALSE
