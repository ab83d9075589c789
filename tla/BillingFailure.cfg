\* A charge that is refused and then paid, its events repeated.
CONSTANTS
  Tab = {t1}
  Charger = {}
  Admin = {}
  Visitor = {}
  Agreement = {a1}
  Charge = {c1}
  None = None
  MaxNow = 0
  MaxOps = 1
  t1 = t1
  k1 = k1
  k2 = k2
  x1 = x1
  v1 = v1
  a1 = a1
  a2 = a2
  c1 = c1
  c2 = c2
SPECIFICATION Spec
INVARIANT FailureAppliedOnce
CHECK_DEADLOCK FALSE
