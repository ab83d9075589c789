\* One checkout at a time against two chargers, one admin and one access check.
CONSTANTS
  Tab = {t1}
  Charger = {k1, k2}
  Admin = {x1}
  Visitor = {v1}
  Agreement = {a1, a2}
  Charge = {c1, c2}
  None = None
  MaxNow = 1
  MaxOps = 2
  t1 = t1
  k1 = k1
  k2 = k2
  x1 = x1
  v1 = v1
  a1 = a1
  a2 = a2
  c1 = c1
  c2 = c2
SPECIFICATION Spec
INVARIANTS
  TypeOK
  OneInvoicePerCharge
  PaidAppliedOnce
  ActiveEarned
  PaymentNotLost
SYMMETRY Symmetry
CHECK_DEADLOCK FALSE
