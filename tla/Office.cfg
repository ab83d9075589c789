CONSTANTS
  ana = ana  bia = bia  caio = caio  dora = dora
  w1 = w1  w2 = w2  n1 = n1  q1 = q1  q2 = q2  g1 = g1
  k1 = k1  k2 = k2  s1 = s1  e1 = e1  e2 = e2  small = small  large = large
  t1 = t1  t2 = t2  a1 = a1
  pa = pa  pb = pb  sa = sa  sb = sb
  ga = ga  gb = gb  b1 = b1  b2 = b2
  \* Accounts
  User = {ana, bia, caio, dora}
  Owner = ana
  Sellers = {bia, caio}
  Browser = {g1}
  Request = {q1, q2}
  Password = {w1, w2}
  FirstPassword = w1
  Pin = {n1}
  NoPin = NoPin
  Nobody = Nobody
  InviteTime = 1
  UnlockTime = 2
  PlatformTime = 1
  Window = 2
  Limit = 1
  MaxTime = 2
  MaxOps = 4
  \* Catalog
  Clerk = {k1, k2}
  Sku = {s1}
  Barcode = {e1, e2}
  NoCode = NoCode
  Plan = {small, large}
  Room <- MCRoom
  File <- MCFile
  JobAttempts = 3
  MaxRequests = 2
  MaxDeaths = 1
  \* Worker
  Tenant = {t1, t2}
  Alert = {a1}
  Tries = 2
  Daily = 2
  Recent = 1
  Horizon = 3
  MaxStops = 2
  MaxErrors = 2
  MaxChanges = 1
  \* Gateway
  Polls = 2
  MaxCheckouts = 2
  MaxFailures = 2
  MaxNews = 2
  \* Screens
  MaxSubmits = 2
  MaxOnTwo = 1
  MaxTroubles = 1
  \* LotPicker
  Perishable = {pa, pb}
  Shop = {sa, sb}
  MaxQuantity = 2
  MaxTaken = 1
  NotSet = NotSet
  \* Paging
  PageSize = 1
  FirstRows = {1, 3}
  MaxRow = 4
  MaxNew = 1
  MaxMoves = 1
  MaxClicks = 3
  \* Reports
  Good = {ga, gb}
  Branch = {b1, b2}
  Price <- MCPrice
  Stocked <- MCStocked
  Minima = {1, 2}
  StalledDays = 0
  MaxDay = 1
  MaxEvents = 2
SPECIFICATION OfficeSpec
INVARIANTS
  OfficeTypeOK
  UnlockEarned TriesCounted
  WithinPlan LabelsScan RowsOnce
  NoStrayAgreement PixHasAddress
  WrittenOnce ShowsOwnWrite
  LotOfItem EachRowOnce ReportsAgree
PROPERTIES
  InviteSpent
  ChargeReaches ScanReaches JobsEnd
  PollEnds
CHECK_DEADLOCK FALSE
