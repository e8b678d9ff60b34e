\* Two sales of any kind, two requests at a time, one of which may die; the admin
\* switches the pack on and off; the clock advances once.
CONSTANTS
  ana = ana
  first = first
  second = second
  pack = pack
  emptied = emptied
  premium = premium
  free = free
  week = week
  month = month
  timedSingles = timedSingles
  lifeSingles = lifeSingles
  brokenPass = brokenPass
  singles = singles
  Null = Null
  NoTx = NoTx
  Users = {ana}
  Txs = {w1, w2}
  Events = {first, second}
  Refs = {first, second}
  Orders <- MixedOrders
  Categories = {singles}
  Toggleable = {pack}
  Amounts <- MCAmounts
  Product <- MCProduct
  MonthlyCredits <- MCMonthlyCredits
  MaxTime = 2
  MaxFailures = 1
SPECIFICATION MCBillingSpec
INVARIANTS
  BillingTypeOK
  GrantedExactlyOnce
  GrantsMatchRecords
PROPERTIES
  AckedIsFinal
  SalesAreGranted
