\* Lifetime access, then a timed product of the same category; one request at a time.
CONSTANTS
  ana = ana
  first = first
  second = second
  pack = pack
  emptied = emptied
  premium = premium
  free = free
  week = week
  month = month
  timedSingles = timedSingles
  lifeSingles = lifeSingles
  brokenPass = brokenPass
  singles = singles
  Null = Null
  NoTx = NoTx
  Users = {ana}
  Txs = {w1}
  Events = {first, second}
  Refs = {first, second}
  Orders <- LifetimeThenTimed
  Categories = {singles}
  Toggleable = {}
  Amounts <- MCAmounts
  Product <- MCProduct
  MonthlyCredits <- MCMonthlyCredits
  MaxTime = 1
  MaxFailures = 0
SPECIFICATION BillingSpec
PROPERTIES
  LifetimeAccessIsKept
