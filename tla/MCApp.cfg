\* Two requests in flight, three categories with each kind of lock, two fixtures with two
\* outcomes each, one ticket made by hand, one credit, one change of the account elsewhere.
CONSTANTS
  Calls = {1, 2}
  Categories = {"pro", "ultra", "multiplas"}
  Games = {g1, g2}
  Odds = {o1, o2}
  MaxBalance = 1
  MaxChanges = 1
  Uuids = {t1}
  MultipleLegs = 2
  MarketOf <- AMarket
  Avatars = {"ball", "crown"}
  Nicknames = {"ana"}
SPECIFICATION TourSpec
SYMMETRY Fixtures
INVARIANTS
  AppTypeOK
  ChipsMatchTickets
  BusyIsPending
  CouponIsTheTicket
