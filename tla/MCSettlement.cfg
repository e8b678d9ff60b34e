\* One match, a generated ticket and one made by hand; polls and gradings overlap,
\* and one run of any kind dies.
CONSTANTS
  e1 = e1
  e2 = e2
  Events = {e1}
  Tickets = {auto1, hand1}
  Generated = {auto1}
  Pollers = {p1, p2}
  Graders = {g1, g2}
  Syncs = {y1}
  Scorelines <- MCScorelines
  Lines <- MCLines
  Picks <- MCPicks
  Multiples = {}
  FixtureOf <- MCFixtureOf
  Times <- MCTimes
  MatchWindow = 2
  FullTime = 1
  MaxGoals = 1
  Horizon = 6
  MaxEdits = 0
  MaxFailures = 0
  NoRow = NoRow
  NoScore = NoScore
SPECIFICATION MCSettlementSpec
INVARIANTS
  SettlementTypeOK
  SettlesAsSold
  VerdictMatchesScore
  NoStaleList
PROPERTIES
  CapturedScoreIsFinal
SYMMETRY Runs
