\* One match, one ticket, and a sync while the match is live.
CONSTANTS
  e1 = e1
  e2 = e2
  Events = {e1}
  Tickets = {hand1}
  Generated = {}
  Pollers = {p1}
  Graders = {g1}
  Syncs = {y1}
  Scorelines <- MCScorelines
  Lines <- MCLines
  Picks <- MCPicks
  Multiples = {}
  FixtureOf <- MCFixtureOf
  Times <- MCTimes
  MatchWindow = 2
  FullTime = 1
  MaxGoals = 1
  Horizon = 5
  MaxEdits = 0
  MaxFailures = 0
  NoRow = NoRow
  NoScore = NoScore
SPECIFICATION MCSettlementSpec
PROPERTIES
  CapturedScoreIsKept
