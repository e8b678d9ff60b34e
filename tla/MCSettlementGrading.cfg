\* One match with a multiple of the day, which never gets a result, and a ticket made by hand,
\* which an admin changes once it is due; one run of any kind dies.
CONSTANTS
  e1 = e1
  e2 = e2
  Events = {e1}
  Tickets = {auto1, hand1}
  Generated = {auto1}
  Pollers = {p1}
  Graders = {g1}
  Syncs = {y1}
  Scorelines <- MCScorelines
  Lines <- MCLines
  Picks <- MCPicks
  Multiples = {auto1}
  FixtureOf <- MCFixtureOf
  Times <- MCTimes
  MatchWindow = 2
  FullTime = 1
  MaxGoals = 1
  Horizon = 5
  MaxEdits = 1
  MaxFailures = 1
  NoRow = NoRow
  NoScore = NoScore
SPECIFICATION MCSettlementSpec
PROPERTIES
  DueTicketsAreGraded
