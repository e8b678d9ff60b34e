\* One user, an entrada the admin grades, three days; two tasks at once, one of which
\* dies half way.
CONSTANTS
  firstUnlock = firstUnlock
  levelTwo = levelTwo
  twoDays = twoDays
  firstGreen = firstGreen
  NoTask = NoTask
  Users = {ana}
  Tasks = {k1, k2}
  Entradas = {e1}
  Achievements = {firstUnlock, levelTwo, twoDays, firstGreen}
  Criteria <- MCCriteria
  XpRewards <- MCXpRewards
  LevelThresholds <- MCLevelThresholds
  MaxDay = 3
  MaxResults = 1
  MaxFailures = 1
SPECIFICATION GamificationSpec
INVARIANTS
  GamificationTypeOK
  XpAccounted
  StreakIsARun
  AchievementsAreEarned
PROPERTIES
  SameDayIsNoOp
SYMMETRY TaskSymmetry
