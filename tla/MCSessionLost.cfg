\* One member, two screens that meet the end of the access token together.
CONSTANTS
  Users = {ana}
  Admins = {}
  Calls = {c1, c2}
  MaxLogins = 1
  MaxExpiries = 1
  MaxTokens = 2
  MaxFailures = 0
SPECIFICATION MCSessionSpec
PROPERTY
  OnlyDeadSessionsAreCleared
