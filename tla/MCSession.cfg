\* Two admins and a member share a browser; two calls at a time, two logins, two tokens
\* that run out, and one answer lost or one reload.
CONSTANTS
  Users = {ana, bia, caio}
  Admins = {ana, bia}
  Calls = {c1, c2}
  MaxLogins = 2
  MaxExpiries = 2
  MaxTokens = 3
  MaxFailures = 1
SYMMETRY MCSymmetry
SPECIFICATION MCSessionSpec
INVARIANTS
  SessionTypeOK
  OneTokenPerLogin
  NeverLeftWithSpentToken
  LoggedOutStaysOut
  CallsAreShort
  CheckingIsPending
