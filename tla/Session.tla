-------------------------------- MODULE Session --------------------------------
(***************************************************************************)
(* Logging in and staying logged in: AuthService on the server, and in the *)
(* browser the token storage, the two clients that refresh it on their own *)
(* (apiClient, adminApi), the login state of AuthContext and the           *)
(* backoffice's gate (AdminPage).                                          *)
(*                                                                         *)
(* Tokens are numbered in the order they are issued. A login or a refresh  *)
(* issues a pair, an access and a refresh token, under one number; an      *)
(* admin session issues an admin token. Several calls of the page are in   *)
(* flight at once; each is a record that holds what the browser read when  *)
(* it sent the request, and goes on after the answer with what the storage *)
(* holds by then.                                                          *)
(***************************************************************************)
EXTENDS Naturals, Sequences, FiniteSets

CONSTANTS
  Users,        \* the emails that log in
  Admins,       \* those in ADMIN_EMAILS, whose role every login promotes
  Calls,        \* calls the page can have in flight together
  MaxFailures   \* bound: answers lost and reloads of the page

ASSUME SessionAssumption == Admins \subseteq Users /\ MaxFailures \in Nat

Null == 0
Passwords == {"none", "right", "wrong"}

VARIABLES
  owner,      \* owner[n]: the user token n was issued to
  chain,      \* history: the login the pair n descends from
  access,     \* access tokens that have not expired
  refresh,    \* rows of RefreshToken
  expired,    \* refresh tokens past expiresAt
  admin,      \* admin tokens that have not expired
  lost,       \* history: refresh tokens whose exchange the browser never heard of
  stored,     \* localStorage
  authed,     \* isAuthenticated
  password,   \* the backoffice password kept in memory
  page,       \* AdminPage: "closed" while it is not mounted
  left,       \* history: users who logged out and whom nothing under way can bring back
  call,
  failures

server == <<owner, chain, access, refresh, expired, admin>>
browser == <<stored, authed, password, page, left>>
sessionVars == <<server, lost, browser, call, failures>>

Idle == [kind |-> "none", at |-> "idle", asks |-> "none", stage |-> "first",
         access |-> Null, admin |-> Null, refresh |-> Null, password |-> "none",
         answer |-> "none", gets |-> Null, fetches |-> 0, mounted |-> FALSE]

ForgetsAdmin == [access |-> Null, refresh |-> Null]
LoggedOut == [access |-> Null, refresh |-> Null, admin |-> Null]

SessionInit ==
  /\ owner = <<>> /\ chain = <<>>
  /\ access = {} /\ refresh = {} /\ expired = {} /\ admin = {} /\ lost = {}
  /\ stored = LoggedOut /\ authed = FALSE /\ password = "none" /\ page = "closed"
  /\ left = {}
  /\ call = [c \in Calls |-> Idle]
  /\ failures = 0

Numbers == 1..Len(owner)
Fresh == Len(owner) + 1

-----------------------------------------------------------------------------
(* The browser sends a request: its headers and body are read from storage *)
(* s in the same turn. r is the call it belongs to.                        *)

\* The refresh token is the one the call found when it began.
SendCaptured(r, what, s, pw) ==
  [r EXCEPT !.at = "sent", !.asks = what, !.answer = "none", !.gets = Null,
            !.access = IF what = "refresh" THEN Null ELSE s.access,
            !.admin = IF what = "backoffice" THEN s.admin ELSE Null,
            !.refresh = IF @ = Null THEN s.refresh ELSE @,
            !.password = IF what = "session" THEN pw ELSE "none",
            !.fetches = @ + 1]

Send(r, what, s, pw) ==
  [r EXCEPT !.at = "sent", !.asks = what, !.answer = "none", !.gets = Null,
            !.access = IF what = "refresh" THEN Null ELSE s.access,
            !.admin = IF what = "backoffice" THEN s.admin ELSE Null,
            !.refresh = IF what = "refresh" THEN s.refresh ELSE Null,
            !.password = IF what = "session" THEN pw ELSE "none",
            !.fetches = @ + 1]

Begin(kind, stage) == [Idle EXCEPT !.kind = kind, !.stage = stage]

Answer(c, what, n) ==
  call' = [call EXCEPT ![c].at = "answered", ![c].answer = what, ![c].gets = n]

Asked(c, what) == call[c].at = "sent" /\ call[c].asks = what

-----------------------------------------------------------------------------
(* The server.                                                             *)

\* JwtAuthGuard: the access token is signed and has not expired.
Authentic(c) == call[c].access \in access

\* AdminRoleGuard after JwtAuthGuard: the role, then an admin token of the same user.
BackofficeAnswer(c) ==
  IF ~Authentic(c) THEN "401"
  ELSE IF owner[call[c].access] \notin Admins THEN "403"
  ELSE IF /\ call[c].admin \in admin
          /\ owner[call[c].admin] = owner[call[c].access]
       THEN "ok" ELSE "401"

\* issueAdminSession with assertAdminPassword.
SessionAnswer(c) ==
  IF ~Authentic(c) THEN "401"
  ELSE IF owner[call[c].access] \notin Admins THEN "403"
  ELSE IF call[c].password = "right" THEN "ok" ELSE "401"

issueTokens(u, root) ==
  /\ owner' = Append(owner, u)
  /\ chain' = Append(chain, root)
  /\ access' = access \cup {Fresh}

ServePage(c) ==
  /\ Asked(c, "page")
  /\ Answer(c, IF Authentic(c) THEN "ok" ELSE "401", Null)
  /\ UNCHANGED <<server, lost, browser, failures>>

ServeBackoffice(c) ==
  /\ Asked(c, "backoffice")
  /\ Answer(c, BackofficeAnswer(c), Null)
  /\ UNCHANGED <<server, lost, browser, failures>>

login(c, u) ==
  /\ Asked(c, "login")
  /\ issueTokens(u, Fresh)
  /\ refresh' = refresh \cup {Fresh}
  /\ Answer(c, "ok", Fresh)
  /\ UNCHANGED <<expired, admin, lost, browser, failures>>

issueAdminSession(c) ==
  /\ Asked(c, "session")
  /\ IF SessionAnswer(c) = "ok"
     THEN /\ owner' = Append(owner, owner[call[c].access])
          /\ chain' = Append(chain, Null)
          /\ admin' = admin \cup {Fresh}
          /\ Answer(c, "ok", Fresh)
     ELSE /\ Answer(c, SessionAnswer(c), Null)
          /\ UNCHANGED <<owner, chain, admin>>
  /\ UNCHANGED <<access, refresh, expired, lost, browser, failures>>

\* refresh: find the row, delete it by id, create the next one, each a statement of
\* its own; the delete throws when the row is gone.
FindRefreshToken(c) ==
  /\ Asked(c, "refresh")
  /\ IF call[c].refresh \in refresh \ expired
     THEN call' = [call EXCEPT ![c].at = "found"]
     ELSE Answer(c, "401", Null)
  /\ UNCHANGED <<server, lost, browser, failures>>

DeleteIfThere(c) ==
  /\ call[c].at = "found"
  /\ refresh' = refresh \ {call[c].refresh}
  /\ call' = [call EXCEPT ![c].at = "rotated"]
  /\ UNCHANGED <<owner, chain, access, expired, admin, lost, browser, failures>>

DeleteRefreshToken(c) ==
  /\ call[c].at = "found"
  /\ IF call[c].refresh \in refresh
     THEN /\ refresh' = refresh \ {call[c].refresh}
          /\ call' = [call EXCEPT ![c].at = "rotated"]
     ELSE Answer(c, "500", Null) /\ UNCHANGED refresh
  /\ UNCHANGED <<owner, chain, access, expired, admin, lost, browser, failures>>

CreateRefreshToken(c) ==
  /\ call[c].at = "rotated"
  /\ issueTokens(owner[call[c].refresh], chain[call[c].refresh])
  /\ refresh' = refresh \cup {Fresh}
  /\ Answer(c, "ok", Fresh)
  /\ UNCHANGED <<expired, admin, lost, browser, failures>>

\* Time: a token runs out, a pair's access token (15 minutes) first.
Expire(n) ==
  /\ \/ n \in access /\ access' = access \ {n} /\ UNCHANGED <<admin, expired>>
     \/ n \in admin /\ admin' = admin \ {n} /\ UNCHANGED <<access, expired>>
     \/ /\ n \in refresh \ (access \cup expired)
        /\ expired' = expired \cup {n} /\ UNCHANGED <<access, admin>>
  /\ UNCHANGED <<owner, chain, refresh, lost, browser, call, failures>>

-----------------------------------------------------------------------------
(* The browser.                                                            *)

KeepOldRefresh(n) == [stored EXCEPT !.access = n, !.refresh = IF @ = Null THEN n ELSE @]
setTokens(n) == [stored EXCEPT !.access = n, !.refresh = n]
clearAdminSession == [stored EXCEPT !.admin = Null]

\* What call c does next: send another request, or end. s is the storage by then.
Continue(c, r, what, s) ==
  stored' = s /\ call' = [call EXCEPT ![c] = Send(r, what, s, password)]
End(c, s) == stored' = s /\ call' = [call EXCEPT ![c] = Idle]

Got(c, kind, what) ==
  /\ call[c].at = "answered" /\ call[c].kind = kind /\ call[c].asks = what
  /\ UNCHANGED <<server, lost, password, failures>>

RefreshableAgain(c) == call[c].answer = "401" /\ stored.refresh # Null

\* Whether a 401 sends call c to /auth/refresh: once per call, and not without a token.
Refreshable(c) ==
  /\ call[c].answer = "401" /\ call[c].stage = "first" /\ stored.refresh # Null

\* ApiClient.request.
GotPage(c) ==
  /\ Got(c, "member", "page")
  /\ IF Refreshable(c) THEN Continue(c, call[c], "refresh", stored) ELSE End(c, stored)
  /\ UNCHANGED <<authed, page, left>>

\* ApiClient.tryRefresh and the retry after it; a lost answer rejects the call.
GotRefresh(c) ==
  /\ Got(c, "member", "refresh")
  /\ CASE call[c].answer = "ok" ->
            Continue(c, [call[c] EXCEPT !.stage = "last"], "page", setTokens(call[c].gets))
       [] call[c].answer = "lost" -> End(c, stored)
       [] OTHER -> End(c, LoggedOut)
  /\ UNCHANGED <<authed, page, left>>

\* LoginScreen.submit and AuthContext.login.
GotLogin(c) ==
  /\ Got(c, "login", "login")
  /\ IF call[c].answer = "ok"
     THEN /\ End(c, setTokens(call[c].gets))
          /\ authed' = TRUE /\ left' = left \ {owner[call[c].gets]}
     ELSE End(c, stored) /\ UNCHANGED <<authed, left>>
  /\ UNCHANGED page

\* adminApi.req when its request is still refused: a new admin session, once.
Reopen(c, s) ==
  IF s.access = Null THEN End(c, s)
  ELSE Continue(c, [call[c] EXCEPT !.stage = "last"], "session", s)

GotBackoffice(c) ==
  /\ Got(c, "admin", "backoffice")
  /\ CASE Refreshable(c) -> Continue(c, call[c], "refresh", stored)
       [] call[c].answer = "401" /\ call[c].stage # "last" /\ ~Refreshable(c) ->
            Reopen(c, clearAdminSession)
       [] OTHER -> End(c, stored)
  /\ UNCHANGED <<authed, page, left>>

\* adminApi.refreshTokens: a refusal leaves the storage alone.
GotAdminRefresh(c) ==
  /\ Got(c, "admin", "refresh")
  /\ CASE call[c].answer = "ok" ->
            Continue(c, [call[c] EXCEPT !.stage = "second"], "backoffice", setTokens(call[c].gets))
       [] call[c].answer = "lost" -> End(c, stored)
       [] OTHER -> Reopen(c, clearAdminSession)
  /\ UNCHANGED <<authed, page, left>>

GotReopened(c) ==
  /\ Got(c, "admin", "session")
  /\ CASE call[c].answer = "ok" ->
            Continue(c, call[c], "backoffice", [stored EXCEPT !.admin = call[c].gets])
       [] call[c].answer = "lost" -> End(c, stored)
       [] OTHER -> End(c, clearAdminSession)
  /\ UNCHANGED <<authed, page, left>>

\* createAdminSession for the page; its outcome shows only while the page that asked
\* is still mounted.
Show(c, what) == page' = IF call[c].mounted THEN what ELSE page

GotSessionNoCatch(c) ==
  /\ Got(c, "open", "session")
  /\ CASE call[c].answer = "ok" ->
            End(c, [stored EXCEPT !.admin = call[c].gets]) /\ Show(c, "ready")
       [] Refreshable(c) -> Continue(c, call[c], "refresh", stored) /\ UNCHANGED page
       [] call[c].answer = "lost" -> End(c, stored) /\ UNCHANGED page
       [] OTHER ->
            /\ End(c, clearAdminSession)
            /\ Show(c, IF call[c].answer = "403" THEN "denied" ELSE "need-password")
  /\ UNCHANGED <<authed, left>>

GotSession(c) ==
  /\ Got(c, "open", "session")
  /\ CASE call[c].answer = "ok" ->
            End(c, [stored EXCEPT !.admin = call[c].gets]) /\ Show(c, "ready")
       [] Refreshable(c) -> Continue(c, call[c], "refresh", stored) /\ UNCHANGED page
       [] call[c].answer = "lost" -> End(c, stored) /\ Show(c, "need-password")
       [] OTHER ->
            /\ End(c, clearAdminSession)
            /\ Show(c, IF call[c].answer = "403" THEN "denied" ELSE "need-password")
  /\ UNCHANGED <<authed, left>>

GotOpenRefresh(c) ==
  /\ Got(c, "open", "refresh")
  /\ CASE call[c].answer = "ok" ->
            /\ Continue(c, [call[c] EXCEPT !.stage = "last"], "session",
                        setTokens(call[c].gets))
            /\ UNCHANGED page
       [] call[c].answer = "lost" -> End(c, stored) /\ Show(c, "need-password")
       [] OTHER -> End(c, clearAdminSession) /\ Show(c, "need-password")
  /\ UNCHANGED <<authed, left>>

\* The answer of a page that was reloaded: nobody is left to read it.
Orphaned(c) ==
  /\ call[c].kind = "orphan" /\ call[c].at = "answered"
  /\ call' = [call EXCEPT ![c] = Idle]
  /\ UNCHANGED <<server, lost, browser, failures>>

Receive(c) ==
  \/ GotPage(c) \/ GotRefresh(c) \/ GotLogin(c)
  \/ GotBackoffice(c) \/ GotAdminRefresh(c) \/ GotReopened(c)
  \/ GotSession(c) \/ GotOpenRefresh(c) \/ Orphaned(c)

-----------------------------------------------------------------------------
(* The user.                                                               *)

Start(c, kind, stage, what, pw, onPage) ==
  /\ call[c].kind = "none"
  /\ call' = [call EXCEPT ![c] =
       Send([Begin(kind, stage) EXCEPT !.mounted = onPage], what, stored, pw)]

\* The button is disabled while a login is on its way.
SubmitLogin(c) ==
  /\ ~authed /\ \A d \in Calls : call[d].kind # "login"
  /\ Start(c, "login", "first", "login", "none", FALSE)
  /\ UNCHANGED <<server, lost, browser, failures>>

\* A screen's call through apiClient, or ("last") through tipsterApi or tutorialApi,
\* which never refresh.
Request(c, stage) ==
  /\ authed /\ Start(c, "member", stage, "page", "none", FALSE)
  /\ UNCHANGED <<server, lost, browser, failures>>

Manage(c) ==
  /\ page = "ready" /\ Start(c, "admin", "first", "backoffice", "none", FALSE)
  /\ UNCHANGED <<server, lost, browser, failures>>

\* ensureAdminSession: a stored admin token is taken at its word.
Ensure(c, pw) ==
  IF stored.admin # Null THEN page' = "ready" /\ UNCHANGED call
  ELSE IF stored.access = Null THEN page' = "need-password" /\ UNCHANGED call
  ELSE /\ Start(c, "open", "first", "session", pw, TRUE)
       /\ page' = IF page = "closed" THEN "checking" ELSE page

OpenBackoffice(c) ==
  /\ authed /\ page = "closed"
  /\ Ensure(c, password)
  /\ UNCHANGED <<server, lost, stored, authed, password, left, failures>>

\* handleSubmitPassword: disabled while submitting.
SubmitPassword(c, pw) ==
  /\ page = "need-password" /\ \A d \in Calls : ~call[d].mounted
  /\ password' = pw
  /\ Ensure(c, pw)
  /\ UNCHANGED <<server, lost, stored, authed, left, failures>>

Unmounted == [c \in Calls |-> [call[c] EXCEPT !.mounted = FALSE]]

LeaveBackoffice ==
  /\ page # "closed" /\ page' = "closed" /\ call' = Unmounted
  /\ UNCHANGED <<server, lost, stored, authed, password, left, failures>>

\* Requests whose answer is stored as it comes, and the tokens they are about.
Returning(c) == call[c].kind # "orphan" /\ call[c].asks \in {"refresh", "session"}
TokensOf(c) == {call[c].access, call[c].refresh, call[c].gets} \ {Null}

UnderWay == UNION {{owner[n] : n \in TokensOf(c)} : c \in {d \in Calls : Returning(d)}}

\* AuthContext.logout, on the profile screen; the server is not told, and nothing that
\* is under way is called off.
Logout ==
  /\ authed /\ page = "closed"
  /\ stored' = LoggedOut /\ authed' = FALSE
  /\ left' = left \cup ({owner[n] : n \in {stored.access} \ {Null}} \ UnderWay)
  /\ UNCHANGED <<server, lost, password, page, call, failures>>

-----------------------------------------------------------------------------
(* What goes wrong on the way.                                             *)

Unheard(c) ==
  IF call[c].asks = "refresh" /\ call[c].at # "sent" THEN {call[c].refresh} ELSE {}

\* The request or its answer does not arrive, or the server dies under it.
Lose(c) ==
  /\ failures < MaxFailures /\ failures' = failures + 1
  /\ call[c].at \in {"sent", "found", "rotated", "answered"} /\ call[c].answer # "lost"
  /\ lost' = lost \cup Unheard(c)
  /\ Answer(c, "lost", Null)
  /\ UNCHANGED <<server, browser>>

\* The page is reloaded; requests already sent go on without it.
Reload ==
  /\ failures < MaxFailures /\ failures' = failures + 1
  /\ authed' = (stored.access # Null) /\ password' = "none" /\ page' = "closed"
  /\ call' = [c \in Calls |-> IF call[c].kind = "none" THEN Idle
                              ELSE [call[c] EXCEPT !.kind = "orphan", !.mounted = FALSE]]
  /\ lost' = lost \cup {call[c].refresh : c \in {d \in Calls : call[d].asks = "refresh"}}
  /\ UNCHANGED <<server, stored, left>>

-----------------------------------------------------------------------------

Serve(c) ==
  \/ ServePage(c) \/ ServeBackoffice(c) \/ issueAdminSession(c)
  \/ FindRefreshToken(c) \/ DeleteRefreshToken(c) \/ CreateRefreshToken(c)
  \/ \E u \in Users : login(c, u)

Act(c) ==
  \/ SubmitLogin(c) \/ Manage(c) \/ OpenBackoffice(c)
  \/ \E stage \in {"first", "last"} : Request(c, stage)
  \/ \E pw \in Passwords \ {"none"} : SubmitPassword(c, pw)

SessionNext ==
  \/ \E c \in Calls : Serve(c) \/ Receive(c) \/ Act(c) \/ Lose(c)
  \/ LeaveBackoffice \/ Logout \/ Reload
  \/ \E n \in Numbers : Expire(n)

\* The server answers or the connection breaks, and the browser runs what waits for
\* the answer; nobody has to act and no token has to run out.
SessionFairness ==
  \A c \in Calls : WF_sessionVars(Serve(c)) /\ WF_sessionVars(Receive(c))

SessionSpec == SessionInit /\ [][SessionNext]_sessionVars /\ SessionFairness

-----------------------------------------------------------------------------
(* Properties.                                                             *)

CallRecord ==
  [kind : {"none", "login", "member", "admin", "open", "orphan"},
   at : {"idle", "sent", "found", "rotated", "answered"},
   asks : {"none", "login", "page", "backoffice", "refresh", "session"},
   stage : {"first", "second", "last"},
   access : {Null} \cup Numbers, admin : {Null} \cup Numbers,
   refresh : {Null} \cup Numbers, password : Passwords,
   answer : {"none", "ok", "401", "403", "500", "lost"},
   gets : {Null} \cup Numbers, fetches : Nat, mounted : BOOLEAN]

\* Type invariant: tokens are numbers that were issued, and each set holds tokens of
\* its kind.
SessionTypeOK ==
  /\ owner \in Seq(Users)
  /\ chain \in Seq(Nat) /\ Len(chain) = Len(owner)
  /\ access \subseteq Numbers /\ refresh \subseteq Numbers
  /\ expired \subseteq Numbers /\ lost \subseteq Numbers
  /\ admin \subseteq Numbers /\ admin \cap (access \cup refresh) = {}
  /\ stored \in [access : {Null} \cup Numbers, refresh : {Null} \cup Numbers,
                 admin : {Null} \cup Numbers]
  /\ authed \in BOOLEAN /\ password \in Passwords
  /\ page \in {"closed", "checking", "need-password", "ready", "denied"}
  /\ call \in [Calls -> CallRecord]
  /\ left \subseteq Users
  /\ failures \in 0..MaxFailures

\* Rotation never multiplies a session: however many calls try to exchange the same
\* refresh token together, a login has one row, or one exchange between its delete
\* and its create (AuthService.refresh).
OneTokenPerLogin ==
  \A root \in {chain[n] : n \in refresh} :
    Cardinality({n \in refresh : chain[n] = root})
      + Cardinality({c \in Calls : /\ call[c].at = "rotated"
                                   /\ chain[call[c].refresh] = root}) <= 1

\* Once its calls are over the browser is never left with a refresh token it has
\* spent, whichever of the two clients exchanged it and in whatever order the answers
\* came: the stored one still has its row, unless an answer never reached the browser.
NeverLeftWithSpentToken ==
  (\A c \in Calls : call[c].at = "idle") =>
    stored.refresh \in {Null} \cup refresh \cup lost

\* Logging out is final for whoever did not just refresh: however many requests of
\* theirs are still unanswered, and whoever logs in next, nothing of theirs is stored
\* again until they log in, unless a refresh or an admin session was under way as they
\* left. A refused call reads the storage when its answer comes, not when it was sent
\* (ApiClient.request, adminApi.req, AuthContext.logout).
LoggedOutStaysOut ==
  \A n \in {stored.access, stored.refresh, stored.admin} \ {Null} : owner[n] \notin left

\* A call asks the server a bounded number of times however often it is refused: its
\* request, one refresh, a repetition; the backoffice's one admin session and a last
\* repetition more.
CallsAreShort ==
  \A c \in Calls :
    call[c].fetches <= (IF call[c].kind \in {"admin", "orphan"} THEN 5 ELSE 3)

\* AdminPage only shows "Abrindo sessao admin..." while the call that will take it away
\* is under way: whichever way that call ends, the page moves on (AdminPage's effect,
\* createAdminSession), unless it was left and its answer belongs to nobody.
CheckingIsPending ==
  page = "checking" => \E c \in Calls : call[c].kind = "open" /\ call[c].mounted

\* The tokens are only thrown away at a logout or when the server no longer honours
\* the refresh token (adminApi.ts: no or expired refresh token, the user must log in).
OnlyDeadSessionsAreCleared ==
  [][stored.refresh # Null /\ stored'.refresh = Null /\ authed' =>
       stored.refresh \notin refresh \ expired]_sessionVars

=============================================================================
