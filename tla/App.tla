----------------------------------- MODULE App -----------------------------------
(***************************************************************************)
(* The routes of the app: the screens (Feed, Tipster, Perfil, Backoffice)  *)
(* one at a time, under the provider of the Telegram gate.  The member is  *)
(* logged in, and may be an admin.                                         *)
(***************************************************************************)
EXTENDS Feed, Tipster, Perfil, Backoffice

appVars == <<screen, call, account, browser>>

Routes == {"home", "bilhetes", "planos", "greens", "tipster", "perfil", "admin"}

AppInit ==
  /\ screen = HomeScreen
  /\ call = [c \in Calls |-> IF c = Next1(Calls) THEN Request("me", {}) ELSE Idle]
  /\ plan \in Ranks /\ bought = {} /\ balance \in 0..MaxBalance /\ changes = 0
  /\ tickets \in Options(
       {Bilhete(Only(Uuids), k, {}, {s}, FALSE, {{s}}) : k \in Categories, s \in Selections}
         \cup {Bilhete(Only(Uuids), k, {}, {}, FALSE, {}) : k \in Categories})
  /\ member = [avatar |-> {}, nickname |-> {}]
  /\ coupon = {} /\ locked \in BOOLEAN /\ held = {}

-----------------------------------------------------------------------------

\* The member goes anywhere at any time, by the bar at the foot of the app or through the
\* history of the browser; the tickets' route may name a category.
Mounts(route) ==
  \/ route = "home" /\ Go(HomeScreen, {"me"})
  \/ route = "bilhetes" /\ \E asked \in Options(Categories) : Go(BilhetesScreen(asked), {"feed"})
  \/ route = "planos" /\ Go(PlanosScreen, {"me"})
  \/ route = "greens" /\ Go(UltimosGreensScreen, {"historico"})
  \/ route = "tipster" /\ Go(TipsterPage, {"me", "upcoming"})
  \/ route = "perfil" /\ Go(PerfilScreen, {"me", "gamification"})
  \/ route = "admin" /\ Go(AdminBilhetes("manage"), {"lists"})

\* The popup stays and holds what it held, for a screen that is gone; but the backoffice
\* is not under the provider.
Visit(route) ==
  /\ screen.at # route /\ Mounts(route)
  /\ held' = IF route = "admin" THEN {} ELSE {[h EXCEPT !.here = FALSE] : h \in held}
  /\ UNCHANGED <<account, coupon, locked>>

\* TopBar's pill on the tickets' screen.
createOdds ==
  /\ Reachable("bilhetes") /\ screen.popup = {}
  /\ RequireUnlock("tipster", {}, Go(TipsterPage, {"me", "upcoming"}) /\ UNCHANGED coupon)
  /\ UNCHANGED <<account, locked>>

\* What the gate's provider hears from the server and from the clock (TelegramGate).
GateChanges ==
  /\ locked' = ~locked
  /\ UNCHANGED <<screen, call, account, coupon, held>>

close ==
  /\ held # {} /\ held' = {}
  /\ UNCHANGED <<screen, call, account, coupon, locked>>

\* A request of a screen that is gone: nobody waits for the answer.
AskUnheard(kind, about) ==
  /\ Unused # {}
  /\ call' = [call EXCEPT ![Next1(Unused)] = [Request(kind, about) EXCEPT !.mine = FALSE]]

\* "Continuar": the action held runs, as it was when it was asked for; for a screen that
\* is gone it shows nothing, but it is still sent.
proceed ==
  /\ ~locked /\ held' = {}
  /\ \E h \in held :
       \/ h.what = "tipster" /\ Go(TipsterPage, {"me", "upcoming"}) /\ UNCHANGED coupon
       \/ h.here /\ h.what = "cat" /\ setCat(h.about)
       \/ h.here /\ h.what = "coupon" /\ setSportsbookUrl(h.about)
       \/ h.here /\ h.what = "confirm" /\ onConfirm(h.about)
       \/ h.here /\ h.what = "analyze" /\ onAnalyze(h.about)
       \/ /\ ~h.here /\ h.what \in {"confirm", "analyze"}
          /\ AskUnheard("analyze", h.about) /\ UNCHANGED <<screen, coupon>>
       \/ ~h.here /\ h.what \in {"cat", "coupon"} /\ UNCHANGED <<screen, call, coupon>>
  /\ UNCHANGED <<account, locked>>

ServerNext ==
  \/ \E c \in Calls : ServeFeed(c) \/ ServeHistorico(c) \/ ServeMe(c) \/ Break(c)
  \/ ChangePlan \/ ChangeAccess \/ TopUp

ScreenNext == FeedNext \/ TipsterNext \/ PerfilNext \/ BackofficeNext

ShellNext == createOdds \/ GateChanges \/ close \/ proceed

AppNext == ServerNext \/ ScreenNext \/ ShellNext \/ \E route \in Routes : Visit(route)

AppSpec == AppInit /\ [][AppNext]_appVars

-----------------------------------------------------------------------------

\* Types: the rows, and the requests, of which no two share an answer.
AppTypeOK ==
  /\ screen.at \in Routes
  /\ plan \in Ranks /\ bought \subseteq Categories
  /\ balance \in 0..MaxBalance /\ changes \in 0..MaxChanges
  /\ tickets \subseteq [id : Ids, categoria : Categories, event : Options(Games),
                        says : SUBSET Selections, byHand : BOOLEAN, coupon : Coupons,
                        published : BOOLEAN, resultado : {"pending", "green", "red"}]
  /\ \A t, u \in tickets : t.id = u.id => t = u
  /\ member \in Members /\ coupon \in Coupons /\ locked \in BOOLEAN
  /\ Cardinality(held) <= 1
  /\ \A c \in Calls : call[c].at \in {"idle", "sent", "ok", "failed", "402"}

\* A control that waits is one that will be answered, and the other way round: whatever a
\* screen disables while it works is disabled exactly as long as its request is on the
\* way, so that neither a failure nor a change of screens leaves it disabled and no second
\* press sends the work again.  Two screens keep the first half only: the games in play
\* (TipsterLive), and the backoffice, where Enter in the link's field asks while another
\* request is on the way and the first answer frees the controls.
BusyIsPending ==
  /\ TipsterBusyIsPending
  /\ screen.at = "admin" /\ screen.busy => UNION {InFlight(k) : k \in BusyKinds} # {}
  /\ screen.at = "perfil" =>
       Cardinality(InFlight("profile")) <= 1 /\ (screen.saving <=> InFlight("profile") # {})
  /\ screen.at = "greens" => (screen.loading <=> InFlight("historico") # {})

=============================================================================
