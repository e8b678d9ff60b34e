---------------------------------- MODULE Feed ----------------------------------
(***************************************************************************)
(* The screens that show tickets and plans: the home hub, the rail of      *)
(* tickets with the sportsbook's frame, the plans, the past greens.        *)
(***************************************************************************)
EXTENDS Client

Explained == {"multiplas", "ultra", "alavancagem"}     \* CATEGORY_EXPLAINERS
SoldApart == {"ultra", "alavancagem"}                  \* those that name a checkout

\* PlanosScreen as it mounts: until /me is answered, and when it fails, the plan is taken
\* for the free one.
PlanosScreen == [at |-> "planos", rank |-> 0]

-----------------------------------------------------------------------------
(* HomeScreen.                                                             *)

HomeScreen == [at |-> "home", planRank |-> {}, popup |-> {}]

\* The locked tiles and the category each opens for the plans that cover it.
LockedCards == {"ultra", "alavancagem"} \cap Categories

\* resolveCard: by the plan alone, which is not known until /me is answered.
Resolved(c) == \E r \in screen.planRank : r >= MinRank[c]

GotPlan(c) ==
  /\ screen.at = "home" /\ Done(c)
  /\ \/ Answered(c, "me") /\ screen' = [screen EXCEPT !.planRank = {call[c].data.rank}]
     \/ Failed(c, "me") /\ screen' = [screen EXCEPT !.planRank = {0}]
  /\ UNCHANGED <<account, browser>>

-----------------------------------------------------------------------------
(* BilhetesScreen.                                                         *)

\* Before the first answer: DEFAULT_CATS, no ticket, "safes".
BilhetesScreen(asked) ==
  [at |-> "bilhetes", asked |-> asked, initialized |-> FALSE,
   open |-> {"safes", "pro", "ultra"} \cap Categories, filled |-> {},
   all |-> {}, cat |-> "safes", popup |-> {}]

\* openCard: a tile that is still locked explains itself; one that the plan covers leads
\* to its category.
openCard(c) ==
  /\ Reachable("home") /\ screen.popup = {} /\ c \in LockedCards
  /\ \/ /\ ~Resolved(c)
        /\ screen' = [screen EXCEPT !.popup = {c}] /\ UNCHANGED call
     \/ Resolved(c) /\ Go(BilhetesScreen({c}), {"feed"})
  /\ UNCHANGED <<account, browser>>

\* The category the rail opens with: the one asked for if it is open, or the first open
\* one with a ticket, or the one it was on.
Target(asked, data) ==
  LET firstOpen == SelectSeq(CATEGORIAS, LAMBDA c : c \in data.open \cap data.filled) IN
  IF asked \cap (data.open \cup {"all"}) # {} THEN Only(asked)
  ELSE IF firstOpen # <<>> THEN Head(firstOpen)
  ELSE screen.cat

\* loadFeed: chips and tickets come from one answer; only the first one chooses.
GotFeed(c) ==
  /\ screen.at = "bilhetes" /\ Answered(c, "feed") /\ Done(c)
  /\ LET data == call[c].data IN
     screen' = [screen EXCEPT !.open = data.open, !.filled = data.filled,
                              !.all = data.bilhetes, !.initialized = TRUE,
                              !.cat = IF screen.initialized THEN @
                                      ELSE Target(screen.asked, data)]
  /\ UNCHANGED <<account, browser>>

NoFeed(c) ==
  /\ screen.at = "bilhetes" /\ Failed(c, "feed") /\ Done(c)
  /\ screen' = [screen EXCEPT !.all = IF screen.initialized THEN @ ELSE {}]
  /\ UNCHANGED <<account, browser>>

\* useRevalidateOnFocus: the tab comes back to the foreground, from the checkout perhaps.
Revalidate ==
  /\ screen.at = "bilhetes" /\ Ask("feed", {})
  /\ UNCHANGED <<screen, account, browser>>

\* What a category's chip shows, and the tickets of the rail.
Shown == {t \in screen.all : screen.cat \in {"all", t.categoria}}

setCat(c) == screen' = [screen EXCEPT !.cat = c] /\ UNCHANGED <<call, coupon>>

\* pickCat: a locked chip explains itself or leads to the plans, an open one is a
\* function of the app that the gate holds back.
pickCat(c) ==
  /\ Reachable("bilhetes") /\ screen.popup = {} /\ c \in Categories \cup {"all"}
  /\ \/ /\ c \in screen.open \cup {"all"}
        /\ RequireUnlock("cat", c, setCat(c))
     \/ /\ c \notin screen.open \cup {"all"} /\ c \in Explained
        /\ screen' = [screen EXCEPT !.popup = {c}] /\ UNCHANGED <<call, coupon, held>>
     \/ /\ c \notin screen.open \cup {"all"} /\ c \notin Explained
        /\ Go(PlanosScreen, {"me"}) /\ UNCHANGED <<coupon, held>>
  /\ UNCHANGED <<account, locked>>

\* prefilledCouponUrl: the coupon of the ticket goes into the frame, and is kept for the
\* next visit.  Without one the link of its fixture is tried, which names a match and not
\* a coupon: the ticket only says that it has none.
setSportsbookUrl(t) ==
  coupon' = (IF t.coupon # {} THEN t.coupon ELSE coupon) /\ UNCHANGED <<screen, call>>

\* (The second case never comes: ChipsMatchTickets.)
addCoupon(t) ==
  /\ Reachable("bilhetes") /\ screen.popup = {} /\ t \in Shown
  /\ \/ /\ t.categoria \in screen.open
        /\ RequireUnlock("coupon", t, setSportsbookUrl(t))
     \/ /\ t.categoria \notin screen.open
        /\ Go(PlanosScreen, {"me"}) /\ UNCHANGED <<coupon, held>>
  /\ UNCHANGED <<account, locked>>

\* ExplainerModal, on both screens: it closes, to the checkout of what is sold apart, or
\* to the plans.
closeExplainer ==
  /\ screen.at \in {"home", "bilhetes"} /\ held = {} /\ screen.popup # {}
  /\ screen' = [screen EXCEPT !.popup = {}]
  /\ UNCHANGED <<call, account, browser>>

buyApart ==
  /\ screen.at \in {"home", "bilhetes"} /\ held = {} /\ changes < MaxChanges
  /\ \E c \in screen.popup \cap SoldApart : bought' = bought \cup {c}
  /\ screen' = [screen EXCEPT !.popup = {}]
  /\ changes' = changes + 1
  /\ UNCHANGED <<call, plan, balance, tickets, member, browser>>

onInterest ==
  /\ screen.at \in {"home", "bilhetes"} /\ held = {} /\ screen.popup \ SoldApart # {}
  /\ Go(PlanosScreen, {"me"})
  /\ UNCHANGED <<account, browser>>

-----------------------------------------------------------------------------
(* PlanosScreen.                                                           *)

GotCurrentPlan(c) ==
  /\ screen.at = "planos" /\ Done(c)
  /\ \/ Answered(c, "me") /\ screen' = [screen EXCEPT !.rank = call[c].data.rank]
     \/ Failed(c, "me") /\ screen' = PlanosScreen
  /\ UNCHANGED <<account, browser>>

\* A plan above the one shown as current is bought in another tab.
upgrade(r) ==
  /\ Reachable("planos") /\ r \in Ranks /\ r > screen.rank
  /\ changes < MaxChanges /\ changes' = changes + 1
  /\ plan' = r
  /\ UNCHANGED <<screen, call, bought, balance, tickets, member, browser>>

-----------------------------------------------------------------------------
(* UltimosGreensScreen; the filter by period is left out.                  *)

UltimosGreensScreen == [at |-> "greens", greens |-> {}, loading |-> TRUE]

GotGreens(c) ==
  /\ screen.at = "greens" /\ Done(c)
  /\ \/ Answered(c, "historico")
        /\ screen' = [screen EXCEPT !.greens = call[c].data, !.loading = FALSE]
     \/ Failed(c, "historico") /\ screen' = [screen EXCEPT !.loading = FALSE]
  /\ UNCHANGED <<account, browser>>

-----------------------------------------------------------------------------

FeedNext ==
  \/ \E c \in Calls : GotPlan(c) \/ GotFeed(c) \/ NoFeed(c) \/ GotCurrentPlan(c) \/ GotGreens(c)
  \/ \E c \in Categories \cup {"all"} : openCard(c) \/ pickCat(c)
  \/ \E t \in (IF screen.at = "bilhetes" THEN screen.all ELSE {}) : addCoupon(t)
  \/ Revalidate \/ closeExplainer \/ buyApart \/ onInterest
  \/ \E r \in Ranks : upgrade(r)

\* What the rail of tickets shows is of one piece, whichever of several answers came last
\* and whatever the member has bought since: every ticket on it is of a category that its
\* chips show as open and not empty, and no open chip counts tickets that are not there.
ChipsMatchTickets ==
  screen.at = "bilhetes" =>
    /\ \A t \in screen.all : t.categoria \in screen.open \cap screen.filled
    /\ \A c \in screen.open \cap screen.filled : \E t \in screen.all : t.categoria = c

=============================================================================
