-------------------------------- MODULE Tipster --------------------------------
(***************************************************************************)
(* The IA Tipster's page: the credits in its head, the chat, the games in  *)
(* play, and the shop.  One tab is mounted at a time, as "part".  A pass   *)
(* that makes analyses free is left out here (Wallet has it).              *)
(***************************************************************************)
EXTENDS Client

\* TipsterChat as it mounts.  Of what was said only who spoke last is kept.
TipsterChat ==
  [candidates |-> {}, found |-> {}, last |-> "nobody", needCredits |-> FALSE,
   busy |-> FALSE, upcoming |-> {}]

\* TipsterLive as it mounts.
TipsterLive ==
  [list |-> {}, upcoming |-> {}, loading |-> TRUE, busyId |-> {}, result |-> {},
   needCredits |-> FALSE]

TipsterPage ==
  [at |-> "tipster", tab |-> "chat", credits |-> {}, buy |-> "closed", part |-> TipsterChat]

On(tab) == screen.at = "tipster" /\ screen.tab = tab
Usable(tab) == On(tab) /\ screen.buy = "closed" /\ held = {}

\* setState of the tab.
Part(next) == screen' = [screen EXCEPT !.part = next]

-----------------------------------------------------------------------------
(* The server.                                                             *)

\* upcomingMatches, and the fuzzy search over them.
ServeUpcoming(c) ==
  /\ Sent(c, "upcoming") /\ Reply(c, "ok", Games)
  /\ UNCHANGED <<screen, account, browser>>

ServeSearch(c) ==
  /\ Sent(c, "search") /\ \E found \in SUBSET Games : Reply(c, "ok", found)
  /\ UNCHANGED <<screen, account, browser>>

\* liveMatches, and the games still to come.
ServeGames(c) ==
  /\ Sent(c, "games")
  /\ \E live \in SUBSET Games, dropped \in SUBSET {"upcoming"} :
       Reply(c, "ok", [live |-> live, up |-> IF dropped = {} THEN Games \ live ELSE {}])
  /\ UNCHANGED <<screen, account, browser>>

\* Mutant: the balance is not looked at.
ServeUnchecked(c) ==
  /\ Sent(c, "analyze") \/ Sent(c, "late")
  /\ balance' = balance - 1 /\ Reply(c, "ok", balance')
  /\ UNCHANGED <<screen, plan, bought, tickets, member, changes, browser>>

\* runAnalysis: a credit, or a refusal (402).
ServeAnalysis(c) ==
  /\ Sent(c, "analyze") \/ Sent(c, "late")
  /\ \/ balance > 0 /\ balance' = balance - 1 /\ Reply(c, "ok", balance')
     \/ balance = 0 /\ Reply(c, "402", {}) /\ UNCHANGED balance
  /\ UNCHANGED <<screen, plan, bought, tickets, member, changes, browser>>

-----------------------------------------------------------------------------
(* TipsterPage.                                                            *)

GotCredits(c) ==
  /\ screen.at = "tipster" /\ Done(c)
  /\ \/ Answered(c, "me") /\ screen' = [screen EXCEPT !.credits = {call[c].data.credits}]
     \/ Failed(c, "me") /\ screen' = [screen EXCEPT !.credits = {}]
  /\ UNCHANGED <<account, browser>>

\* Another tab: the one before is unmounted, the page is not, and still hears the balance
\* from the analyses on their way.
TabOrphans ==
  [c \in Calls |-> CASE call[c].kind \in {"me", "late"} -> call[c]
                     [] call[c].kind = "analyze" -> [call[c] EXCEPT !.kind = "late"]
                     [] OTHER -> Orphans[c]]

GotLate(c) ==
  /\ screen.at = "tipster" /\ Done(c)
  /\ \/ Answered(c, "late") /\ screen' = [screen EXCEPT !.credits = {call[c].data}]
     \/ Failed(c, "late") /\ UNCHANGED screen
  /\ UNCHANGED <<account, browser>>

setTab(tab) ==
  /\ screen.at = "tipster" /\ screen.tab # tab /\ screen.buy = "closed" /\ held = {}
  /\ \/ /\ tab = "chat" /\ screen' = [screen EXCEPT !.tab = tab, !.part = TipsterChat]
        /\ Asks(TabOrphans, {"upcoming"})
     \/ /\ tab = "aovivo" /\ screen' = [screen EXCEPT !.tab = tab, !.part = TipsterLive]
        /\ Asks(TabOrphans, {"games"})
     \/ /\ tab = "tutorial" /\ screen' = [screen EXCEPT !.tab = tab, !.part = {}]
        /\ Asks(TabOrphans, {})
  /\ UNCHANGED <<account, browser>>

\* BuyCreditsModal: from the credits in the head once they are known, or from the banner;
\* a pack, the checkout in a frame, back to the packs, or closed.
openShop ==
  /\ screen.at = "tipster" /\ screen.buy = "closed" /\ held = {}
  /\ screen.credits # {} \/ (screen.tab # "tutorial" /\ screen.part.needCredits)
  /\ screen' = [screen EXCEPT !.buy = "packs"]
  /\ UNCHANGED <<call, account, browser>>

turnShop(from, to) ==
  /\ screen.at = "tipster" /\ held = {} /\ screen.buy = from
  /\ <<from, to>> \in {<<"packs", "checkout">>, <<"checkout", "packs">>,
                       <<"packs", "closed">>, <<"checkout", "closed">>}
  /\ screen' = [screen EXCEPT !.buy = to]
  /\ UNCHANGED <<call, account, browser>>

-----------------------------------------------------------------------------
(* TipsterChat.                                                            *)

\* The suggestions are best effort.
GotUpcoming(c) ==
  /\ On("chat") /\ Done(c)
  /\ \/ Answered(c, "upcoming") /\ Part([screen.part EXCEPT !.upcoming = call[c].data])
     \/ Failed(c, "upcoming") /\ UNCHANGED screen
  /\ UNCHANGED <<account, browser>>

onSearch ==
  /\ Usable("chat") /\ ~screen.part.busy
  /\ Part([screen.part EXCEPT !.found = {}, !.candidates = {}, !.busy = TRUE])
  /\ Ask("search", {})
  /\ UNCHANGED <<account, browser>>

\* Mutant: a failed search returns before it clears busy.
GotMatchesOnly(c) ==
  /\ On("chat") /\ Done(c)
  /\ \/ /\ Answered(c, "search")
        /\ Part([screen.part EXCEPT !.candidates = call[c].data, !.busy = FALSE])
     \/ Failed(c, "search") /\ UNCHANGED screen
  /\ UNCHANGED <<account, browser>>

GotMatches(c) ==
  /\ On("chat") /\ Done(c)
  /\ \/ /\ Answered(c, "search")
        /\ Part([screen.part EXCEPT !.candidates = call[c].data, !.busy = FALSE])
     \/ Failed(c, "search") /\ Part([screen.part EXCEPT !.busy = FALSE])
  /\ UNCHANGED <<account, browser>>

\* The suggestions are there while the chat is empty, the candidates until one is chosen.
Offered ==
  LET p == screen.part IN
  IF p.found # {} THEN {}
  ELSE IF p.candidates # {} THEN p.candidates
  ELSE IF p.last = "nobody" THEN p.upcoming ELSE {}

setFound(g) ==
  /\ Usable("chat") /\ g \in Offered
  /\ Part([screen.part EXCEPT !.found = {g}])
  /\ UNCHANGED <<call, account, browser>>

dismiss ==
  /\ Usable("chat") /\ screen.part.found = {} /\ screen.part.candidates # {}
  /\ Part([screen.part EXCEPT !.candidates = {}])
  /\ UNCHANGED <<call, account, browser>>

resetChat ==
  /\ Usable("chat") /\ screen.part.last = "assistant"
  /\ Part([screen.part EXCEPT !.last = "nobody", !.candidates = {}, !.found = {},
                              !.needCredits = FALSE])
  /\ UNCHANGED <<call, account, browser>>

\* onConfirm, for the game that was found when "Analisar" was pressed.
onConfirm(g) ==
  /\ Part([screen.part EXCEPT !.needCredits = FALSE, !.busy = TRUE, !.candidates = {},
                              !.last = "user"])
  /\ Ask("analyze", g)
  /\ UNCHANGED coupon

confirm(g) ==
  /\ Usable("chat") /\ g \in screen.part.found /\ ~screen.part.busy
  /\ RequireUnlock("confirm", g, onConfirm(g))
  /\ UNCHANGED <<account, locked>>

GotAnalysis(c) ==
  /\ On("chat") /\ Done(c)
  /\ \/ /\ Answered(c, "analyze")
        /\ screen' = [screen EXCEPT !.credits = {call[c].data},
                        !.part = [@ EXCEPT !.last = "assistant", !.found = {}, !.busy = FALSE]]
     \/ /\ Failed(c, "analyze")
        /\ Part([screen.part EXCEPT !.busy = FALSE,
                                    !.needCredits = @ \/ call[c].at = "402"])
  /\ UNCHANGED <<account, browser>>

-----------------------------------------------------------------------------
(* TipsterLive.                                                            *)

\* The games in play and those to come, in one answer: without the former an error.
GotGames(c) ==
  /\ On("aovivo") /\ Done(c)
  /\ \/ /\ Answered(c, "games")
        /\ Part([screen.part EXCEPT !.list = call[c].data.live, !.upcoming = call[c].data.up,
                                    !.loading = FALSE])
     \/ Failed(c, "games") /\ Part([screen.part EXCEPT !.loading = FALSE])
  /\ UNCHANGED <<account, browser>>

refresh ==
  /\ Usable("aovivo") /\ screen.part.result = {} /\ ~screen.part.loading
  /\ Part([screen.part EXCEPT !.loading = TRUE]) /\ Ask("games", {})
  /\ UNCHANGED <<account, browser>>

\* onAnalyze and onAnalyzeUpcoming differ in what the result shows.
onAnalyze(g) ==
  /\ Part([screen.part EXCEPT !.busyId = {g}, !.needCredits = FALSE])
  /\ Ask("analyze", g)
  /\ UNCHANGED coupon

\* Only the game that was pressed last cannot be pressed again.
analyze(g) ==
  /\ Usable("aovivo") /\ screen.part.result = {}
  /\ g \in (screen.part.list \cup screen.part.upcoming) \ screen.part.busyId
  /\ RequireUnlock("analyze", g, onAnalyze(g))
  /\ UNCHANGED <<account, locked>>

GotResult(c) ==
  /\ On("aovivo") /\ Done(c)
  /\ \/ /\ Answered(c, "analyze")
        /\ screen' = [screen EXCEPT !.credits = {call[c].data},
                        !.part = [@ EXCEPT !.result = {call[c].about}, !.busyId = {}]]
     \/ /\ Failed(c, "analyze")
        /\ Part([screen.part EXCEPT !.busyId = {}, !.needCredits = @ \/ call[c].at = "402"])
  /\ UNCHANGED <<account, browser>>

closeResult ==
  /\ Usable("aovivo") /\ screen.part.result # {}
  /\ Part([screen.part EXCEPT !.result = {}])
  /\ UNCHANGED <<call, account, browser>>

-----------------------------------------------------------------------------

TipsterNext ==
  \/ \E c \in Calls :
       \/ ServeUpcoming(c) \/ ServeSearch(c) \/ ServeGames(c) \/ ServeAnalysis(c)
       \/ GotCredits(c) \/ GotLate(c) \/ GotUpcoming(c) \/ GotMatches(c) \/ GotAnalysis(c)
       \/ GotGames(c) \/ GotResult(c)
  \/ \E tab \in {"chat", "aovivo", "tutorial"} : setTab(tab)
  \/ openShop \/ \E from, to \in {"packs", "checkout", "closed"} : turnShop(from, to)
  \/ onSearch \/ dismiss \/ resetChat \/ refresh \/ closeResult
  \/ \E g \in Games : setFound(g) \/ confirm(g) \/ analyze(g)

\* The chat's button is disabled exactly while the chat waits for an answer: a press can
\* never send, and so never pay for, a second analysis beside the first, and a failure of
\* any request never leaves it disabled.  The other tab gives the weaker promise that
\* nothing stays disabled that waits for nothing.
TipsterBusyIsPending ==
  /\ On("chat") =>
       /\ Cardinality(InFlight("search") \cup InFlight("analyze")) <= 1
       /\ screen.part.busy <=> InFlight("search") \cup InFlight("analyze") # {}
  /\ On("aovivo") =>
       /\ screen.part.loading <=> InFlight("games") # {}
       /\ \A g \in screen.part.busyId : \E c \in InFlight("analyze") : call[c].about = g

=============================================================================
