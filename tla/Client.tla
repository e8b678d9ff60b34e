--------------------------------- MODULE Client ---------------------------------
(***************************************************************************)
(* What the screens of the app share: the screen that is mounted, the      *)
(* requests it has in flight, the rows of the server they are answered     *)
(* from, and the popup of the Telegram gate.                               *)
(*                                                                         *)
(* One screen is mounted at a time and "screen" is its state; it is gone   *)
(* when the member leaves.  What it was reading then goes to nobody; what  *)
(* it was writing is still served.  Any request may fail, before the       *)
(* server has acted on it or after.                                        *)
(*                                                                         *)
(* An optional value is a set with at most one element.                    *)
(***************************************************************************)
EXTENDS Naturals, FiniteSets, Sequences

CONSTANTS
  Calls,        \* bound: requests in flight at once, numbered
  Categories,   \* the categories of tickets that occur
  Games,        \* games of the feed
  Odds,         \* selections the sportsbook offers
  MaxBalance,   \* bound: credits the member can have
  MaxChanges    \* bound: what happens to the account elsewhere

\* CATEGORIAS, in the order the app lists them, with the plan rank that opens each.
CATEGORIAS == <<"safes", "pro", "ultra", "alavancagem", "multiplas", "secundario", "ligas">>
MinRank == [safes |-> 0, pro |-> 1, ultra |-> 1, alavancagem |-> 2,
            multiplas |-> 2, secundario |-> 2, ligas |-> 2]

Ranks == 0..2   \* free, premium, diamante

ASSUME ClientAssumption ==
  /\ Calls \subseteq Nat
  /\ Categories \subseteq DOMAIN MinRank
  /\ MaxBalance \in Nat /\ MaxChanges \in Nat

VARIABLES
  screen,    \* the screen that is mounted, with its state
  call,      \* the requests in flight
  plan,      \* rank of the subscription while it is active, else 0
  bought,    \* categories bought apart and not expired (UserCategoryAccess)
  balance,   \* the member's credits
  tickets,   \* the rows of Bilhete
  member,    \* the member's own row: [avatar, nickname]
  coupon,    \* the coupon the sportsbook frame was last given, kept in the browser
  locked,    \* whether the Telegram gate is still shut
  held,      \* what the gate's popup holds back
  changes    \* how often the account has been changed elsewhere

account == <<plan, bought, balance, tickets, member, changes>>
browser == <<coupon, locked, held>>

Options(S) == {{}} \cup {{x} : x \in S}
Only(S) == CHOOSE x \in S : TRUE

-----------------------------------------------------------------------------
(* Requests.                                                               *)

\* What kind of request, about what; whether the screen that made it is still there;
\* what the server answered.
Idle == [kind |-> "none", at |-> "idle", about |-> {}, mine |-> FALSE, data |-> {}]
Request(kind, about) ==
  [kind |-> kind, at |-> "sent", about |-> about, mine |-> TRUE, data |-> {}]

Reads == {"feed", "me", "historico", "upcoming", "games", "search", "lists", "preview"}

Unused == {c \in Calls : call[c].at = "idle"}
Next1(S) == CHOOSE c \in S : \A d \in S : c <= d

Ask(kind, about) ==
  /\ Unused # {}
  /\ call' = [call EXCEPT ![Next1(Unused)] = Request(kind, about)]

\* The answer of c is read, and another request goes out in the same turn.
Instead(c, kind, about) == call' = [call EXCEPT ![c] = Request(kind, about)]

Sent(c, kind) == call[c].at = "sent" /\ call[c].kind = kind
Answered(c, kind) == call[c].at = "ok" /\ call[c].kind = kind
Failed(c, kind) == call[c].at \in {"failed", "402"} /\ call[c].kind = kind
InFlight(kind) == {c \in Calls : call[c].at # "idle" /\ call[c].kind = kind /\ call[c].mine}

\* The server answers; nobody hears the answer to a screen that is gone.
Reply(c, at, data) ==
  call' = [call EXCEPT ![c] = IF @.mine THEN [@ EXCEPT !.at = at, !.data = data] ELSE Idle]
Done(c) == call' = [call EXCEPT ![c] = Idle]

\* The requests that outlive the screen that made them.
Orphans ==
  [c \in Calls |-> IF call[c].at = "sent" /\ call[c].kind \notin Reads
                     THEN [call[c] EXCEPT !.mine = FALSE] ELSE Idle]

\* What is mounted asks for what it needs, at once.
Asks(base, kinds) ==
  LET unused == {c \in Calls : base[c].at = "idle"}
      slots == {f \in [kinds -> unused] : \A j, k \in kinds : f[j] = f[k] => j = k}
      slot == CHOOSE f \in slots : TRUE
  IN
  /\ slots # {}
  /\ call' = [c \in Calls |-> IF \E k \in kinds : slot[k] = c
                               THEN Request(CHOOSE k \in kinds : slot[k] = c, {})
                               ELSE base[c]]

\* The member goes to another screen.
Go(next, kinds) == screen' = next /\ Asks(Orphans, kinds)

-----------------------------------------------------------------------------
(* The Telegram gate (TelegramGate), of which only this is left: it opens  *)
(* some time, and what was asked of a locked app is held back meanwhile.   *)

\* requireUnlock: this action is for "runs" to perform; if the app is locked the popup
\* opens instead and holds it.  (here: the screen that asked is still there.)
RequireUnlock(what, about, runs) ==
  \/ ~locked /\ runs /\ UNCHANGED held
  \/ /\ locked /\ held' = {[what |-> what, about |-> about, here |-> TRUE]}
     /\ UNCHANGED <<screen, call, coupon>>

\* While the popup is open it covers the screen.
Reachable(at) == screen.at = at /\ held = {}

-----------------------------------------------------------------------------
(* The server's reads.                                                     *)

\* A ticket is in the feed while it is published and has no result; tickets whose time
\* is over are as good as taken back.
Published == {t \in tickets : t.published /\ t.resultado = "pending"}
OfCategories(S) == {t \in Published : t.categoria \in S}

\* Mutant: the chips know of plans alone.
ByPlanAlone == {c \in Categories : plan >= MinRank[c]}

Unlocked == {c \in Categories : plan >= MinRank[c] \/ c \in bought}

\* getFeed: how many tickets each category has and whether it is open, and the tickets of
\* the open ones.
ServeFeed(c) ==
  /\ Sent(c, "feed")
  /\ Reply(c, "ok", [open |-> Unlocked,
                     filled |-> {t.categoria : t \in Published},
                     bilhetes |-> OfCategories(
                       {x \in Categories : plan >= MinRank[x] \/ x \in bought})])
  /\ UNCHANGED <<screen, account, browser>>

\* getHistorico: the tickets that have hit, whatever the plan.
ServeHistorico(c) ==
  /\ Sent(c, "historico")
  /\ Reply(c, "ok", {t \in tickets : t.published /\ t.resultado = "green"})
  /\ UNCHANGED <<screen, account, browser>>

\* getProfile, as far as the screens read it.
ServeMe(c) ==
  /\ Sent(c, "me")
  /\ Reply(c, "ok", [rank |-> plan, credits |-> balance, member |-> member])
  /\ UNCHANGED <<screen, account, browser>>

\* The network or the server fails: the request is not served, or its answer is lost.
Break(c) ==
  /\ call[c].at \in {"sent", "ok"}
  /\ Reply(c, "failed", {})
  /\ UNCHANGED <<screen, account, browser>>

\* What happens to the account elsewhere: a checkout or an expiry, credits bought.
ChangePlan ==
  /\ changes < MaxChanges /\ changes' = changes + 1
  /\ plan' \in Ranks \ {plan}
  /\ UNCHANGED <<screen, call, bought, balance, tickets, member, browser>>

ChangeAccess ==
  /\ changes < MaxChanges /\ changes' = changes + 1
  /\ \E c \in Categories :
       bought' = IF c \in bought THEN bought \ {c} ELSE bought \cup {c}
  /\ UNCHANGED <<screen, call, plan, balance, tickets, member, browser>>

TopUp ==
  /\ changes < MaxChanges /\ changes' = changes + 1
  /\ balance < MaxBalance /\ balance' = balance + 1
  /\ UNCHANGED <<screen, call, plan, bought, tickets, member, browser>>

=============================================================================
