------------------------------ MODULE TelegramGate ------------------------------
(***************************************************************************)
(* The first-access gate: a paying member has to enter the Telegram group  *)
(* and then wait before the app's functions open.  The server stores the   *)
(* first click; the page counts the wait down by itself.                   *)
(*                                                                         *)
(* Two components of the page run the hook useTelegramGate side by side,   *)
(* each with a state of its own: the onboarding, which covers the app, and *)
(* the provider that holds back the app's functions.  Their requests are   *)
(* answered in any order.                                                  *)
(*                                                                         *)
(* Time passes in whole seconds.  An interval fires once in each second    *)
(* after the one it was set in, at an instant of its own ("due"); ticks    *)
(* that a sleeping tab missed are not made up for.                         *)
(***************************************************************************)
EXTENDS Naturals, FiniteSets

CONSTANTS
  Calls,   \* bound: requests in flight at once, numbered
  Wait,    \* waitSeconds
  Last     \* the onboarding's last screen; the one before it activates

ASSUME GateAssumption == Wait \in Nat \ {0} /\ Last \in Nat \ {0} /\ Calls \subseteq Nat

Hooks == {"onboarding", "provider"}

VARIABLES
  paid,        \* whether the member has an active paid plan
  clickedAt,   \* seconds since the first click: {} without a click, {n}, n capped at Wait
  state,       \* per hook: {} before the first answer, then the last answer, counted down
  due,         \* per hook: whether its interval has still to fire in this second
  call,        \* the requests in flight
  onboarding,  \* the onboarding: [started, open, screen]
  held         \* whether the gate's popup is open, holding the action the member asked for

gateVars == <<paid, clickedAt, state, due, call, onboarding, held>>
server == <<paid, clickedAt>>
page == <<state, due, onboarding, held>>

Least(a, b) == IF a < b THEN a ELSE b

NotApplies == [applies |-> FALSE, clicked |-> FALSE, unlocked |-> TRUE, remaining |-> 0]
NotClicked == [applies |-> TRUE, clicked |-> FALSE, unlocked |-> FALSE, remaining |-> Wait]
Waited(n) == [applies |-> TRUE, clicked |-> TRUE, unlocked |-> n >= Wait,
              remaining |-> Wait - Least(n, Wait)]

States == [applies : BOOLEAN, clicked : BOOLEAN, unlocked : BOOLEAN, remaining : 0..Wait]
None == [of |-> "provider", kind |-> "none", at |-> "idle", answer |-> NotApplies]

GateInit ==
  /\ paid \in BOOLEAN
  /\ clickedAt \in {{}} \cup {{n} : n \in 0..Wait}
  /\ state = [h \in Hooks |-> {}]
  /\ due = [h \in Hooks |-> FALSE]
  /\ \E f \in [Hooks -> Calls] :
       /\ f["onboarding"] # f["provider"]
       /\ call = [c \in Calls |->
                    IF \E h \in Hooks : f[h] = c
                      THEN [None EXCEPT !.of = CHOOSE h \in Hooks : f[h] = c,
                                        !.kind = "get", !.at = "sent"]
                      ELSE None]
  /\ onboarding = [started |-> FALSE, open |-> FALSE, screen |-> 0]
  /\ held = FALSE

-----------------------------------------------------------------------------
(* TelegramGateService.                                                    *)

toState(clicked) == IF clicked = {} THEN NotClicked ELSE Waited(CHOOSE n \in clicked : TRUE)

Reply(c, answer) == call' = [call EXCEPT ![c].at = "ok", ![c].answer = answer]
Sent(c, kind) == call[c].at = "sent" /\ call[c].kind = kind

getState(c) ==
  /\ Sent(c, "get")
  /\ Reply(c, IF paid THEN toState(clickedAt) ELSE NotApplies)
  /\ UNCHANGED <<paid, clickedAt, page>>

\* Mutant: every click starts the wait again.
StartsOver == clickedAt' = {0}

\* The first click starts the wait; later ones find the row there.
upsert == clickedAt' = IF clickedAt = {} THEN {0} ELSE clickedAt

recordClick(c) ==
  /\ Sent(c, "click")
  /\ \/ paid /\ upsert /\ Reply(c, toState(clickedAt'))
     \/ ~paid /\ Reply(c, NotApplies) /\ UNCHANGED clickedAt
  /\ UNCHANGED <<paid, page>>

\* Subscriptions begin and run out.
ChangePlan == paid' = ~paid /\ UNCHANGED <<clickedAt, call, page>>

\* The request is not served, or its answer is lost.
Break(c) ==
  /\ call[c].at \in {"sent", "ok"}
  /\ call' = [call EXCEPT ![c].at = "failed", ![c].answer = NotApplies]
  /\ UNCHANGED <<server, page>>

-----------------------------------------------------------------------------
(* useTelegramGate.                                                        *)

Clicked(s) == s # {} /\ \A x \in s : x.clicked
Running(s) == s # {} /\ \A x \in s : x.clicked /\ ~x.unlocked
Locked(s) == s # {} /\ \A x \in s : ~x.unlocked

Ask(h, kind) ==
  \E c \in Calls :
    /\ call[c].at = "idle" /\ \A d \in Calls : call[d].at = "idle" => c <= d
    /\ call' = [call EXCEPT ![c] = [None EXCEPT !.of = h, !.kind = kind, !.at = "sent"]]

\* setState, and the effect keyed on clicked and unlocked: the interval is set anew when
\* it was not running, goes on as it was when it was.
SetState(h, s) ==
  /\ state' = [state EXCEPT ![h] = s]
  /\ due' = [due EXCEPT ![h] = @ /\ Running(state[h]) /\ Running(s)]

\* refresh(): on mount (GateInit), and whenever the tab comes back to the foreground.
\* Every hook asks.
refresh(h) == Ask(h, "get") /\ UNCHANGED <<server, page>>

\* The effect of the onboarding: it opens once, for a paying member who has not clicked.
Opened(s) ==
  IF ~onboarding.started /\ \A x \in s : x.applies /\ ~x.clicked
    THEN [started |-> TRUE, open |-> TRUE, screen |-> 0]
    ELSE onboarding

Done(c) == call' = [call EXCEPT ![c] = None]

Received(c) ==
  LET h == call[c].of IN
  /\ call[c].at = "ok" /\ Done(c)
  /\ SetState(h, {call[c].answer})
  /\ onboarding' = IF h = "provider" THEN onboarding
                   ELSE IF call[c].kind = "click"
                     THEN [Opened({call[c].answer}) EXCEPT !.screen = Last]
                     ELSE Opened({call[c].answer})
  /\ UNCHANGED <<server, held>>

\* A failed refresh changes nothing; neither does a failed click, after which the
\* onboarding moves on all the same.
NotReceived(c) ==
  /\ call[c].at = "failed" /\ Done(c)
  /\ onboarding' = IF call[c].of = "onboarding" /\ call[c].kind = "click"
                     THEN [onboarding EXCEPT !.screen = Last] ELSE onboarding
  /\ UNCHANGED <<server, state, due, held>>

\* Mutant: the countdown ends without opening.
StopsAtZero(x) == [x EXCEPT !.remaining = IF x.remaining > 0 THEN x.remaining - 1 ELSE 0]

CountedDown(x) ==
  [x EXCEPT !.remaining = IF x.remaining > 0 THEN x.remaining - 1 ELSE 0,
            !.unlocked = x.remaining <= 1]

Tick(h) ==
  /\ due[h]
  /\ state' = [state EXCEPT ![h] = {CountedDown(x) : x \in state[h]}]
  /\ due' = [due EXCEPT ![h] = FALSE]
  /\ UNCHANGED <<server, call, onboarding, held>>

\* A second passes.
Second ==
  /\ clickedAt' = {Least(n + 1, Wait) : n \in clickedAt}
  /\ due' = [h \in Hooks |-> Running(state[h])]
  /\ UNCHANGED <<paid, state, call, onboarding, held>>

-----------------------------------------------------------------------------
(* Onboarding, which covers the app while it is open.                      *)

\* The buttons lead on and back; the screen before the last has no way on but
\* activate(), which may still be waiting for its answer when the member goes back.
go(n) ==
  /\ onboarding.open
  /\ n \in {onboarding.screen - 1, onboarding.screen + 1} \cap 0..(Last - 1) /\ onboarding.screen # Last
  /\ onboarding' = [onboarding EXCEPT !.screen = n]
  /\ UNCHANGED <<server, state, due, call, held>>

activate ==
  /\ onboarding.open /\ onboarding.screen = Last - 1
  /\ Ask("onboarding", "click")
  /\ UNCHANGED <<server, page>>

StartUsing ==
  /\ onboarding.open /\ onboarding.screen = Last
  /\ onboarding' = [onboarding EXCEPT !.open = FALSE]
  /\ UNCHANGED <<server, state, due, call, held>>

-----------------------------------------------------------------------------
(* TelegramGateProvider and its popup.                                     *)

\* The member asks for a function of the app: it runs, or the popup opens and holds it.
requireUnlock ==
  /\ ~onboarding.open /\ ~held
  /\ held' = Locked(state["provider"])
  /\ UNCHANGED <<server, state, due, call, onboarding>>

close ==
  /\ held /\ held' = FALSE
  /\ UNCHANGED <<server, state, due, call, onboarding>>

\* "Continuar" is there once the hook is unlocked; it runs the action held.
proceed ==
  /\ held /\ ~Locked(state["provider"]) /\ held' = FALSE
  /\ UNCHANGED <<server, state, due, call, onboarding>>

\* "Entrar no Telegram" is there until the hook has heard of a click.
EnterTelegram ==
  /\ held /\ ~Clicked(state["provider"])
  /\ Ask("provider", "click")
  /\ UNCHANGED <<server, page>>

-----------------------------------------------------------------------------
(* Next.                                                                   *)

GateNext ==
  \/ \E c \in Calls : getState(c) \/ recordClick(c) \/ Break(c) \/ Received(c) \/ NotReceived(c)
  \/ ChangePlan \/ Second
  \/ \E h \in Hooks : refresh(h) \/ Tick(h)
  \/ \E n \in 0..Last : go(n)
  \/ activate \/ StartUsing
  \/ requireUnlock \/ close \/ proceed \/ EnterTelegram

\* The clock goes on, and the browser runs an interval that is due sooner or later.
GateFairness == WF_gateVars(Second) /\ \A h \in Hooks : WF_gateVars(Tick(h))

GateSpec == GateInit /\ [][GateNext]_gateVars /\ GateFairness

-----------------------------------------------------------------------------
(* Properties.                                                             *)

\* Types: a state that is counted down is never unlocked with time left, and
\* the onboarding's screens are those it has.
GateTypeOK ==
  /\ paid \in BOOLEAN /\ clickedAt \in {{}} \cup {{n} : n \in 0..Wait}
  /\ \A h \in Hooks : Cardinality(state[h]) <= 1 /\ state[h] \subseteq States
  /\ \A h \in Hooks : \A x \in state[h] : x.unlocked <=> x.remaining = 0
  /\ due \in [Hooks -> BOOLEAN]
  /\ call \in [Calls -> [of : Hooks, kind : {"none", "get", "click"},
                         at : {"idle", "sent", "ok", "failed"}, answer : States]]
  /\ onboarding \in [started : BOOLEAN, open : BOOLEAN, screen : 0..Last] /\ held \in BOOLEAN

\* No countdown of the page runs ahead of the server's by more than one second, whatever
\* answers overtake each other and however often a tab that comes back asks anew: the app
\* never opens more than a second before the wait that began with the first click is over.
NeverEarly ==
  \A h \in Hooks : \A x \in state[h] :
    x.applies /\ x.clicked => \E n \in clickedAt : x.remaining + n + 1 >= Wait

\* "o app destrava sozinho quando o tempo acabar": a page that waits does not wait for
\* ever, however often it is refreshed meanwhile.  (It may stop waiting without opening:
\* an answer from before the click takes the click back until the next refresh.)
WaitEnds == \A h \in Hooks : Running(state[h]) ~> ~Running(state[h])

=============================================================================
