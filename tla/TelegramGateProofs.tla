--------------------------- MODULE TelegramGateProofs ---------------------------
(***************************************************************************)
(* Why the app never opens early, for any length of the wait and any       *)
(* number of requests in flight.                                           *)
(*                                                                         *)
(* NeverEarly is not inductive.  An answer is exact when the server gives  *)
(* it and falls behind while it travels, so what is in flight is never     *)
(* ahead (CallInv).  A countdown may be one second ahead, but only after   *)
(* its interval has fired in the current second: while that is still due   *)
(* it is not ahead at all (HookInv), which is what the next tick uses up   *)
(* and the next second gives back.                                         *)
(***************************************************************************)
EXTENDS TelegramGate, FiniteSetTheorems, TLAPS

Clicks == {{}} \cup {{n} : n \in 0..Wait}

Sane(x) == x \in States /\ (x.unlocked <=> x.remaining = 0)

\* With s seconds to spare, a state is not ahead of the clicks ns.
Behind(x, ns, s) == x.applies /\ x.clicked => \E n \in ns : x.remaining + n + s >= Wait

ServerInv == paid \in BOOLEAN /\ clickedAt \in Clicks

Requests == [of : Hooks, kind : {"none", "get", "click"},
             at : {"idle", "sent", "ok", "failed"}, answer : States]

CallInv ==
  /\ call \in [Calls -> Requests]
  /\ \A c \in Calls : Sane(call[c].answer) /\ Behind(call[c].answer, clickedAt, 0)

HookInv ==
  /\ state \in [Hooks -> SUBSET States] /\ due \in [Hooks -> BOOLEAN]
  /\ \A h \in Hooks :
       /\ \A x, y \in state[h] : x = y
       /\ due[h] => Running(state[h])
       /\ \A x \in state[h] : /\ Sane(x) /\ Behind(x, clickedAt, 1)
                              /\ due[h] => Behind(x, clickedAt, 0)

PageInv ==
  /\ onboarding \in [started : BOOLEAN, open : BOOLEAN, screen : 0..Last]
  /\ held \in BOOLEAN

IInv == ServerInv /\ CallInv /\ HookInv /\ PageInv

-----------------------------------------------------------------------------
(* Answers.                                                                *)

\* What the server answers is exact.
LEMMA AnswersAreExact ==
  ASSUME NEW clicked \in Clicks
  PROVE  Sane(toState(clicked)) /\ Behind(toState(clicked), clicked, 0)
<1>1. CASE clicked = {}
  BY <1>1, GateAssumption DEF toState, NotClicked, Sane, States, Behind
<1>2. CASE clicked # {}
  <2>1. PICK n \in 0..Wait : clicked = {n}
    BY <1>2 DEF Clicks
  <2>2. toState(clicked) = Waited(n)
    BY <2>1 DEF toState
  <2>3. Sane(Waited(n))
    <3>1. CASE n >= Wait
      <4>1. Waited(n) = [applies |-> TRUE, clicked |-> TRUE, unlocked |-> TRUE, remaining |-> 0]
        <5>1. (n >= Wait) = TRUE /\ Wait - Least(n, Wait) = 0
          BY <3>1, GateAssumption DEF Least
        <5> QED
          BY <5>1 DEF Waited
      <4> QED
        BY <4>1, GateAssumption DEF Sane, States
    <3>2. CASE n < Wait
      <4>1. Waited(n) = [applies |-> TRUE, clicked |-> TRUE, unlocked |-> FALSE,
                         remaining |-> Wait - n]
        <5>1. (n >= Wait) = FALSE /\ Wait - Least(n, Wait) = Wait - n
          BY <3>2, GateAssumption DEF Least
        <5> QED
          BY <5>1 DEF Waited
      <4>2. Wait - n \in 0..Wait /\ Wait - n # 0
        BY <3>2, GateAssumption
      <4> QED
        BY <4>1, <4>2 DEF Sane, States
    <3> QED
      BY <3>1, <3>2, GateAssumption
  <2>4. Waited(n).remaining + n + 0 >= Wait
    BY GateAssumption DEF Waited, Least
  <2> QED
    BY <2>1, <2>2, <2>3, <2>4 DEF Behind
<1> QED
  BY <1>1, <1>2

LEMMA NotAppliesIsExact ==
  ASSUME NEW ns PROVE Sane(NotApplies) /\ Behind(NotApplies, ns, 0)
BY GateAssumption DEF NotApplies, Sane, States, Behind

\* A first click, and every later one, keeps what is behind behind.
LEMMA ClicksKeep ==
  ASSUME ServerInv, upsert
  PROVE  clickedAt' \in Clicks /\ \A x, s : Behind(x, clickedAt, s) => Behind(x, clickedAt', s)
BY GateAssumption DEF ServerInv, Clicks, upsert, Behind

\* A second more since the click is a second less for a countdown to be ahead.
LEMMA SecondsKeep ==
  ASSUME ServerInv, clickedAt' = {Least(n + 1, Wait) : n \in clickedAt}
  PROVE  /\ clickedAt' \in Clicks
         /\ \A x : Sane(x) /\ Behind(x, clickedAt, 0) => Behind(x, clickedAt', 0)
         /\ \A x : Sane(x) /\ Behind(x, clickedAt, 1) => Behind(x, clickedAt', 0)
<1>1. CASE clickedAt = {}
  BY <1>1 DEF Clicks, Behind
<1>2. CASE clickedAt # {}
  <2>1. PICK n \in 0..Wait : clickedAt = {n}
    BY <1>2 DEF ServerInv, Clicks
  <2>2. clickedAt' = {Least(n + 1, Wait)}
    BY <2>1
  <2>3. Least(n + 1, Wait) \in 0..Wait /\ (Least(n + 1, Wait) = n + 1 \/ Least(n + 1, Wait) = Wait)
    BY GateAssumption DEF Least
  <2>4. \A x : Sane(x) => x.remaining \in 0..Wait
    BY DEF Sane, States
  <2> QED
    BY <2>1, <2>2, <2>3, <2>4, GateAssumption DEF Behind, Clicks
<1> QED
  BY <1>1, <1>2

-----------------------------------------------------------------------------
(* Requests.                                                               *)

LEMMA RepliesKeep ==
  ASSUME CallInv, NEW c \in Calls, NEW answer, Reply(c, answer),
         Sane(answer), Behind(answer, clickedAt', 0),
         \A x, s : Behind(x, clickedAt, s) => Behind(x, clickedAt', s)
  PROVE  CallInv'
<1>1. answer \in States
  BY DEF Sane
<1> QED
  BY <1>1 DEF CallInv, Requests, Reply

LEMMA AsksKeep ==
  ASSUME CallInv, NEW h \in Hooks, NEW kind \in {"get", "click"}, Ask(h, kind),
         clickedAt' = clickedAt
  PROVE  CallInv'
<1>1. NotApplies \in States /\ Sane(NotApplies) /\ Behind(NotApplies, clickedAt, 0)
  BY NotAppliesIsExact DEF Sane
<1>2. PICK c \in Calls :
        call' = [call EXCEPT ![c] = [of |-> h, kind |-> kind, at |-> "sent", answer |-> NotApplies]]
  BY DEF Ask, None
<1> QED
  BY <1>1, <1>2 DEF CallInv, Requests

LEMMA DoneKeeps ==
  ASSUME CallInv, NEW c \in Calls, Done(c), clickedAt' = clickedAt
  PROVE  CallInv'
<1>1. NotApplies \in States /\ Sane(NotApplies) /\ Behind(NotApplies, clickedAt, 0)
  BY NotAppliesIsExact DEF Sane
<1> QED
  BY <1>1 DEF CallInv, Requests, Done, None, Hooks

-----------------------------------------------------------------------------
(* The countdown.                                                          *)

LEMMA CountsKeep ==
  ASSUME NEW x, Sane(x), NEW ns \in Clicks, Behind(x, ns, 0)
  PROVE  Sane(CountedDown(x)) /\ Behind(CountedDown(x), ns, 1)
<1>1. PICK r \in 0..Wait : x.remaining = r
  BY DEF Sane, States
<1>2. /\ CountedDown(x).applies = x.applies /\ CountedDown(x).clicked = x.clicked
      /\ CountedDown(x).remaining = (IF r > 0 THEN r - 1 ELSE 0)
  BY <1>1 DEF CountedDown, Sane, States
<1>3. Sane(CountedDown(x))
  <2>1. CASE r <= 1
    <3>1. CountedDown(x) = [x EXCEPT !.remaining = 0, !.unlocked = TRUE]
      <4>1. (r <= 1) = TRUE /\ (IF r > 0 THEN r - 1 ELSE 0) = 0
        BY <2>1
      <4> QED
        BY <1>1, <4>1 DEF CountedDown
    <3>2. CountedDown(x) \in States
      <4>1. 0 \in 0..Wait
        BY GateAssumption
      <4> QED
        BY <3>1, <4>1 DEF Sane, States
    <3>3. CountedDown(x).unlocked = TRUE /\ CountedDown(x).remaining = 0
      BY <3>1 DEF Sane, States
    <3> QED
      BY <3>2, <3>3 DEF Sane
  <2>2. CASE r > 1
    <3>1. CountedDown(x) = [x EXCEPT !.remaining = r - 1, !.unlocked = FALSE]
      <4>1. (r <= 1) = FALSE /\ (IF r > 0 THEN r - 1 ELSE 0) = r - 1
        BY <2>2
      <4> QED
        BY <1>1, <4>1 DEF CountedDown
    <3>2. r - 1 \in 0..Wait /\ r - 1 # 0
      BY <2>2, GateAssumption
    <3>3. CountedDown(x) \in States
      BY <3>1, <3>2 DEF Sane, States
    <3>4. CountedDown(x).unlocked = FALSE /\ CountedDown(x).remaining = r - 1
      BY <3>1 DEF Sane, States
    <3> QED
      BY <3>2, <3>3, <3>4 DEF Sane
  <2> QED
    BY <2>1, <2>2
<1>4. \A n \in ns : n \in 0..Wait
  BY DEF Clicks
<1> QED
  BY <1>1, <1>2, <1>3, <1>4, GateAssumption DEF Behind

\* A state is replaced by one that is exact.
LEMMA StatesAreSet ==
  ASSUME HookInv, NEW h \in Hooks, NEW x, SetState(h, {x}), Sane(x), Behind(x, clickedAt, 0),
         ServerInv, clickedAt' = clickedAt
  PROVE  HookInv'
<1>1. x \in States /\ x.remaining \in Nat /\ \A n \in clickedAt : n \in Nat
  BY GateAssumption DEF Sane, States, ServerInv, Clicks
<1>2. Behind(x, clickedAt, 1)
  BY <1>1, GateAssumption DEF Behind
<1>3. /\ state' \in [Hooks -> SUBSET States] /\ due' \in [Hooks -> BOOLEAN]
      /\ state'[h] = {x} /\ (due'[h] => Running({x}))
      /\ \A g \in Hooks \ {h} : state'[g] = state[g] /\ due'[g] = due[g]
  BY <1>1 DEF HookInv, SetState
<1> QED
  BY <1>2, <1>3 DEF HookInv

-----------------------------------------------------------------------------

LEMMA InitInv == GateInit => IInv
<1> SUFFICES ASSUME GateInit PROVE IInv
  OBVIOUS
<1>1. ServerInv
  BY DEF GateInit, ServerInv, Clicks
<1>2. CallInv
  <2>1. PICK f \in [Hooks -> Calls] :
          call = [c \in Calls |->
                    IF \E h \in Hooks : f[h] = c
                      THEN [None EXCEPT !.of = CHOOSE h \in Hooks : f[h] = c,
                                        !.kind = "get", !.at = "sent"]
                      ELSE None]
    BY DEF GateInit
  <2>2. NotApplies \in States /\ Sane(NotApplies) /\ Behind(NotApplies, clickedAt, 0)
    BY NotAppliesIsExact DEF Sane
  <2>3. \A c \in Calls : call[c] \in Requests /\ call[c].answer = NotApplies
    <3> SUFFICES ASSUME NEW c \in Calls PROVE call[c] \in Requests /\ call[c].answer = NotApplies
      OBVIOUS
    <3>1. CASE \E h \in Hooks : f[h] = c
      <4>1. (CHOOSE h \in Hooks : f[h] = c) \in Hooks
        BY <3>1
      <4> QED
        BY <2>1, <2>2, <3>1, <4>1 DEF None, Requests
    <3>2. CASE ~\E h \in Hooks : f[h] = c
      BY <2>1, <2>2, <3>2 DEF None, Requests, Hooks
    <3> QED
      BY <3>1, <3>2
  <2> QED
    BY <2>1, <2>2, <2>3 DEF CallInv
<1>3. HookInv
  BY DEF GateInit, HookInv
<1>4. PageInv
  <2>1. onboarding = [started |-> FALSE, open |-> FALSE, screen |-> 0] /\ held = FALSE
    BY DEF GateInit
  <2>2. 0 \in 0..Last
    BY GateAssumption
  <2> QED
    BY <2>1, <2>2 DEF PageInv
<1> QED
  BY <1>1, <1>2, <1>3, <1>4 DEF IInv

LEMMA StepInv == IInv /\ [GateNext]_gateVars => IInv'
<1> SUFFICES ASSUME IInv, [GateNext]_gateVars PROVE IInv'
  OBVIOUS
<1> USE DEF IInv
<1>0. \A ns : ns = clickedAt => \A x, s : Behind(x, clickedAt, s) => Behind(x, ns, s)
  OBVIOUS
<1>1. ASSUME NEW c \in Calls, getState(c) PROVE IInv'
  <2>1. /\ Sane(IF paid THEN toState(clickedAt) ELSE NotApplies)
        /\ Behind(IF paid THEN toState(clickedAt) ELSE NotApplies, clickedAt, 0)
    BY AnswersAreExact, NotAppliesIsExact DEF ServerInv
  <2>2. UNCHANGED <<paid, clickedAt, state, due, onboarding, held>>
    BY <1>1 DEF getState, page
  <2>3. CallInv'
    BY <1>0, <1>1, <2>1, <2>2, RepliesKeep DEF getState
  <2> QED
    BY <2>2, <2>3 DEF ServerInv, HookInv, PageInv
<1>2. ASSUME NEW c \in Calls, recordClick(c) PROVE IInv'
  <2>1. CASE paid /\ upsert /\ Reply(c, toState(clickedAt'))
    <3>1. /\ clickedAt' \in Clicks
          /\ \A x, s : Behind(x, clickedAt, s) => Behind(x, clickedAt', s)
      BY <2>1, ClicksKeep
    <3>2. Sane(toState(clickedAt')) /\ Behind(toState(clickedAt'), clickedAt', 0)
      BY <3>1, AnswersAreExact
    <3>3. CallInv'
      BY <2>1, <3>1, <3>2, RepliesKeep
    <3>4. UNCHANGED <<paid, state, due, onboarding, held>>
      BY <1>2 DEF recordClick, page
    <3> QED
      BY <3>1, <3>3, <3>4 DEF ServerInv, HookInv, PageInv
  <2>2. CASE Reply(c, NotApplies) /\ UNCHANGED clickedAt
    <3>1. CallInv'
      BY <1>0, <2>2, NotAppliesIsExact, RepliesKeep
    <3>2. UNCHANGED <<paid, clickedAt, state, due, onboarding, held>>
      BY <1>2, <2>2 DEF recordClick, page
    <3> QED
      BY <3>1, <3>2 DEF ServerInv, HookInv, PageInv
  <2> QED
    BY <1>2, <2>1, <2>2 DEF recordClick
<1>3. ASSUME NEW c \in Calls, Break(c) PROVE IInv'
  <2>1. NotApplies \in States /\ Sane(NotApplies) /\ Behind(NotApplies, clickedAt, 0)
    BY NotAppliesIsExact DEF Sane
  <2>2. UNCHANGED <<paid, clickedAt, state, due, onboarding, held>>
    BY <1>3 DEF Break, server, page
  <2>3. CallInv'
    BY <1>3, <2>1, <2>2 DEF Break, CallInv, Requests
  <2> QED
    BY <2>2, <2>3 DEF ServerInv, HookInv, PageInv
<1>4. ASSUME NEW c \in Calls, Received(c) PROVE IInv'
  <2>1. UNCHANGED <<paid, clickedAt, held>>
    BY <1>4 DEF Received, server
  <2>2. CallInv'
    BY <1>4, <2>1, DoneKeeps DEF Received
  <2>3. call[c].of \in Hooks /\ Sane(call[c].answer) /\ Behind(call[c].answer, clickedAt, 0)
    BY DEF CallInv, Requests
  <2>4. HookInv'
    BY <1>4, <2>1, <2>3, StatesAreSet DEF Received
  <2>5. Opened({call[c].answer}) \in [started : BOOLEAN, open : BOOLEAN, screen : 0..Last]
    BY GateAssumption DEF Opened, PageInv
  <2>6. PageInv'
    BY <1>4, <2>1, <2>5, GateAssumption DEF Received, PageInv
  <2> QED
    BY <2>1, <2>2, <2>4, <2>6 DEF ServerInv
<1>5. ASSUME NEW c \in Calls, NotReceived(c) PROVE IInv'
  <2>1. UNCHANGED <<paid, clickedAt, state, due, held>>
    BY <1>5 DEF NotReceived, server
  <2>2. CallInv'
    BY <1>5, <2>1, DoneKeeps DEF NotReceived
  <2>3. PageInv'
    BY <1>5, <2>1, GateAssumption DEF NotReceived, PageInv
  <2> QED
    BY <2>1, <2>2, <2>3 DEF ServerInv, HookInv
<1>6. ASSUME ChangePlan PROVE IInv'
  BY <1>6 DEF ChangePlan, page, ServerInv, CallInv, HookInv, PageInv
<1>7. ASSUME Second PROVE IInv'
  <2>1. /\ UNCHANGED <<paid, state, call, onboarding, held>>
        /\ due' = [h \in Hooks |-> Running(state[h])]
    BY <1>7 DEF Second
  <2>2. /\ clickedAt' \in Clicks
        /\ \A x : Sane(x) /\ Behind(x, clickedAt, 0) => Behind(x, clickedAt', 0)
        /\ \A x : Sane(x) /\ Behind(x, clickedAt, 1) => Behind(x, clickedAt', 0)
    BY <1>7, SecondsKeep DEF Second
  <2>3. \A x : Sane(x) /\ Behind(x, clickedAt', 0) => Behind(x, clickedAt', 1)
    BY <2>2, GateAssumption DEF Sane, States, Behind, Clicks
  <2>4. HookInv'
    <3>1. due' \in [Hooks -> BOOLEAN]
      BY <2>1 DEF Running
    <3>2. \A h \in Hooks : \A x \in state[h] :
            Sane(x) /\ Behind(x, clickedAt', 0) /\ Behind(x, clickedAt', 1)
      BY <2>2, <2>3 DEF HookInv
    <3> QED
      BY <2>1, <3>1, <3>2 DEF HookInv
  <2> QED
    BY <2>1, <2>2, <2>4 DEF ServerInv, CallInv, PageInv
<1>8. ASSUME NEW h \in Hooks, refresh(h) PROVE IInv'
  <2>1. UNCHANGED <<paid, clickedAt, state, due, onboarding, held>> /\ Ask(h, "get")
    BY <1>8 DEF refresh, server, page
  <2>2. CallInv'
    BY <2>1, AsksKeep
  <2> QED
    BY <2>1, <2>2 DEF ServerInv, HookInv, PageInv
<1>9. ASSUME NEW h \in Hooks, Tick(h) PROVE IInv'
  <2>1. /\ UNCHANGED <<paid, clickedAt, call, onboarding, held>>
        /\ due[h] /\ state' = [state EXCEPT ![h] = {CountedDown(x) : x \in state[h]}]
        /\ due' = [due EXCEPT ![h] = FALSE]
    BY <1>9 DEF Tick, server
  <2>2. \A x \in state[h] : Sane(CountedDown(x)) /\ Behind(CountedDown(x), clickedAt, 1)
    BY <2>1, CountsKeep DEF HookInv, ServerInv
  <2>3. {CountedDown(x) : x \in state[h]} \in SUBSET States
    BY <2>2 DEF Sane
  <2>4. /\ state' \in [Hooks -> SUBSET States] /\ due' \in [Hooks -> BOOLEAN]
        /\ state'[h] = {CountedDown(x) : x \in state[h]} /\ ~due'[h]
        /\ \A g \in Hooks \ {h} : state'[g] = state[g] /\ due'[g] = due[g]
    BY <2>1, <2>3 DEF HookInv
  <2>5. \A x, y \in state'[h] : x = y
    BY <2>4 DEF HookInv
  <2>6. \A x \in state'[h] : Sane(x) /\ Behind(x, clickedAt', 1)
    BY <2>1, <2>2, <2>4
  <2>7. \A g \in Hooks \ {h} :
          /\ \A x, y \in state'[g] : x = y
          /\ due'[g] => Running(state'[g])
          /\ \A x \in state'[g] : /\ Sane(x) /\ Behind(x, clickedAt', 1)
                                  /\ due'[g] => Behind(x, clickedAt', 0)
    BY <2>1, <2>4 DEF HookInv
  <2>8. \A g \in Hooks :
          /\ \A x, y \in state'[g] : x = y
          /\ due'[g] => Running(state'[g])
          /\ \A x \in state'[g] : /\ Sane(x) /\ Behind(x, clickedAt', 1)
                                  /\ due'[g] => Behind(x, clickedAt', 0)
    <3> SUFFICES ASSUME NEW g \in Hooks
                 PROVE  /\ \A x, y \in state'[g] : x = y
                        /\ due'[g] => Running(state'[g])
                        /\ \A x \in state'[g] : /\ Sane(x) /\ Behind(x, clickedAt', 1)
                                                /\ due'[g] => Behind(x, clickedAt', 0)
      OBVIOUS
    <3>1. CASE g = h
      BY <2>4, <2>5, <2>6, <3>1
    <3>2. CASE g # h
      BY <2>7, <3>2
    <3> QED
      BY <3>1, <3>2
  <2>9. HookInv'
    <3>1. state' \in [Hooks -> SUBSET States] /\ due' \in [Hooks -> BOOLEAN]
      BY <2>4
    <3> QED
      BY <2>8, <3>1 DEF HookInv
  <2> QED
    BY <2>1, <2>9 DEF ServerInv, CallInv, PageInv
<1>10. ASSUME NEW n \in 0..Last, go(n) PROVE IInv'
  BY <1>10, GateAssumption DEF go, server, ServerInv, CallInv, HookInv, PageInv
<1>11. ASSUME NEW h \in Hooks, Ask(h, "click"), UNCHANGED <<server, page>> PROVE IInv'
  <2>1. UNCHANGED <<paid, clickedAt, state, due, onboarding, held>>
    BY <1>11 DEF server, page
  <2>2. CallInv'
    BY <1>11, <2>1, AsksKeep
  <2> QED
    BY <2>1, <2>2 DEF ServerInv, HookInv, PageInv
<1>12. ASSUME StartUsing \/ requireUnlock \/ close \/ proceed PROVE IInv'
  <2>1. UNCHANGED <<paid, clickedAt, state, due, call>>
    BY <1>12 DEF StartUsing, requireUnlock, close, proceed, server
  <2>2. PageInv'
    BY <1>12 DEF StartUsing, requireUnlock, close, proceed, PageInv, Locked
  <2> QED
    BY <2>1, <2>2 DEF ServerInv, CallInv, HookInv
<1>13. ASSUME UNCHANGED gateVars PROVE IInv'
  BY <1>13 DEF gateVars, ServerInv, CallInv, HookInv, PageInv
<1>14. activate \/ EnterTelegram
         => \E h \in Hooks : Ask(h, "click") /\ UNCHANGED <<server, page>>
  BY DEF activate, EnterTelegram, Hooks
<1> QED
  BY <1>1, <1>2, <1>3, <1>4, <1>5, <1>6, <1>7, <1>8, <1>9, <1>10, <1>11, <1>12, <1>13, <1>14
  DEF GateNext

THEOREM GateInvariant == GateSpec => []IInv
BY InitInv, StepInv, PTL DEF GateSpec

-----------------------------------------------------------------------------

\* A countdown is never unlocked with time left, and the requests and screens are
\* well formed, for any wait and any number of requests.
THEOREM GateTypes == GateSpec => []GateTypeOK
<1>1. IInv => GateTypeOK
  <2> SUFFICES ASSUME IInv PROVE GateTypeOK
    OBVIOUS
  <2>1. \A h \in Hooks : Cardinality(state[h]) <= 1
    <3> SUFFICES ASSUME NEW h \in Hooks PROVE Cardinality(state[h]) <= 1
      OBVIOUS
    <3>1. CASE state[h] = {}
      BY <3>1, FS_EmptySet
    <3>2. CASE state[h] # {}
      <4>1. PICK x : state[h] = {x}
        BY <3>2 DEF IInv, HookInv
      <4> QED
        BY <4>1, FS_Singleton
    <3> QED
      BY <3>1, <3>2
  <2>2. /\ \A h \in Hooks : state[h] \subseteq States
        /\ \A h \in Hooks : \A x \in state[h] : x.unlocked <=> x.remaining = 0
    BY DEF IInv, HookInv, Sane
  <2> QED
    BY <2>1, <2>2 DEF IInv, ServerInv, CallInv, HookInv, PageInv, Requests, Clicks, GateTypeOK
<1> QED
  BY <1>1, GateInvariant, PTL

\* The app never opens more than a second before the wait that began with the first click
\* is over, whatever overtakes what.
THEOREM GateNeverEarly == GateSpec => []NeverEarly
<1>1. IInv => NeverEarly
  BY DEF IInv, ServerInv, HookInv, NeverEarly, Behind
<1> QED
  BY <1>1, GateInvariant, PTL

=============================================================================
