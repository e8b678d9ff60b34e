---------------------------- MODULE BillingProofs ----------------------------
(***************************************************************************)
(* Proofs about Billing for any catalogue, any sales and any number of     *)
(* deliveries at once.                                                     *)
(*                                                                         *)
(* First, Billing adds no way of writing the ledger: every step of the     *)
(* webhook pipeline leaves it alone or is a step of CreditsLedger, so what *)
(* CreditsLedgerProofs proves of the ledger holds of Billing.              *)
(*                                                                         *)
(* Then, a sale is granted exactly once.  The argument is the one of the   *)
(* unique key: at most one request is between the insert of an event's row *)
(* and its commit, the row is not there yet, and what that request will    *)
(* commit (WorkInv) is the grant the event calls for.                      *)
(***************************************************************************)
EXTENDS Billing, CreditsLedgerProofs

\* A request is handling an event of Events, which says what it said at the start.
Handling(h) ==
  /\ h = [pc |-> h.pc, event |-> h.event, until |-> h.until]
  /\ h.event \in Events
HookInv ==
  /\ order \in Orders
  /\ hook = [w \in Txs |-> hook[w]]
  /\ \A w \in Txs : hook[w] = Idle \/ Handling(hook[w])

LEMMA InitHookInv == BillingInit => HookInv
  BY DEF BillingInit, HookInv, Idle

\* Moving one worker on, within its event or to the end of it, keeps HookInv.
LEMMA MoveHookInv ==
  ASSUME HookInv, order' = order, NEW w \in Txs, NEW h,
         hook' = [hook EXCEPT ![w] = h], h = Idle \/ Handling(h)
  PROVE  HookInv'
  BY DEF HookInv, Handling

LEMMA GotoHookInv ==
  ASSUME HookInv, order' = order, NEW w \in Txs, NEW pc, hook[w].pc # "idle", Goto(w, pc)
  PROVE  HookInv'
<1> DEFINE h == [hook[w] EXCEPT !.pc = pc]
<1>1. Handling(hook[w])
  BY DEF HookInv, Idle
<1>2. Handling(h)
  BY <1>1 DEF Handling
<1>3. hook' = [hook EXCEPT ![w] = h]
  BY DEF Goto
<1> QED
  BY <1>2, <1>3, MoveHookInv

LEMMA GotoUntilHookInv ==
  ASSUME HookInv, order' = order, NEW w \in Txs, NEW pc, NEW until, hook[w].pc # "idle",
         GotoUntil(w, pc, until)
  PROVE  HookInv'
<1> DEFINE h == [pc |-> pc, event |-> hook[w].event, until |-> until]
<1>1. Handling(hook[w])
  BY DEF HookInv, Idle
<1>2. Handling(h)
  BY <1>1 DEF Handling
<1> QED
  BY <1>2, MoveHookInv DEF GotoUntil

\* No step changes what the events say or makes a worker handle something else.
LEMMA NextHookInv == HookInv /\ [BillingNext]_billingVars => HookInv'
<1> SUFFICES ASSUME HookInv, [BillingNext]_billingVars PROVE HookInv'
  OBVIOUS
<1>0. order' = order
  BY DEF BillingNext, billingVars, world, Deliver, processWebhook, FindWebhookEvent,
    FindProduct, CreateMarker, findOrCreateByEmail, CreateWebhookEvent, applyGrant,
    GrantCredits, grantPlan, grantIaUnlimited, grantCategoryAccess, Throw,
    LedgerStatement, Commit, Respond, Fail, ToggleProduct, Tick
<1>1. CASE hook' = hook
  BY <1>0, <1>1 DEF HookInv
<1>2. ASSUME NEW w \in Txs, NEW e \in Events, Deliver(w, e) PROVE HookInv'
  <2> DEFINE h == [pc |-> "dedupe", event |-> e, until |-> Null]
  <2>1. Handling(h)
    BY DEF Handling
  <2> QED
    BY <1>0, <1>2, <2>1, MoveHookInv DEF Deliver
<1>3. ASSUME NEW w \in Txs, hook' = [hook EXCEPT ![w] = Idle] PROVE HookInv'
  BY <1>0, <1>3, MoveHookInv
<1>4. ASSUME NEW w \in Txs, hook[w].pc # "idle",
             \/ \E pc : Goto(w, pc)
             \/ \E pc, until : GotoUntil(w, pc, until)
      PROVE HookInv'
  BY <1>0, <1>4, GotoHookInv, GotoUntilHookInv
<1>5. ASSUME NEW w \in Txs, processWebhook(w) PROVE HookInv'
  <2>1. CASE \/ FindWebhookEvent(w) \/ FindProduct(w) \/ findOrCreateByEmail(w)
             \/ CreateWebhookEvent(w) \/ Commit(w)
    BY <1>4, <2>1 DEF At, FindWebhookEvent, FindProduct, findOrCreateByEmail,
      CreateWebhookEvent, Commit
  <2>2. CASE CreateMarker(w)
    BY <1>3, <1>4, <2>2 DEF At, CreateMarker
  <2>3. CASE GrantCredits(w) \/ grantPlan(w)
    BY <1>4, <2>3 DEF At, GrantCredits, grantPlan
  <2>4. CASE grantIaUnlimited(w) \/ grantCategoryAccess(w)
    BY <1>4, <2>4 DEF At, grantIaUnlimited, grantCategoryAccess
  <2>5. CASE Throw(w) \/ Respond(w)
    BY <1>3, <2>5 DEF Throw, Respond
  <2>6. CASE LedgerStatement(w)
    BY <1>1, <2>6 DEF LedgerStatement
  <2> QED
    BY <1>5, <2>1, <2>2, <2>3, <2>4, <2>5, <2>6 DEF processWebhook, applyGrant
<1>6. ASSUME NEW w \in Txs, Fail(w) PROVE HookInv'
  BY <1>3, <1>6 DEF Fail
<1>7. CASE (\E p \in Toggleable : ToggleProduct(p)) \/ Tick
  BY <1>1, <1>7 DEF ToggleProduct, Tick
<1> QED
  BY <1>1, <1>2, <1>5, <1>6, <1>7 DEF BillingNext, billingVars

------------------------------------------------------------------------------
\* What the grants pass to applyTransaction is what CreditsLedger allows.
LEMMA GrantIsACall ==
  ASSUME HookInv, NEW w \in Txs, GrantCredits(w) \/ grantPlan(w)
  PROVE  Call(w) \/ UNCHANGED ledgerVars
<1>1. Handling(hook[w])
  BY DEF HookInv, Idle, GrantCredits, grantPlan, At
<1> DEFINE e == hook[w].event
<1>2. /\ e \in Refs /\ Buyer(w) \in Users
      /\ order[e].product \in DOMAIN Product
  BY <1>1, BillingAssumption DEF Handling, HookInv, Buyer
<1>3. CASE GrantCredits(w)
  <2>1. Grant(w).grantCredits \in Amounts
    BY <1>2, <1>3, BillingAssumption DEF GrantCredits, Grant
  <2> QED
    BY <1>2, <1>3, <2>1 DEF GrantCredits, Call
<1>4. CASE grantPlan(w)
  <2> DEFINE monthly == MonthlyCredits[Grant(w).grantPlanKey]
  <2>1. Grant(w).grantPlanKey \in DOMAIN MonthlyCredits
    BY <1>4 DEF grantPlan, Grantable
  <2>2. CASE monthly > 0
    <3>1. monthly \in Amounts
      BY <2>1, <2>2, BillingAssumption
    <3> QED
      BY <1>2, <1>4, <2>2, <3>1 DEF grantPlan, Call
  <2> QED
    BY <1>4, <2>2 DEF grantPlan
<1> QED
  BY <1>3, <1>4

LEMMA StepIsLedgerStep ==
  HookInv /\ [BillingNext]_billingVars => [LedgerNext]_ledgerVars
<1> SUFFICES ASSUME HookInv, BillingNext PROVE [LedgerNext]_ledgerVars
  BY DEF billingVars, ledgerVars
<1>1. ASSUME NEW w \in Txs, processWebhook(w) PROVE LedgerNext \/ UNCHANGED ledgerVars
  <2>1. CASE GrantCredits(w) \/ grantPlan(w)
    BY <2>1, GrantIsACall DEF LedgerNext
  <2>2. CASE LedgerStatement(w)
    BY <2>2 DEF LedgerStatement, LedgerNext
  <2>3. CASE Commit(w)
    BY <2>3 DEF Commit, LedgerNext, End
  <2> QED
    BY <1>1, <2>1, <2>2, <2>3 DEF processWebhook, applyGrant, FindWebhookEvent, FindProduct,
      CreateMarker, findOrCreateByEmail, CreateWebhookEvent, grantIaUnlimited,
      grantCategoryAccess, Throw, Respond
<1>2. ASSUME NEW w \in Txs, Fail(w) PROVE LedgerNext \/ UNCHANGED ledgerVars
  BY <1>2 DEF Fail, Drop, LedgerNext
<1>3. ASSUME NEW w \in Txs, NEW e \in Events, Deliver(w, e) PROVE UNCHANGED ledgerVars
  BY <1>3 DEF Deliver
<1>4. CASE (\E p \in Toggleable : ToggleProduct(p)) \/ Tick
  BY <1>4 DEF ToggleProduct, Tick
<1> QED
  BY <1>1, <1>2, <1>3, <1>4 DEF BillingNext

\* The webhook pipeline drives the ledger only as LedgerSpec allows: nothing it does
\* (grants, replays, rollbacks in the middle of a grant) writes it any other way.
THEOREM BillingDrivesLedger == BillingSpec => LedgerSpec
<1>1. BillingInit => LedgerInit
  BY DEF BillingInit
<1> QED
  BY <1>1, InitHookInv, NextHookInv, StepIsLedgerStep, PTL DEF BillingSpec, LedgerSpec

\* Sales keep every account a chain of non-negative balances, for any catalogue of
\* products, any number of deliveries at once and any order of their statements.
THEOREM BillingChained == BillingSpec => []Chained
  BY BillingDrivesLedger, LedgerChained

\* Seen through getBalance, a sale is one indivisible movement.
THEOREM BillingImplementsLedger == BillingSpec => ImplementsLedger
  BY BillingDrivesLedger, LedgerRefinement
------------------------------------------------------------------------------
\* What a request is about to commit is the grant its event calls for.
Owed(w) ==
  LET g == Grant(w)
      until == hook[w].until
  IN /\ Grantable(g)
     /\ g.grantType = "ia_unlimited" => until \in Nat \ {0}
     /\ g.grantType = "category_access" => until \in Expiry \ {0}
     /\ g.grantType = "plan" => until \in Expiry

\* The ledger transaction a request has open is the one its event calls for.
Moving(w) ==
  /\ MovesCredits(hook[w].event)
  /\ tx[w].user = Buyer(w) /\ tx[w].ref = hook[w].event
  /\ tx[w].amount = CreditsOf(hook[w].event)

Work(w) ==
  /\ Open(w) <=> At(w, "ledger")
  /\ At(w, "ledger") => Moving(w)
  /\ At(w, "commit") => ~MovesCredits(hook[w].event)
  /\ At(w, "ledger") \/ At(w, "commit") => Owed(w)
  /\ InMoneyTx(w) => ~Recorded(w)
  /\ At(w, "respond") => Recorded(w)

WorkInv == \A w \in Txs : Work(w)

\* The unique key lets one money transaction per event insert its row.
Alone ==
  \A v, w \in Txs :
    v # w /\ InMoneyTx(v) /\ InMoneyTx(w) => hook[v].event # hook[w].event

TableTypes ==
  /\ active \subseteq DOMAIN Product
  /\ webhookEvent \in [Events -> {"absent", "marker", "granted"}]
  /\ buyers \subseteq Users
  /\ pass \in [Users -> Nat]
  /\ access \in [Users -> [Categories -> Expiry]]
  /\ subscription \in [Users -> Subscription \cup {Null}]
  /\ acked \subseteq {e \in Events : webhookEvent[e] # "absent"}
  /\ now \in Nat \ {0}

BillingInv ==
  /\ IInv /\ HookInv /\ TableTypes /\ WorkInv /\ Alone
  /\ GrantedExactlyOnce /\ GrantsMatchRecords
------------------------------------------------------------------------------
LEMMA GotoEffect ==
  ASSUME HookInv, NEW w \in Txs, NEW pc, hook[w].pc # "idle", Goto(w, pc)
  PROVE  /\ hook'[w].pc = pc /\ hook'[w].event = hook[w].event
         /\ hook'[w].until = hook[w].until
         /\ \A v \in Txs \ {w} : hook'[v] = hook[v]
<1>1. Handling(hook[w])
  BY DEF HookInv, Idle
<1> QED
  BY <1>1 DEF HookInv, Handling, Goto

LEMMA GotoUntilEffect ==
  ASSUME HookInv, NEW w \in Txs, NEW pc, NEW until, GotoUntil(w, pc, until)
  PROVE  /\ hook'[w].pc = pc /\ hook'[w].event = hook[w].event /\ hook'[w].until = until
         /\ \A v \in Txs \ {w} : hook'[v] = hook[v]
  BY DEF HookInv, GotoUntil

LEMMA IdleEffect ==
  ASSUME HookInv, NEW w \in Txs, hook' = [hook EXCEPT ![w] = Idle]
  PROVE  /\ hook'[w].pc = "idle"
         /\ \A v \in Txs \ {w} : hook'[v] = hook[v]
  BY DEF HookInv, Idle

\* What an event says is the same at every moment.
LEMMA SameWords ==
  ASSUME order' = order
  PROVE  \A e : MovesCredits(e)' = MovesCredits(e) /\ CreditsOf(e)' = CreditsOf(e)
  BY DEF MovesCredits, CreditsOf

\* The steps a worker takes.
StepBy(w) == (\E e \in Events : Deliver(w, e)) \/ processWebhook(w) \/ Fail(w)

LEMMA StepCases ==
  ASSUME [BillingNext]_billingVars
  PROVE  \/ \E w \in Txs : StepBy(w)
         \/ /\ UNCHANGED <<ledgerVars, tables, hook, order, acked>>
            /\ active' = active /\ now' \in {now, now + 1}
         \/ /\ \E p \in Toggleable : ToggleProduct(p)
            /\ UNCHANGED <<ledgerVars, tables, hook, order, acked, now>>
  BY DEF BillingNext, billingVars, world, StepBy, ToggleProduct, Tick

\* A worker's step leaves the other workers where they are.
LEMMA OthersStay ==
  ASSUME IInv, HookInv, NEW w \in Txs, StepBy(w), NEW v \in Txs \ {w}
  PROVE  hook'[v] = hook[v] /\ tx'[v] = tx[v]
<1>1. hook'[v] = hook[v]
  <2>1. \E h : hook' = [hook EXCEPT ![w] = h] \/ hook' = hook
    BY DEF StepBy, Deliver, processWebhook, FindWebhookEvent, FindProduct, CreateMarker,
      findOrCreateByEmail, CreateWebhookEvent, applyGrant, GrantCredits, grantPlan,
      grantIaUnlimited, grantCategoryAccess, Throw, LedgerStatement, Commit, Respond, Fail,
      Goto, GotoUntil
  <2> QED
    BY <2>1 DEF HookInv
<1>2. tx' = tx \/ Call(w) \/ LedgerStep(w) \/ CommitTx(w) \/ RollbackTx(w)
  BY GrantIsACall DEF StepBy, Deliver, processWebhook, FindWebhookEvent, FindProduct,
    CreateMarker, findOrCreateByEmail, CreateWebhookEvent, applyGrant, grantIaUnlimited,
    grantCategoryAccess, Throw, LedgerStatement, Commit, Respond, Fail, Drop, ledgerVars
<1> QED
  BY <1>1, <1>2, OthersTx

------------------------------------------------------------------------------
\* A worker that is not idle handles an event, whose words say what is owed.
LEMMA AtWork ==
  ASSUME HookInv, NEW w \in Txs, hook[w].pc # "idle"
  PROVE  /\ hook[w].event \in Events /\ hook[w].event \in Refs
         /\ Buyer(w) \in Users /\ order[hook[w].event].product \in DOMAIN Product
         /\ Grant(w).grantPeriodDays \in Nat \cup {Null}
<1>1. Handling(hook[w])
  BY DEF HookInv, Idle
<1>2. order \in [Events -> [buyer : Users, product : DOMAIN Product]]
  BY BillingAssumption DEF HookInv
<1>3. order[hook[w].event] \in [buyer : Users, product : DOMAIN Product]
  BY <1>1, <1>2 DEF Handling
<1> QED
  BY <1>1, <1>3, BillingAssumption DEF Handling, Buyer, Grant

\* The only steps that write WebhookEvent, and the row they write.
LEMMA RecordsStay ==
  ASSUME BillingInv, [BillingNext]_billingVars, NEW e \in Events,
         webhookEvent'[e] # webhookEvent[e]
  PROVE  /\ webhookEvent[e] = "absent"
         /\ \E w \in Txs : /\ hook[w].event = e
                          /\ \/ CreateMarker(w) /\ webhookEvent'[e] = "marker"
                             \/ Commit(w) /\ webhookEvent'[e] = "granted"
<1>1. ~ UNCHANGED webhookEvent
  OBVIOUS
<1>2. PICK w \in Txs : CreateMarker(w) \/ Commit(w)
  BY <1>1 DEF BillingNext, billingVars, tables, Deliver, processWebhook, FindWebhookEvent,
    FindProduct, findOrCreateByEmail, CreateWebhookEvent, applyGrant, GrantCredits, grantPlan,
    grantIaUnlimited, grantCategoryAccess, Throw, LedgerStatement, Respond, Fail,
    ToggleProduct, Tick
<1>3. webhookEvent \in [Events -> {"absent", "marker", "granted"}]
  BY DEF BillingInv, TableTypes
<1>4. CASE CreateMarker(w)
  <2>1. hook[w].event = e /\ ~Recorded(w) /\ webhookEvent'[e] = "marker"
    BY <1>3, <1>4 DEF CreateMarker
  <2> QED
    BY <1>4, <2>1 DEF Recorded
<1>5. CASE Commit(w)
  <2>1. hook[w].event = e /\ webhookEvent'[e] = "granted"
    BY <1>3, <1>5 DEF Commit
  <2>2. ~Recorded(w)
    BY <1>5 DEF Commit, BillingInv, WorkInv, Work, InMoneyTx, At
  <2> QED
    BY <1>5, <2>1, <2>2 DEF Recorded
<1> QED
  BY <1>2, <1>4, <1>5

LEMMA OrderStays == [BillingNext]_billingVars => order' = order
  BY DEF BillingNext, billingVars, world, Deliver, processWebhook, FindWebhookEvent,
    FindProduct, CreateMarker, findOrCreateByEmail, CreateWebhookEvent, applyGrant,
    GrantCredits, grantPlan, grantIaUnlimited, grantCategoryAccess, Throw,
    LedgerStatement, Commit, Respond, Fail, ToggleProduct, Tick

\* What worker v is about to do stays right while other workers act.
LEMMA OthersWork ==
  ASSUME BillingInv, NEW w \in Txs, StepBy(w), NEW v \in Txs \ {w}
  PROVE  Work(v)'
<1>0. BillingNext
  BY DEF BillingNext, StepBy
<1>1. hook'[v] = hook[v] /\ tx'[v] = tx[v] /\ order' = order
  BY <1>0, OthersStay, OrderStays DEF BillingInv
<1>2. Grant(v)' = Grant(v) /\ Buyer(v)' = Buyer(v)
  BY <1>1 DEF Grant, Buyer
<1>3. Owed(v) => Owed(v)'
  BY <1>1, <1>2 DEF Owed
<1>4. Moving(v) => Moving(v)'
  BY <1>1, <1>2, SameWords DEF Moving
<1>5. Work(v)
  BY DEF BillingInv, WorkInv
<1>6. InMoneyTx(v) => ~Recorded(v)'
  <2> SUFFICES ASSUME InMoneyTx(v), Recorded(v)' PROVE FALSE
    OBVIOUS
  <2> DEFINE e == hook[v].event
  <2>1. e \in Events /\ webhookEvent[e] = "absent" /\ webhookEvent'[e] # "absent"
    BY <1>1, <1>5, AtWork DEF Work, Recorded, InMoneyTx, BillingInv
  <2>2. PICK x \in Txs : hook[x].event = e /\ (CreateMarker(x) \/ Commit(x))
    BY <1>0, <2>1, RecordsStay
  <2>3. x # v
    <3> SUFFICES ASSUME x = v PROVE hook'[v] # hook[v]
      BY <1>1
    <3>1. hook[v].pc \in {"marker", "commit", "ledger"}
      BY <2>2 DEF CreateMarker, Commit, At
    <3>2. Goto(v, "respond") \/ hook' = [hook EXCEPT ![v] = Idle]
      BY <2>2 DEF CreateMarker, Commit
    <3>3. HookInv /\ v \in Txs /\ hook[v].pc # "idle"
      BY <3>1 DEF BillingInv
    <3>4. Goto(v, "respond") => hook'[v].pc = "respond"
      BY <3>3, GotoEffect, Zenon
    <3>5. hook' = [hook EXCEPT ![v] = Idle] => hook'[v].pc = "idle"
      BY <3>3, IdleEffect, Zenon
    <3> QED
      BY <3>1, <3>2, <3>4, <3>5
  <2>4. CASE CreateMarker(x)
    BY <2>2, <2>3, <2>4 DEF CreateMarker, Blocked
  <2>5. CASE Commit(x)
    BY <2>2, <2>3, <2>5 DEF Commit, BillingInv, Alone, InMoneyTx, At
  <2> QED
    BY <2>2, <2>4, <2>5
<1>7. At(v, "respond") => Recorded(v)'
  <2> SUFFICES ASSUME At(v, "respond") PROVE Recorded(v)'
    OBVIOUS
  <2>1. hook[v].event \in Events /\ Recorded(v)
    BY <1>5, AtWork DEF At, BillingInv, Work
  <2>2. webhookEvent'[hook[v].event] = webhookEvent[hook[v].event]
    BY <1>0, <2>1, RecordsStay DEF Recorded
  <2> QED
    BY <1>1, <2>1, <2>2 DEF Recorded
<1> QED
  BY <1>1, <1>3, <1>4, <1>5, <1>6, <1>7, SameWords DEF Work, At, InMoneyTx, Open

------------------------------------------------------------------------------
\* A worker with nothing under way owes nothing.
LEMMA QuietWork ==
  ASSUME NEW w \in Txs, ~Open(w)',
         hook'[w].pc \in {"idle", "dedupe", "product", "marker", "buyer", "begin"}
  PROVE  Work(w)'
  BY DEF Work, At, InMoneyTx

LEMMA RespondWork ==
  ASSUME NEW w \in Txs, ~Open(w)', hook'[w].pc = "respond", Recorded(w)'
  PROVE  Work(w)'
  BY DEF Work, At, InMoneyTx

\* The worker's own step, for the steps before the money transaction.
LEMMA LookupWork ==
  ASSUME BillingInv, NEW w \in Txs,
         \/ \E e \in Events : Deliver(w, e)
         \/ FindWebhookEvent(w) \/ FindProduct(w) \/ CreateMarker(w)
         \/ findOrCreateByEmail(w) \/ CreateWebhookEvent(w) \/ Throw(w) \/ Respond(w)
  PROVE  Work(w)'
<1> USE DEF BillingInv
<1>1. Work(w) /\ tx' = tx
  BY DEF WorkInv, ledgerVars, Deliver, FindWebhookEvent, FindProduct, CreateMarker,
    findOrCreateByEmail, CreateWebhookEvent, Throw, Respond
<1>2. ~At(w, "ledger") /\ ~Open(w)'
  BY <1>1 DEF Work, At, Open, Deliver, FindWebhookEvent, FindProduct, CreateMarker,
    findOrCreateByEmail, CreateWebhookEvent, Throw, Respond
<1>3. CASE \E e \in Events : Deliver(w, e)
  <2>1. hook'[w].pc = "dedupe"
    BY <1>3 DEF Deliver, HookInv
  <2> QED
    BY <1>2, <2>1, QuietWork
<1>4. CASE FindWebhookEvent(w) /\ Recorded(w)
  <2>1. hook'[w].pc = "respond" /\ hook'[w].event = hook[w].event
    BY <1>4, GotoEffect DEF FindWebhookEvent, At
  <2>2. Recorded(w)'
    BY <1>4, <2>1 DEF Recorded, FindWebhookEvent, tables
  <2> QED
    BY <1>2, <2>1, <2>2, RespondWork
<1>5. CASE FindWebhookEvent(w) /\ ~Recorded(w)
  <2>1. hook'[w].pc = "product"
    BY <1>5, GotoEffect DEF FindWebhookEvent, At
  <2> QED
    BY <1>2, <2>1, QuietWork
<1>6. CASE FindProduct(w)
  <2>1. hook'[w].pc \in {"buyer", "marker"}
    BY <1>6, GotoEffect DEF FindProduct, At
  <2> QED
    BY <1>2, <2>1, QuietWork
<1>7. CASE CreateMarker(w) /\ Recorded(w)
  <2>1. hook'[w].pc = "idle"
    BY <1>7, IdleEffect DEF CreateMarker
  <2> QED
    BY <1>2, <2>1, QuietWork
<1>8. CASE CreateMarker(w) /\ ~Recorded(w)
  <2>1. hook[w].pc = "marker" /\ Goto(w, "respond")
    BY <1>8 DEF CreateMarker, At
  <2>2. hook'[w].pc = "respond" /\ hook'[w].event = hook[w].event
    BY <2>1, GotoEffect
  <2>3. hook[w].event \in Events
    BY <2>1, AtWork
  <2>4. Recorded(w)'
    BY <1>8, <2>2, <2>3 DEF Recorded, CreateMarker, TableTypes
  <2> QED
    BY <1>2, <2>2, <2>4, RespondWork
<1>9. CASE findOrCreateByEmail(w)
  <2>1. hook'[w].pc = "begin"
    BY <1>9, GotoEffect DEF findOrCreateByEmail, At
  <2> QED
    BY <1>2, <2>1, QuietWork
<1>10. CASE CreateWebhookEvent(w) /\ Recorded(w)
  <2>1. hook'[w].pc = "respond" /\ hook'[w].event = hook[w].event
    BY <1>10, GotoEffect DEF CreateWebhookEvent, At
  <2>2. Recorded(w)'
    BY <1>10, <2>1 DEF Recorded, CreateWebhookEvent, tables
  <2> QED
    BY <1>2, <2>1, <2>2, RespondWork
<1>11. CASE CreateWebhookEvent(w) /\ ~Recorded(w)
  <2>1. hook'[w].pc = "grant" /\ hook'[w].event = hook[w].event
    BY <1>11, GotoEffect DEF CreateWebhookEvent, At
  <2>2. ~Recorded(w)'
    BY <1>11, <2>1 DEF Recorded, CreateWebhookEvent, tables
  <2> QED
    BY <1>2, <2>1, <2>2 DEF Work, At, InMoneyTx
<1>12. CASE Throw(w) \/ Respond(w)
  <2>1. hook'[w].pc = "idle"
    BY <1>12, IdleEffect DEF Throw, Respond
  <2> QED
    BY <1>2, <2>1, QuietWork
<1> QED
  BY <1>3, <1>4, <1>5, <1>6, <1>7, <1>8, <1>9, <1>10, <1>11, <1>12

\* The later of two moments is one of them.
LEMMA LaterIsLater ==
  ASSUME NEW a \in Nat, NEW b \in Nat \ {0}
  PROVE  Later(a, b) \in Nat \ {0}
  BY DEF Later

\* A grant that writes one row of a table is computed, and the commit is next.
LEMMA GrantWork ==
  ASSUME BillingInv, NEW w \in Txs, applyGrant(w)
  PROVE  Work(w)'
<1> USE DEF BillingInv
<1> DEFINE e == hook[w].event  g == Grant(w)  days == g.grantPeriodDays
<1>0. Work(w) /\ hook[w].pc = "grant" /\ HookInv /\ IInv
  BY DEF WorkInv, applyGrant, GrantCredits, grantPlan, grantIaUnlimited,
    grantCategoryAccess, Throw, At
<1>1. /\ e \in Events /\ Buyer(w) \in Users
      /\ order[e].product \in DOMAIN Product /\ days \in Nat \cup {Null}
      /\ ~Open(w) /\ ~Recorded(w)
  BY <1>0, AtWork DEF Work, At, InMoneyTx
<1>2. order' = order /\ webhookEvent' = webhookEvent
  BY DEF applyGrant, GrantCredits, grantPlan, grantIaUnlimited, grantCategoryAccess, Throw,
    world, tables
<1>3. \A p \in {"ledger", "commit"} : \A until :
        Goto(w, p) \/ GotoUntil(w, p, until) => hook'[w].pc = p /\ hook'[w].event = e
  BY <1>0, GotoEffect, GotoUntilEffect
<1>4. hook'[w].event = e =>
        /\ Grant(w)' = g /\ Buyer(w)' = Buyer(w) /\ Recorded(w)' = Recorded(w)
        /\ MovesCredits(hook[w].event)' = MovesCredits(e)
        /\ CreditsOf(hook[w].event)' = CreditsOf(e)
  BY <1>2 DEF Grant, Buyer, Recorded, MovesCredits, CreditsOf
<1>5. ASSUME NEW a, applyTransaction(w, Buyer(w), a, e), MovesCredits(e), a = CreditsOf(e),
             hook'[w].pc = "ledger", hook'[w].event = e, Owed(w)'
      PROVE  Work(w)'
  <2>1. /\ tx'[w].pc = "called" /\ tx'[w].user = Buyer(w)
        /\ tx'[w].amount = a /\ tx'[w].ref = e
    BY <1>0, <1>5, CallEffect
  <2>2. Moving(w)'
    BY <1>4, <1>5, <2>1 DEF Moving
  <2> QED
    BY <1>1, <1>4, <1>5, <2>1, <2>2 DEF Work, At, Open, InMoneyTx
<1>6. ASSUME tx' = tx, ~MovesCredits(e), hook'[w].pc = "commit", hook'[w].event = e, Owed(w)'
      PROVE  Work(w)'
  BY <1>1, <1>4, <1>6 DEF Work, At, Open, InMoneyTx
<1>7. CASE GrantCredits(w)
  <2>1. hook'[w].pc = "ledger" /\ hook'[w].event = e /\ Grantable(g)
    BY <1>3, <1>7 DEF GrantCredits, Grantable
  <2>2. Owed(w)'
    BY <1>4, <1>7, <2>1 DEF Owed, GrantCredits
  <2>3. MovesCredits(e) /\ g.grantCredits = CreditsOf(e)
    BY <1>7 DEF GrantCredits, Grant, MovesCredits, CreditsOf
  <2> QED
    BY <1>5, <1>7, <2>1, <2>2, <2>3 DEF GrantCredits
<1>8. CASE grantPlan(w)
  <2> DEFINE monthly == MonthlyCredits[g.grantPlanKey]
  <2>1. g.grantType = "plan" /\ Grantable(g) /\ g.grantPlanKey \in DOMAIN MonthlyCredits
    BY <1>8 DEF grantPlan, Grantable
  <2>2. PeriodEnd(w) \in Expiry
    BY <1>1 DEF PeriodEnd, Expiry, TableTypes
  <2>3. \A p : GotoUntil(w, p, PeriodEnd(w)) => hook'[w].until = PeriodEnd(w)
    BY <1>0, GotoUntilEffect
  <2>4. ASSUME NEW p \in {"ledger", "commit"}, GotoUntil(w, p, PeriodEnd(w))
        PROVE  hook'[w].pc = p /\ hook'[w].event = e /\ Owed(w)'
    BY <1>3, <1>4, <2>1, <2>2, <2>3, <2>4 DEF Owed
  <2>5. CASE monthly > 0
    <3>1. applyTransaction(w, Buyer(w), monthly, e) /\ GotoUntil(w, "ledger", PeriodEnd(w))
      BY <1>8, <2>5 DEF grantPlan
    <3>2. MovesCredits(e) /\ monthly = CreditsOf(e)
      BY <2>1, <2>5 DEF Grant, MovesCredits, CreditsOf
    <3> QED
      BY <1>5, <2>4, <3>1, <3>2
  <2>6. CASE ~(monthly > 0)
    <3>1. tx' = tx /\ GotoUntil(w, "commit", PeriodEnd(w))
      BY <1>8, <2>6 DEF grantPlan, ledgerVars
    <3>2. ~MovesCredits(e)
      BY <2>1, <2>6 DEF Grant, MovesCredits
    <3> QED
      BY <1>6, <2>4, <3>1, <3>2
  <2> QED
    BY <2>5, <2>6
<1>9. CASE grantIaUnlimited(w)
  <2> DEFINE until == Later(pass[Buyer(w)], now) + days
  <2>1. g.grantType = "ia_unlimited" /\ Grantable(g) /\ days \in Nat
    BY <1>1, <1>9 DEF grantIaUnlimited, Grantable
  <2>2. pass[Buyer(w)] \in Nat /\ now \in Nat \ {0}
    BY <1>1 DEF TableTypes
  <2>3. until \in Nat \ {0}
    BY <2>1, <2>2, LaterIsLater
  <2>4. hook'[w].pc = "commit" /\ hook'[w].event = e /\ hook'[w].until = until
    BY <1>0, <1>9, GotoUntilEffect DEF grantIaUnlimited
  <2>5. Owed(w)' /\ ~MovesCredits(e) /\ tx' = tx
    BY <1>4, <1>9, <2>1, <2>3, <2>4 DEF Owed, Grant, MovesCredits, grantIaUnlimited, ledgerVars
  <2> QED
    BY <1>6, <2>4, <2>5
<1>10. CASE grantCategoryAccess(w)
  <2> DEFINE expires == access[Buyer(w)][g.grantCategory]
             from == IF expires = Null THEN 0 ELSE expires
             until == IF days = Null THEN Null ELSE Later(from, now) + days
  <2>1. g.grantType = "category_access" /\ Grantable(g) /\ g.grantCategory \in Categories
    BY <1>10 DEF grantCategoryAccess, Grantable
  <2>2. expires \in Expiry /\ now \in Nat \ {0}
    BY <1>1, <2>1 DEF TableTypes
  <2>3. from \in Nat
    BY <2>2 DEF Expiry
  <2>4. until \in Expiry \ {0}
    BY <1>1, <2>2, <2>3, LaterIsLater, NullAssumption DEF Expiry
  <2>5. GotoUntil(w, "commit", until) /\ tx' = tx
    BY <1>10 DEF grantCategoryAccess, ledgerVars
  <2>6. hook'[w].pc = "commit" /\ hook'[w].event = e /\ hook'[w].until = until
    BY <1>0, <2>5, GotoUntilEffect
  <2>7. Owed(w)' /\ ~MovesCredits(e)
    BY <1>4, <2>1, <2>4, <2>6 DEF Owed, Grant, MovesCredits
  <2> QED
    BY <1>6, <2>5, <2>6, <2>7
<1>11. CASE Throw(w)
  BY <1>11, LookupWork
<1> QED
  BY <1>7, <1>8, <1>9, <1>10, <1>11 DEF applyGrant

\* The worker's own step, for the steps that touch the ledger's transaction or end it.
LEMMA LedgerWork ==
  ASSUME BillingInv, NEW w \in Txs, LedgerStatement(w) \/ Commit(w) \/ Fail(w)
  PROVE  Work(w)'
<1> USE DEF BillingInv
<1> DEFINE e == hook[w].event
<1>0. Work(w) /\ HookInv /\ IInv /\ hook[w].pc # "idle"
  BY DEF WorkInv, LedgerStatement, Commit, Fail, At
<1>1. e \in Events
  BY <1>0, AtWork
<1>2. CASE LedgerStatement(w)
  <2>1. /\ hook' = hook /\ order' = order /\ webhookEvent' = webhookEvent
        /\ hook[w].pc = "ledger" /\ LedgerStep(w)
    BY <1>2 DEF LedgerStatement, world, tables, At
  <2>2. /\ tx'[w].pc \in Holding /\ tx'[w].user = tx[w].user
        /\ tx'[w].amount = tx[w].amount /\ tx'[w].ref = tx[w].ref
    BY <1>0, <2>1, StatementEffect
  <2>3. Moving(w)'
    BY <1>0, <2>1, <2>2, SameWords DEF Work, Moving, At, Buyer
  <2>4. Owed(w)'
    BY <1>0, <2>1 DEF Work, Owed, At, Grant
  <2>5. Open(w)' /\ ~Recorded(w)'
    BY <1>0, <2>1, <2>2 DEF Open, Holding, Work, Recorded, InMoneyTx, At
  <2> QED
    BY <2>1, <2>3, <2>4, <2>5 DEF Work, At
<1>3. CASE Commit(w)
  <2>1. ~Open(w)'
    BY <1>0, <1>3, EndEffect DEF Commit, Open, ledgerVars, Work, At
  <2>2. hook'[w].pc = "respond" /\ hook'[w].event = e
    BY <1>0, <1>3, GotoEffect DEF Commit
  <2>3. Recorded(w)'
    BY <1>1, <1>3, <2>2 DEF Commit, Recorded, TableTypes
  <2> QED
    BY <2>1, <2>2, <2>3, RespondWork
<1>4. CASE Fail(w)
  <2>1. ~Open(w)'
    BY <1>0, <1>4, EndEffect DEF Fail, Drop, Open, ledgerVars
  <2>2. hook'[w].pc = "idle"
    BY <1>0, <1>4, IdleEffect DEF Fail
  <2> QED
    BY <2>1, <2>2, QuietWork
<1> QED
  BY <1>2, <1>3, <1>4

LEMMA WorkKept ==
  ASSUME BillingInv, [BillingNext]_billingVars
  PROVE  WorkInv'
<1>1. ASSUME NEW w \in Txs, StepBy(w) PROVE WorkInv'
  <2>1. Work(w)'
    BY <1>1, LookupWork, GrantWork, LedgerWork DEF StepBy, processWebhook
  <2>2. \A v \in Txs \ {w} : Work(v)'
    BY <1>1, OthersWork
  <2> QED
    BY <2>1, <2>2 DEF WorkInv
<1>2. ASSUME UNCHANGED <<ledgerVars, tables, hook, order>> PROVE WorkInv'
  <2>1. ASSUME NEW w \in Txs PROVE Work(w)'
    <3>1. /\ hook' = hook /\ tx' = tx /\ order' = order /\ webhookEvent' = webhookEvent
      BY <1>2 DEF ledgerVars, tables
    <3>2. Owed(w)' = Owed(w) /\ Moving(w)' = Moving(w)
      BY <3>1, SameWords DEF Owed, Moving, Grant, Buyer
    <3>3. Work(w)
      BY DEF BillingInv, WorkInv
    <3> QED
      BY <3>1, <3>2, <3>3, SameWords DEF Work, At, Open, InMoneyTx, Recorded
  <2> QED
    BY <2>1 DEF WorkInv
<1> QED
  BY <1>1, <1>2, StepCases

\* Only the insert of the event's row lets a worker into its money transaction, and it
\* waits while another request has inserted that row.
LEMMA AloneKept ==
  ASSUME BillingInv, [BillingNext]_billingVars
  PROVE  Alone'
<1> USE DEF BillingInv
<1>1. ASSUME NEW w \in Txs, StepBy(w) PROVE Alone'
  <2>1. \A v \in Txs \ {w} : hook'[v] = hook[v]
    BY <1>1, OthersStay
  <2>2. InMoneyTx(w)' => \/ InMoneyTx(w) /\ hook'[w].event = hook[w].event
                         \/ ~Blocked(w) /\ hook'[w].event = hook[w].event
    <3> SUFFICES ASSUME InMoneyTx(w)'
                 PROVE  /\ hook'[w].event = hook[w].event
                        /\ InMoneyTx(w) \/ ~Blocked(w)
      OBVIOUS
    <3>1. hook'[w].pc \in {"grant", "ledger", "commit"}
      BY DEF InMoneyTx
    <3>2. CASE \E e \in Events : Deliver(w, e)
      BY <3>1, <3>2 DEF Deliver, HookInv
    <3>3. CASE \/ FindWebhookEvent(w) \/ FindProduct(w) \/ CreateMarker(w)
               \/ findOrCreateByEmail(w) \/ Commit(w)
      <4>1. hook[w].pc # "idle"
        BY <3>3 DEF FindWebhookEvent, FindProduct, CreateMarker, findOrCreateByEmail,
          Commit, At
      <4>2. \/ hook' = [hook EXCEPT ![w] = Idle]
            \/ \E pc \in {"respond", "product", "buyer", "marker", "begin"} : Goto(w, pc)
        BY <3>3 DEF FindWebhookEvent, FindProduct, CreateMarker, findOrCreateByEmail, Commit
      <4> QED
        BY <3>1, <4>1, <4>2, GotoEffect, IdleEffect
    <3>4. CASE CreateWebhookEvent(w)
      BY <3>4, GotoEffect DEF CreateWebhookEvent, At
    <3>5. CASE applyGrant(w) /\ ~Throw(w)
      <4>1. hook[w].pc = "grant"
        BY <3>5 DEF applyGrant, GrantCredits, grantPlan, grantIaUnlimited,
          grantCategoryAccess, At
      <4>2. (\E pc : Goto(w, pc)) \/ (\E pc, until : GotoUntil(w, pc, until))
        BY <3>5 DEF applyGrant, GrantCredits, grantPlan, grantIaUnlimited, grantCategoryAccess
      <4>3. hook'[w].event = hook[w].event
        BY <4>1, <4>2, GotoEffect, GotoUntilEffect
      <4> QED
        BY <4>1, <4>3 DEF InMoneyTx
    <3>6. CASE LedgerStatement(w)
      BY <3>1, <3>6 DEF LedgerStatement, InMoneyTx
    <3>7. CASE Throw(w) \/ Respond(w) \/ Fail(w)
      BY <3>1, <3>7, IdleEffect DEF Throw, Respond, Fail
    <3> QED
      BY <1>1, <3>2, <3>3, <3>4, <3>5, <3>6, <3>7 DEF StepBy, processWebhook
  <2>3. ASSUME NEW v \in Txs \ {w}, InMoneyTx(w)', InMoneyTx(v)'
        PROVE  hook'[v].event # hook'[w].event
    BY <2>1, <2>2, <2>3 DEF Alone, Blocked, InMoneyTx
  <2> QED
    BY <2>1, <2>3 DEF Alone, InMoneyTx
<1>2. CASE hook' = hook
  BY <1>2 DEF Alone, InMoneyTx
<1> QED
  BY <1>1, <1>2, StepCases

------------------------------------------------------------------------------
\* The rows an event has, as its WebhookEvent row has it.
Paid(e) ==
  IF webhookEvent[e] = "granted" /\ MovesCredits(e)
  THEN \E r \in RowsOfEvent(e) : /\ RowsOfEvent(e) = {r}
                                 /\ r.user = order[e].buyer /\ r.amount = CreditsOf(e)
  ELSE RowsOfEvent(e) = {}

LEMMA PaidIsExactlyOnce == GrantedExactlyOnce <=> \A e \in Events : Paid(e)
  BY DEF GrantedExactlyOnce, Paid

\* Only the commit of a ledger transaction adds a row.
LEMMA CreditsStay ==
  ASSUME BillingInv, [BillingNext]_billingVars,
         \A w \in Txs : ~(Commit(w) /\ CommitTx(w))
  PROVE  credits' = credits
<1>1. ASSUME NEW w \in Txs, GrantCredits(w) \/ grantPlan(w) PROVE credits' = credits
  BY <1>1 DEF GrantCredits, grantPlan, applyTransaction, ledgerVars
<1>2. ASSUME NEW w \in Txs, LedgerStatement(w) PROVE credits' = credits
  BY <1>2, StatementEffect DEF LedgerStatement, BillingInv
<1>3. ASSUME NEW w \in Txs, Commit(w) PROVE credits' = credits
  BY <1>3 DEF Commit, ledgerVars
<1>4. ASSUME NEW w \in Txs, Fail(w) PROVE credits' = credits
  BY <1>4 DEF Fail, Drop, RollbackTx, ledgerVars
<1> QED
  BY <1>1, <1>2, <1>3, <1>4 DEF BillingNext, billingVars, ledgerVars, Deliver, processWebhook,
    FindWebhookEvent, FindProduct, CreateMarker, findOrCreateByEmail, CreateWebhookEvent,
    applyGrant, grantIaUnlimited, grantCategoryAccess, Throw, Respond, ToggleProduct, Tick

\* The commit that records an event adds its row, in the same transaction.
LEMMA RowsKept ==
  ASSUME BillingInv, [BillingNext]_billingVars
  PROVE  GrantedExactlyOnce'
<1> USE DEF BillingInv
<1>0. /\ order' = order
      /\ \A e : MovesCredits(e)' = MovesCredits(e) /\ CreditsOf(e)' = CreditsOf(e)
  BY OrderStays, SameWords
<1>1. \A e \in Events : Paid(e)
  BY PaidIsExactlyOnce
<1>2. CASE credits' = credits
  <2> SUFFICES ASSUME NEW e \in Events PROVE Paid(e)'
    BY DEF Paid, GrantedExactlyOnce
  <2>1. RowsOfEvent(e)' = RowsOfEvent(e)
    BY <1>2 DEF RowsOfEvent
  <2>2. CASE webhookEvent'[e] = webhookEvent[e]
    BY <1>0, <1>1, <2>1, <2>2 DEF Paid
  <2>3. CASE webhookEvent'[e] # webhookEvent[e]
    <3>1. PICK w \in Txs : /\ hook[w].event = e
                          /\ \/ CreateMarker(w) /\ webhookEvent'[e] = "marker"
                             \/ Commit(w) /\ webhookEvent'[e] = "granted"
      BY <2>3, RecordsStay
    <3>2. webhookEvent[e] = "absent" /\ RowsOfEvent(e) = {}
      BY <1>1, <2>3, RecordsStay DEF Paid
    <3>3. Commit(w) => ~MovesCredits(e)
      <4> SUFFICES ASSUME Commit(w) PROVE ~MovesCredits(e)
        OBVIOUS
      <4>1. ~CommitTx(w)
        <5>1. CommitTx(w) => NewRow(w) \in credits' /\ NewRow(w) \notin credits
          BY CommittedRow DEF CommitTx
        <5> QED
          BY <1>2, <5>1
      <4>2. At(w, "commit") /\ Work(w)
        BY <4>1 DEF Commit, WorkInv
      <4> QED
        BY <3>1, <4>2 DEF Work
    <3> QED
      BY <1>0, <2>1, <3>1, <3>2, <3>3 DEF Paid
  <2> QED
    BY <2>2, <2>3
<1>3. ASSUME NEW w \in Txs, Commit(w), CommitTx(w) PROVE GrantedExactlyOnce'
  <2> DEFINE e == hook[w].event
  <2>1. /\ tx[w].pc = "created" /\ credits' = credits \cup {NewRow(w)}
    BY <1>3, EndEffect
  <2>2. At(w, "ledger")
    BY <2>1 DEF WorkInv, Work, Open
  <2>3. /\ Moving(w) /\ webhookEvent[e] = "absent" /\ e \in Events
    BY <2>2, AtWork DEF WorkInv, Work, InMoneyTx, Recorded, At
  <2>4. /\ NewRow(w).ref = e /\ NewRow(w).user = order[e].buyer
        /\ NewRow(w).amount = CreditsOf(e)
    BY <2>3 DEF NewRow, Moving, Buyer
  <2>5. webhookEvent' = [webhookEvent EXCEPT ![e] = "granted"]
    BY <1>3 DEF Commit
  <2> SUFFICES ASSUME NEW f \in Events PROVE Paid(f)'
    BY DEF Paid, GrantedExactlyOnce
  <2>6. CASE f # e
    <3>1. RowsOfEvent(f)' = RowsOfEvent(f) /\ webhookEvent'[f] = webhookEvent[f]
      BY <2>1, <2>4, <2>5, <2>6 DEF RowsOfEvent, TableTypes
    <3> QED
      BY <1>0, <1>1, <3>1 DEF Paid
  <2>7. CASE f = e
    <3>1. RowsOfEvent(f) = {}
      BY <1>1, <2>3, <2>7 DEF Paid
    <3>2. RowsOfEvent(f)' = {NewRow(w)}
      BY <2>1, <2>4, <2>7, <3>1 DEF RowsOfEvent
    <3>3. webhookEvent'[f] = "granted" /\ MovesCredits(f)
      BY <2>3, <2>5, <2>7 DEF TableTypes, Moving
    <3> QED
      BY <1>0, <2>4, <2>7, <3>2, <3>3 DEF Paid
  <2> QED
    BY <2>6, <2>7
<1> QED
  BY <1>2, <1>3, CreditsStay

------------------------------------------------------------------------------
\* The tables other than the ledger are only written by the commit of a grant.
LEMMA TablesStay ==
  ASSUME BillingInv, [BillingNext]_billingVars, \A w \in Txs : ~Commit(w)
  PROVE  UNCHANGED <<pass, access, subscription>>
  BY DEF BillingNext, billingVars, tables, Deliver, processWebhook, FindWebhookEvent,
    FindProduct, CreateMarker, findOrCreateByEmail, CreateWebhookEvent, applyGrant,
    GrantCredits, grantPlan, grantIaUnlimited, grantCategoryAccess, Throw,
    LedgerStatement, Respond, Fail, ToggleProduct, Tick

\* What a commit writes for the grant it owes.
LEMMA CommitWrites ==
  ASSUME BillingInv, NEW w \in Txs, Commit(w),
         NEW u, u = Buyer(w), NEW g, g = Grant(w), NEW until, until = hook[w].until
  PROVE  /\ hook[w].event \in Events /\ u \in Users /\ Owed(w)
         /\ webhookEvent' = [webhookEvent EXCEPT ![hook[w].event] = "granted"]
         /\ pass' = IF g.grantType = "ia_unlimited" THEN [pass EXCEPT ![u] = until] ELSE pass
         /\ access' = IF g.grantType = "category_access"
                      THEN [access EXCEPT ![u][g.grantCategory] = until] ELSE access
         /\ g.grantType = "category_access" => g.grantCategory \in Categories
         /\ \/ g.grantType # "plan" /\ subscription' = subscription
            \/ /\ g.grantType = "plan"
               /\ \E row \in Subscription : subscription' = [subscription EXCEPT ![u] = row]
<1> USE DEF BillingInv
<1>1. hook[w].pc \in {"ledger", "commit"} /\ Work(w)
  BY DEF Commit, At, WorkInv
<1>2. hook[w].event \in Events /\ u \in Users /\ Owed(w)
  BY <1>1, AtWork DEF Work, At
<1>3. g.grantType = "category_access" => g.grantCategory \in Categories
  BY <1>2 DEF Owed, Grantable
<1>4. g.grantType = "plan" =>
        [planKey |-> g.grantPlanKey, currentPeriodEnd |-> until] \in Subscription
  BY <1>2 DEF Owed, Grantable, Subscription
<1> QED
  BY <1>2, <1>3, <1>4 DEF Commit

LEMMA TypesKept ==
  ASSUME BillingInv, [BillingNext]_billingVars
  PROVE  TableTypes'
<1> USE DEF BillingInv
<1>1. webhookEvent' \in [Events -> {"absent", "marker", "granted"}]
  <2>1. webhookEvent' = webhookEvent
        \/ \E w \in Txs, row \in {"marker", "granted"} :
             webhookEvent' = [webhookEvent EXCEPT ![hook[w].event] = row]
    BY DEF BillingNext, billingVars, tables, Deliver, processWebhook, FindWebhookEvent,
      FindProduct, CreateMarker, findOrCreateByEmail, CreateWebhookEvent, applyGrant,
      GrantCredits, grantPlan, grantIaUnlimited, grantCategoryAccess, Throw,
      LedgerStatement, Commit, Respond, Fail, ToggleProduct, Tick
  <2> QED
    BY <2>1 DEF TableTypes
<1>2. \A e \in Events : webhookEvent[e] # "absent" => webhookEvent'[e] # "absent"
  BY RecordsStay
<1>3. active' \subseteq DOMAIN Product
  BY BillingAssumption DEF TableTypes, BillingNext, billingVars, world, Deliver,
    processWebhook, FindWebhookEvent, FindProduct, CreateMarker, findOrCreateByEmail,
    CreateWebhookEvent, applyGrant, GrantCredits, grantPlan, grantIaUnlimited,
    grantCategoryAccess, Throw, LedgerStatement, Commit, Respond, Fail, ToggleProduct, Tick
<1>4. buyers' \subseteq Users
  <2>1. ASSUME NEW w \in Txs, findOrCreateByEmail(w) PROVE buyers' \subseteq Users
    BY <2>1, AtWork DEF findOrCreateByEmail, At, TableTypes
  <2>2. (\A w \in Txs : ~findOrCreateByEmail(w)) => buyers' = buyers
    BY DEF BillingNext, billingVars, tables, Deliver, processWebhook, FindWebhookEvent,
      FindProduct, CreateMarker, CreateWebhookEvent, applyGrant, GrantCredits, grantPlan,
      grantIaUnlimited, grantCategoryAccess, Throw, LedgerStatement, Commit, Respond, Fail,
      ToggleProduct, Tick
  <2> QED
    BY <2>1, <2>2 DEF TableTypes
<1>5. /\ pass' \in [Users -> Nat] /\ access' \in [Users -> [Categories -> Expiry]]
      /\ subscription' \in [Users -> Subscription \cup {Null}]
  <2>1. ASSUME NEW w \in Txs, Commit(w)
        PROVE  /\ pass' \in [Users -> Nat] /\ access' \in [Users -> [Categories -> Expiry]]
               /\ subscription' \in [Users -> Subscription \cup {Null}]
    <3> PICK u, g, until : u = Buyer(w) /\ g = Grant(w) /\ until = hook[w].until
      OBVIOUS
    <3>1. u \in Users /\ Owed(w)
      BY <2>1, CommitWrites
    <3>2. pass' \in [Users -> Nat]
      <4>1. pass' = IF g.grantType = "ia_unlimited" THEN [pass EXCEPT ![u] = until] ELSE pass
        BY <2>1, CommitWrites
      <4> QED
        BY <3>1, <4>1 DEF TableTypes, Owed
    <3>3. access' \in [Users -> [Categories -> Expiry]]
      <4>1. access' = IF g.grantType = "category_access"
                      THEN [access EXCEPT ![u][g.grantCategory] = until] ELSE access
        BY <2>1, CommitWrites
      <4> QED
        BY <3>1, <4>1 DEF TableTypes, Owed
    <3>4. subscription' \in [Users -> Subscription \cup {Null}]
      <4>1. subscription' = subscription
            \/ \E row \in Subscription : subscription' = [subscription EXCEPT ![u] = row]
        BY <2>1, CommitWrites
      <4> QED
        BY <3>1, <4>1 DEF TableTypes
    <3> QED
      BY <3>2, <3>3, <3>4
  <2> QED
    BY <2>1, TablesStay DEF TableTypes
<1>6. acked' \subseteq {e \in Events : webhookEvent'[e] # "absent"}
  <2>1. ASSUME NEW w \in Txs, Respond(w)
        PROVE  /\ acked' = acked \cup {hook[w].event}
               /\ hook[w].event \in Events /\ webhookEvent[hook[w].event] # "absent"
    BY <2>1, AtWork DEF Respond, At, WorkInv, Work, Recorded
  <2>2. (\A w \in Txs : ~Respond(w)) => acked' = acked
    BY DEF BillingNext, billingVars, world, Deliver, processWebhook, FindWebhookEvent,
      FindProduct, CreateMarker, findOrCreateByEmail, CreateWebhookEvent, applyGrant,
      GrantCredits, grantPlan, grantIaUnlimited, grantCategoryAccess, Throw,
      LedgerStatement, Commit, Fail, ToggleProduct, Tick
  <2> QED
    BY <1>2, <2>1, <2>2 DEF TableTypes
<1>7. now' \in Nat \ {0}
  <2>1. now' = now \/ now' = now + 1
    BY DEF BillingNext, billingVars, world, Deliver, processWebhook, FindWebhookEvent,
      FindProduct, CreateMarker, findOrCreateByEmail, CreateWebhookEvent, applyGrant,
      GrantCredits, grantPlan, grantIaUnlimited, grantCategoryAccess, Throw,
      LedgerStatement, Commit, Respond, Fail, ToggleProduct, Tick
  <2> QED
    BY <2>1 DEF TableTypes
<1> QED
  BY <1>1, <1>3, <1>4, <1>5, <1>6, <1>7 DEF TableTypes

\* What a user has of each kind, against the recorded events that grant it.
Matched(u) ==
  /\ pass[u] # 0 <=> Granted(u, "ia_unlimited") # {}
  /\ subscription[u] # Null <=> Granted(u, "plan") # {}
  /\ \A c \in Categories :
       access[u][c] # 0 <=> \E e \in Granted(u, "category_access") :
                              Product[order[e].product].grantCategory = c

\* A commit records one event and writes what it grants, to its buyer.
LEMMA CommitMatched ==
  ASSUME BillingInv, NEW w \in Txs, Commit(w), order' = order,
         NEW u \in Users, Matched(u)
  PROVE  Matched(u)'
<1> USE DEF BillingInv
<1> PICK b, g, until, e : b = Buyer(w) /\ g = Grant(w) /\ until = hook[w].until
                          /\ e = hook[w].event
  OBVIOUS
<1>1. /\ e \in Events /\ b \in Users /\ Owed(w)
      /\ webhookEvent' = [webhookEvent EXCEPT ![e] = "granted"]
  BY CommitWrites
<1>2. order[e].buyer = b /\ Product[order[e].product] = g /\ webhookEvent[e] = "absent"
  BY DEF Buyer, Grant, WorkInv, Work, Commit, At, InMoneyTx, Recorded
<1>3. \A type : Granted(u, type)' = IF b = u /\ g.grantType = type
                                   THEN Granted(u, type) \cup {e} ELSE Granted(u, type)
  BY <1>1, <1>2 DEF Granted, TableTypes
<1>4. (pass[u] # 0 <=> Granted(u, "ia_unlimited") # {})'
  <2>1. pass' = IF g.grantType = "ia_unlimited" THEN [pass EXCEPT ![b] = until] ELSE pass
    BY CommitWrites
  <2>2. g.grantType = "ia_unlimited" => until # 0
    BY <1>1 DEF Owed
  <2> QED
    BY <1>1, <1>3, <2>1, <2>2 DEF Matched, TableTypes
<1>5. (subscription[u] # Null <=> Granted(u, "plan") # {})'
  <2>1. \/ g.grantType # "plan" /\ subscription' = subscription
        \/ /\ g.grantType = "plan"
           /\ \E row \in Subscription : subscription' = [subscription EXCEPT ![b] = row]
    BY CommitWrites
  <2> QED
    BY <1>1, <1>3, <2>1, NullAssumption, ZenonT(60) DEF Matched, TableTypes
<1>6. ASSUME NEW c \in Categories
      PROVE  (access[u][c] # 0 <=> \E f \in Granted(u, "category_access") :
                                     Product[order[f].product].grantCategory = c)'
  <2>1. access' = IF g.grantType = "category_access"
                  THEN [access EXCEPT ![b][g.grantCategory] = until] ELSE access
    BY CommitWrites
  <2>2. g.grantType = "category_access" => until # 0 /\ g.grantCategory \in Categories
    BY <1>1, CommitWrites DEF Owed
  <2>3. access[u][c] # 0 <=> \E f \in Granted(u, "category_access") :
                               Product[order[f].product].grantCategory = c
    BY DEF Matched
  <2>4. CASE b = u /\ g.grantType = "category_access" /\ g.grantCategory = c
    <3>1. access'[u][c] # 0
      BY <2>1, <2>2, <2>4 DEF TableTypes
    <3>2. e \in Granted(u, "category_access")'
      BY <1>3, <2>4
    <3> QED
      BY <1>2, <2>4, <3>1, <3>2
  <2>5. CASE ~(b = u /\ g.grantType = "category_access" /\ g.grantCategory = c)
    <3>1. access'[u][c] = access[u][c]
      BY <2>1, <2>2, <2>5 DEF TableTypes
    <3> QED
      BY <1>2, <1>3, <2>3, <2>5, <3>1
  <2> QED
    BY <2>4, <2>5
<1> QED
  BY <1>4, <1>5, <1>6 DEF Matched

LEMMA MatchKept ==
  ASSUME BillingInv, [BillingNext]_billingVars
  PROVE  GrantsMatchRecords'
<1> USE DEF BillingInv
<1>0. order' = order
  BY OrderStays
<1>1. \A u \in Users : Matched(u)
  BY DEF GrantsMatchRecords, Matched
<1> SUFFICES ASSUME NEW u \in Users PROVE Matched(u)'
  BY DEF GrantsMatchRecords, Matched
<1>2. CASE \E w \in Txs : Commit(w)
  BY <1>0, <1>1, <1>2, CommitMatched
<1>3. CASE \A w \in Txs : ~Commit(w)
  <2>1. UNCHANGED <<pass, access, subscription>>
    BY <1>3, TablesStay
  <2>2. \A e \in Events : webhookEvent'[e] = "granted" <=> webhookEvent[e] = "granted"
    BY <1>3, RecordsStay
  <2>3. \A type : Granted(u, type)' = Granted(u, type)
    BY <1>0, <2>2 DEF Granted
  <2> QED
    BY <1>0, <1>1, <2>1, <2>3 DEF Matched
<1> QED
  BY <1>2, <1>3

------------------------------------------------------------------------------
LEMMA InitBillingInv == BillingInit => BillingInv
<1> SUFFICES ASSUME BillingInit PROVE BillingInv
  OBVIOUS
<1>1. IInv /\ HookInv
  BY InitIInv, InitHookInv DEF BillingInit
<1>2. TableTypes
  BY BillingAssumption DEF BillingInit, TableTypes, Expiry
<1>3. WorkInv /\ Alone
  BY DEF BillingInit, LedgerInit, WorkInv, Work, Alone, Open, At, InMoneyTx, Idle
<1>4. GrantedExactlyOnce
  BY DEF BillingInit, LedgerInit, GrantedExactlyOnce, RowsOfEvent
<1>5. \A u, type : Granted(u, type) = {}
  BY DEF BillingInit, Granted
<1>6. GrantsMatchRecords
  BY <1>5 DEF BillingInit, GrantsMatchRecords
<1> QED
  BY <1>1, <1>2, <1>3, <1>4, <1>6 DEF BillingInv

LEMMA NextBillingInv == BillingInv /\ [BillingNext]_billingVars => BillingInv'
<1> SUFFICES ASSUME BillingInv, [BillingNext]_billingVars PROVE BillingInv'
  OBVIOUS
<1>1. IInv'
  BY StepIsLedgerStep, NextIInv DEF BillingInv
<1>2. HookInv'
  BY NextHookInv DEF BillingInv
<1> QED
  BY <1>1, <1>2, TypesKept, WorkKept, AloneKept, RowsKept, MatchKept DEF BillingInv

\* The inductive invariant holds in every reachable state.
THEOREM BillingInvariant == BillingSpec => []BillingInv
  BY InitBillingInv, NextBillingInv, PTL DEF BillingSpec

(* Every table of the webhook pipeline keeps its type, for any catalogue; in *)
(* particular no pass, access row or subscription is ever written without an *)
(* expiry of its kind.                                                       *)
THEOREM BillingTypes == BillingSpec => []BillingTypeOK
<1>1. BillingInv => BillingTypeOK
  BY DEF BillingInv, IInv, TableTypes, BillingTypeOK
<1> QED
  BY <1>1, BillingInvariant, PTL

(* One sale moves credits exactly once: however many deliveries of an event  *)
(* are handled at once and wherever they die, it has its one ledger row from *)
(* the moment its WebhookEvent row says so, and never otherwise.             *)
THEOREM SalesMoveCreditsOnce == BillingSpec => []GrantedExactlyOnce
<1>1. BillingInv => GrantedExactlyOnce
  BY DEF BillingInv
<1> QED
  BY <1>1, BillingInvariant, PTL

(* A user has a pass, an access row or a subscription exactly when a recorded *)
(* event of theirs granted one.                                               *)
THEOREM GrantsAreRecorded == BillingSpec => []GrantsMatchRecords
<1>1. BillingInv => GrantsMatchRecords
  BY DEF BillingInv
<1> QED
  BY <1>1, BillingInvariant, PTL

(* A delivery is only answered with a 2xx once its event is recorded, and no  *)
(* record is ever lost or changed: a 2xx never hides a grant still to be made.*)
THEOREM AcksAreFinal == BillingSpec => AckedIsFinal
<1> DEFINE Final == \A e \in Events :
             /\ e \in acked' => webhookEvent[e] # "absent"
             /\ webhookEvent[e] # "absent" => webhookEvent'[e] = webhookEvent[e]
<1>1. BillingInv /\ [BillingNext]_billingVars => [Final]_billingVars
  <2> SUFFICES ASSUME BillingInv, [BillingNext]_billingVars, NEW e \in Events
               PROVE  /\ e \in acked' => webhookEvent[e] # "absent"
                      /\ webhookEvent[e] # "absent" => webhookEvent'[e] = webhookEvent[e]
    OBVIOUS
  <2>1. webhookEvent[e] # "absent" => webhookEvent'[e] = webhookEvent[e]
    BY RecordsStay
  <2>2. ASSUME NEW w \in Txs, Respond(w)
        PROVE  acked' = acked \cup {hook[w].event} /\ webhookEvent[hook[w].event] # "absent"
    BY <2>2 DEF Respond, At, BillingInv, WorkInv, Work, Recorded
  <2>3. (\A w \in Txs : ~Respond(w)) => acked' = acked
    BY DEF BillingNext, billingVars, world, Deliver, processWebhook, FindWebhookEvent,
      FindProduct, CreateMarker, findOrCreateByEmail, CreateWebhookEvent, applyGrant,
      GrantCredits, grantPlan, grantIaUnlimited, grantCategoryAccess, Throw,
      LedgerStatement, Commit, Fail, ToggleProduct, Tick
  <2>4. e \in acked' => webhookEvent[e] # "absent"
    BY <2>2, <2>3 DEF BillingInv, TableTypes
  <2> QED
    BY <2>1, <2>4
<1> QED
  BY <1>1, BillingInvariant, PTL DEF BillingSpec, AckedIsFinal
=============================================================================
