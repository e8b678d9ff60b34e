------------------------------- MODULE Billing -------------------------------
(***************************************************************************)
(* BillingService.processWebhook: what the API does with a payment         *)
(* gateway's delivery, from the dedupe lookup to the answer, run by        *)
(* several requests at once on top of CreditsLedger.  A request's money    *)
(* transaction (WebhookEvent row + grant) and its ledger transaction are   *)
(* the same database transaction, so a worker of this module is a member   *)
(* of Txs.                                                                 *)
(*                                                                         *)
(* Every delivery modelled is authentic and decodable: one that is not     *)
(* changes nothing.  What the gateway does (resend until it sees a 2xx,    *)
(* and sometimes again) is modelled from what the code expects of it.      *)
(***************************************************************************)
EXTENDS CreditsLedger

CONSTANTS
  Events,          \* externalIds: one per sale
  Orders,          \* what the events may say: event -> [buyer, product]
  Product,         \* product -> its grant columns (grantCredits: "?? 0" applied)
  Toggleable,      \* products the admin may (de)activate
  MonthlyCredits,  \* plan key -> monthlyCredits, for the plans that exist
  Categories,      \* bilhete categories
  Null,            \* SQL NULL: an absent column, lifetime access, no subscription
  MaxTime,         \* bound on the clock
  MaxFailures      \* bound on requests that die half way

VARIABLES
  order,         \* what each event says, fixed by the sale
  active,        \* products with active = true
  webhookEvent,  \* per event: no row, the no-product marker, or the row of a grant
  buyers,        \* users that exist
  pass,          \* User.iaUnlimitedUntil (0: null)
  access,        \* UserCategoryAccess.expiresAt; 0: no row, Null: lifetime
  subscription,  \* the user's subscription row, or Null
  hook,          \* per worker: how far its delivery has got
  acked,         \* events the gateway has had a 2xx for
  now,           \* the clock, in days
  failures       \* requests that died so far

tables == <<webhookEvent, buyers, pass, access, subscription>>
world == <<order, active, acked, now, failures>>
billingVars == <<ledgerVars, tables, world, hook>>

ASSUME BillingAssumption ==
  /\ Events \subseteq Refs
  /\ Orders \subseteq [Events -> [buyer : Users, product : DOMAIN Product]]
  /\ Toggleable \subseteq DOMAIN Product
  /\ \A p \in DOMAIN Product :
       /\ Product[p].grantType = "credits" => Product[p].grantCredits \in Amounts
       /\ Product[p].grantPeriodDays \in Nat \cup {Null}
  /\ \A key \in DOMAIN MonthlyCredits :
       MonthlyCredits[key] > 0 => MonthlyCredits[key] \in Amounts
  /\ MaxTime \in Nat /\ MaxFailures \in Nat

\* NULL is none of the values it stands in the place of.
Expiry == Nat \cup {Null}
Subscription == [planKey : DOMAIN MonthlyCredits, currentPeriodEnd : Expiry]
ASSUME NullAssumption == Null \notin Nat \cup Subscription

------------------------------------------------------------------------------
Grant(w) == Product[order[hook[w].event].product]
Buyer(w) == order[hook[w].event].buyer

\* The steps between the insert of the WebhookEvent row and the commit.
InMoneyTx(w) == hook[w].pc \in {"grant", "ledger", "commit"}

\* A unique key somebody else has inserted and not committed makes the insert wait.
Blocked(w) == \E v \in Txs \ {w} : InMoneyTx(v) /\ hook[v].event = hook[w].event

Recorded(w) == webhookEvent[hook[w].event] # "absent"

At(w, pc) == hook[w].pc = pc
Goto(w, pc) == hook' = [hook EXCEPT ![w].pc = pc]
GotoUntil(w, pc, until) ==
  hook' = [hook EXCEPT ![w] = [pc |-> pc, event |-> hook[w].event, until |-> until]]

Later(a, b) == IF a > b THEN a ELSE b

------------------------------------------------------------------------------
BillingInit ==
  /\ LedgerInit
  /\ order \in Orders
  /\ active \in {DOMAIN Product \ Toggleable, DOMAIN Product}
  /\ webhookEvent = [e \in Events |-> "absent"]
  /\ buyers = {}
  /\ pass = [u \in Users |-> 0]
  /\ access = [u \in Users |-> [c \in Categories |-> 0]]
  /\ subscription = [u \in Users |-> Null]
  /\ hook = [w \in Txs |-> Idle]
  /\ acked = {}
  /\ now = 1
  /\ failures = 0

Deliver(w, e) ==
  /\ At(w, "idle")
  /\ hook' = [hook EXCEPT ![w] = [pc |-> "dedupe", event |-> e, until |-> Null]]
  /\ UNCHANGED <<ledgerVars, tables, world>>

FindWebhookEvent(w) ==
  /\ At(w, "dedupe")
  /\ Goto(w, IF Recorded(w) THEN "respond" ELSE "product")
  /\ UNCHANGED <<ledgerVars, tables, world>>

FindProduct(w) ==
  /\ At(w, "product")
  /\ Goto(w, IF order[hook[w].event].product \in active THEN "buyer" ELSE "marker")
  /\ UNCHANGED <<ledgerVars, tables, world>>

\* Mutant: the marker is upserted, over whatever row won the race.
CreateMarker_Upsert(w) ==
  /\ At(w, "marker")
  /\ ~Blocked(w)
  /\ webhookEvent' = [webhookEvent EXCEPT ![hook[w].event] = "marker"]
  /\ Goto(w, "respond")
  /\ UNCHANGED <<ledgerVars, buyers, pass, access, subscription, world>>

\* No product: a standalone dedupe row.  This create is outside the try, so losing
\* the race for the key is a 500 to the gateway.
CreateMarker(w) ==
  /\ At(w, "marker")
  /\ ~Blocked(w)
  /\ IF Recorded(w)
     THEN /\ hook' = [hook EXCEPT ![w] = Idle]
          /\ UNCHANGED webhookEvent
     ELSE /\ webhookEvent' = [webhookEvent EXCEPT ![hook[w].event] = "marker"]
          /\ Goto(w, "respond")
  /\ UNCHANGED <<ledgerVars, buyers, pass, access, subscription, world>>

\* Read-then-create; whoever loses the create reads the winner's row, so every
\* request goes on with the one user of that e-mail.
findOrCreateByEmail(w) ==
  /\ At(w, "buyer")
  /\ buyers' = buyers \cup {Buyer(w)}
  /\ Goto(w, "begin")
  /\ UNCHANGED <<ledgerVars, webhookEvent, pass, access, subscription, world>>

\* Mutant: the event is recorded before the money transaction, not in it.
CreateWebhookEvent_OutsideTx(w) ==
  /\ At(w, "begin")
  /\ ~Blocked(w)
  /\ webhookEvent' = [webhookEvent EXCEPT ![hook[w].event] = "granted"]
  /\ Goto(w, IF Recorded(w) THEN "respond" ELSE "grant")
  /\ UNCHANGED <<ledgerVars, buyers, pass, access, subscription, world>>

\* The money transaction opens with the insert of the event; P2002 answers "duplicate".
CreateWebhookEvent(w) ==
  /\ At(w, "begin")
  /\ ~Blocked(w)
  /\ Goto(w, IF Recorded(w) THEN "respond" ELSE "grant")
  /\ UNCHANGED <<ledgerVars, tables, world>>

------------------------------------------------------------------------------
\* applyGrant, by grantType

Grantable(g) ==
  \/ g.grantType = "credits"
  \/ g.grantType = "plan" /\ g.grantPlanKey \in DOMAIN MonthlyCredits
  \/ g.grantType = "ia_unlimited" /\ g.grantPeriodDays # Null /\ g.grantPeriodDays > 0
  \/ g.grantType = "category_access" /\ g.grantCategory \in Categories

\* refId is the WebhookEvent row's id, which stands for the event itself (for a plan
\* it is the subscription's id; the model keeps the event that paid).
GrantCredits(w) ==
  /\ At(w, "grant") /\ Grant(w).grantType = "credits"
  /\ applyTransaction(w, Buyer(w), Grant(w).grantCredits, hook[w].event)
  /\ Goto(w, "ledger")
  /\ UNCHANGED <<tables, world>>

PeriodEnd(w) ==
  IF Grant(w).grantPeriodDays = Null THEN Null ELSE now + Grant(w).grantPeriodDays

\* The subscription row is overwritten at the commit (its row lock is held until then).
grantPlan(w) ==
  /\ At(w, "grant") /\ Grant(w).grantType = "plan" /\ Grantable(Grant(w))
  /\ LET monthly == MonthlyCredits[Grant(w).grantPlanKey] IN
       IF monthly > 0
       THEN /\ applyTransaction(w, Buyer(w), monthly, hook[w].event)
            /\ GotoUntil(w, "ledger", PeriodEnd(w))
       ELSE /\ GotoUntil(w, "commit", PeriodEnd(w))
            /\ UNCHANGED ledgerVars
  /\ UNCHANGED <<tables, world>>

\* Mutant: a pass without a period is a lifetime pass, as it is for plans.
grantIaUnlimited_Lifetime(w) ==
  /\ At(w, "grant") /\ Grant(w).grantType = "ia_unlimited"
  /\ GotoUntil(w, "commit", IF Grant(w).grantPeriodDays = Null THEN Null
                             ELSE Later(pass[Buyer(w)], now) + Grant(w).grantPeriodDays)
  /\ UNCHANGED <<ledgerVars, tables, world>>

\* Mutant: the pass is written through this.prisma, outside the transaction.
grantIaUnlimited_OutsideTx(w) ==
  /\ At(w, "grant") /\ Grant(w).grantType = "ia_unlimited" /\ Grantable(Grant(w))
  /\ LET until == Later(pass[Buyer(w)], now) + Grant(w).grantPeriodDays IN
       /\ GotoUntil(w, "commit", until)
       /\ pass' = [pass EXCEPT ![Buyer(w)] = until]
  /\ UNCHANGED <<ledgerVars, webhookEvent, buyers, access, subscription, world>>

\* Reads iaUnlimitedUntil; the UPDATE computed from it takes effect at the commit.
grantIaUnlimited(w) ==
  /\ At(w, "grant") /\ Grant(w).grantType = "ia_unlimited" /\ Grantable(Grant(w))
  /\ GotoUntil(w, "commit", Later(pass[Buyer(w)], now) + Grant(w).grantPeriodDays)
  /\ UNCHANGED <<ledgerVars, tables, world>>

\* Reads expiresAt (no row and NULL both count as 0); the upsert takes effect at the commit.
grantCategoryAccess(w) ==
  /\ At(w, "grant") /\ Grant(w).grantType = "category_access"
  /\ Grantable(Grant(w))
  /\ LET expires == access[Buyer(w)][Grant(w).grantCategory]
         from == IF expires = Null THEN 0 ELSE expires
     IN GotoUntil(w, "commit", IF Grant(w).grantPeriodDays = Null THEN Null
                               ELSE Later(from, now) + Grant(w).grantPeriodDays)
  /\ UNCHANGED <<ledgerVars, tables, world>>

LedgerStatement(w) ==
  /\ At(w, "ledger")
  /\ LedgerStep(w)
  /\ UNCHANGED <<tables, world, hook>>

------------------------------------------------------------------------------
\* The rollback of whatever the worker's transaction had done.
Drop(w) == IF Open(w) THEN RollbackTx(w) ELSE UNCHANGED ledgerVars

Commit(w) ==
  /\ \/ At(w, "commit") /\ UNCHANGED ledgerVars
     \/ At(w, "ledger") /\ CommitTx(w)
  /\ webhookEvent' = [webhookEvent EXCEPT ![hook[w].event] = "granted"]
  /\ pass' = IF Grant(w).grantType = "ia_unlimited"
             THEN [pass EXCEPT ![Buyer(w)] = hook[w].until] ELSE pass
  /\ access' = IF Grant(w).grantType = "category_access"
               THEN [access EXCEPT ![Buyer(w)][Grant(w).grantCategory] = hook[w].until]
               ELSE access
  /\ subscription' = IF Grant(w).grantType = "plan"
                     THEN [subscription EXCEPT ![Buyer(w)] =
                             [planKey |-> Grant(w).grantPlanKey,
                              currentPeriodEnd |-> hook[w].until]]
                     ELSE subscription
  /\ Goto(w, "respond")
  /\ UNCHANGED <<buyers, world>>

\* A product the grant cannot be made for: the error rolls back and is a 500.
Throw(w) ==
  /\ At(w, "grant") /\ ~Grantable(Grant(w))
  /\ hook' = [hook EXCEPT ![w] = Idle]
  /\ UNCHANGED <<ledgerVars, tables, world>>

Respond(w) ==
  /\ At(w, "respond")
  /\ acked' = acked \cup {hook[w].event}
  /\ hook' = [hook EXCEPT ![w] = Idle]
  /\ UNCHANGED <<ledgerVars, tables, order, active, now, failures>>

\* A crash, a database error or the transaction's timeout at any point; after the
\* commit it only loses the answer.
Fail(w) ==
  /\ ~At(w, "idle")
  /\ failures < MaxFailures
  /\ failures' = failures + 1
  /\ Drop(w)
  /\ hook' = [hook EXCEPT ![w] = Idle]
  /\ UNCHANGED <<tables, order, active, acked, now>>

ToggleProduct(p) ==
  /\ active' = IF p \in active THEN active \ {p} ELSE active \cup {p}
  /\ UNCHANGED <<ledgerVars, tables, hook, order, acked, now, failures>>

Tick ==
  /\ now < MaxTime
  /\ now' = now + 1
  /\ UNCHANGED <<ledgerVars, tables, hook, order, active, acked, failures>>

------------------------------------------------------------------------------
applyGrant(w) ==
  GrantCredits(w) \/ grantPlan(w) \/ grantIaUnlimited(w) \/ grantCategoryAccess(w) \/ Throw(w)

processWebhook(w) ==
  \/ FindWebhookEvent(w) \/ FindProduct(w) \/ CreateMarker(w)
  \/ findOrCreateByEmail(w) \/ CreateWebhookEvent(w)
  \/ applyGrant(w) \/ LedgerStatement(w) \/ Commit(w) \/ Respond(w)

BillingNext ==
  \/ \E w \in Txs : (\E e \in Events : Deliver(w, e)) \/ processWebhook(w) \/ Fail(w)
  \/ \E p \in Toggleable : ToggleProduct(p)
  \/ Tick

BillingSpec == BillingInit /\ [][BillingNext]_billingVars

\* The database serves blocked statements in queue order; the gateway does not give up
\* on an event it has no 2xx for.
BillingFairness ==
  /\ \A w \in Txs : SF_billingVars(processWebhook(w))
  /\ \A e \in Events : SF_billingVars(e \notin acked /\ \E w \in Txs : Deliver(w, e))

------------------------------------------------------------------------------
BillingTypeOK ==
  /\ TypeOK
  /\ active \subseteq DOMAIN Product
  /\ webhookEvent \in [Events -> {"absent", "marker", "granted"}]
  /\ buyers \subseteq Users
  /\ pass \in [Users -> Nat]
  /\ access \in [Users -> [Categories -> Expiry]]
  /\ subscription \in [Users -> Subscription \cup {Null}]
  /\ acked \subseteq Events

(* One sale moves credits exactly once: an event has its one ledger row from *)
(* the moment its WebhookEvent row says so and never otherwise, however      *)
(* deliveries, crashes and the no-product marker interleave ("no lost grant, *)
(* and no dedupe marker left without its credits", billing.service.ts:92).   *)
MovesCredits(e) ==
  LET g == Product[order[e].product] IN
    \/ g.grantType = "credits"
    \/ /\ g.grantType = "plan" /\ g.grantPlanKey \in DOMAIN MonthlyCredits
       /\ MonthlyCredits[g.grantPlanKey] > 0
CreditsOf(e) ==
  LET g == Product[order[e].product] IN
    IF g.grantType = "credits" THEN g.grantCredits ELSE MonthlyCredits[g.grantPlanKey]
RowsOfEvent(e) == {r \in credits : r.ref = e}
GrantedExactlyOnce ==
  \A e \in Events :
    LET rows == RowsOfEvent(e) IN
      IF webhookEvent[e] = "granted" /\ MovesCredits(e)
      THEN \E r \in rows : /\ rows = {r}
                           /\ r.user = order[e].buyer /\ r.amount = CreditsOf(e)
      ELSE rows = {}

(* The other grants keep the same promise: a user has a pass, an access row  *)
(* or a subscription exactly when a recorded event of theirs granted one, so *)
(* no crash leaves a record without its grant or a grant without its record. *)
Granted(u, type) ==
  {e \in Events : /\ webhookEvent[e] = "granted" /\ order[e].buyer = u
                  /\ Product[order[e].product].grantType = type}
GrantsMatchRecords ==
  \A u \in Users :
    /\ pass[u] # 0 <=> Granted(u, "ia_unlimited") # {}
    /\ subscription[u] # Null <=> Granted(u, "plan") # {}
    /\ \A c \in Categories :
         access[u][c] # 0 <=> \E e \in Granted(u, "category_access") :
                                Product[order[e].product].grantCategory = c

(* A 2xx stops the gateway's retries, so it may only be sent for an event    *)
(* that is recorded, and no record is ever lost again or changed from one    *)
(* kind to the other.                                                        *)
AckedIsFinal ==
  [][ \A e \in Events :
        /\ e \in acked' => webhookEvent[e] # "absent"
        /\ webhookEvent[e] # "absent" => webhookEvent'[e] = webhookEvent[e] ]_billingVars

(* A sale of a product that can be granted and stays active is granted and   *)
(* acknowledged in the end, through any bounded number of crashes and lost   *)
(* answers ("so a retry can succeed", billing.service.ts:91).                *)
AlwaysGrantable(e) ==
  order[e].product \notin Toggleable /\ Grantable(Product[order[e].product])
SalesAreGranted ==
  \A e \in Events :
    AlwaysGrantable(e) => <>(webhookEvent[e] = "granted" /\ e \in acked)

(* "buying again while a pass is still active stacks onto the remaining time *)
(* instead of shrinking it" (billing.service.ts:168). No run checks it: two    *)
(* passes bought together are read and written without a lock.               *)
PassNeverShrinks == [][\A u \in Users : pass'[u] >= pass[u]]_billingVars

(* A purchase never takes category access away: "A null grantPeriodDays      *)
(* means lifetime access; buying a timed product while active extends from   *)
(* the current expiry" (billing.service.ts:197).                             *)
LifetimeAccessIsKept ==
  [][ \A u \in Users, c \in Categories :
        access[u][c] = Null => access'[u][c] = Null ]_billingVars
=============================================================================
