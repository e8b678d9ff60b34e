------------------------------ MODULE MCBilling ------------------------------
(***************************************************************************)
(* A catalogue with every kind of grant; each cfg says which orders its    *)
(* events may be.                                                          *)
(***************************************************************************)
EXTENDS Billing, TLC

CONSTANTS
  ana,                                            \* the buyer
  first, second,                                  \* events
  pack, emptied, premium, free, week, month,      \* products
  timedSingles, lifeSingles, brokenPass,
  singles                                         \* a bilhete category

Row0 == [grantType |-> "credits", grantCredits |-> 0, grantPlanKey |-> Null,
         grantCategory |-> Null, grantPeriodDays |-> Null]

MCProduct ==
  (pack         :> [Row0 EXCEPT !.grantCredits = 2]) @@
  (emptied      :> Row0) @@    \* edited to a null grantCredits
  (premium      :> [Row0 EXCEPT !.grantType = "plan", !.grantPlanKey = "premium",
                                !.grantPeriodDays = 2]) @@
  (free         :> [Row0 EXCEPT !.grantType = "plan", !.grantPlanKey = "free"]) @@
  (week         :> [Row0 EXCEPT !.grantType = "ia_unlimited", !.grantPeriodDays = 1]) @@
  (month        :> [Row0 EXCEPT !.grantType = "ia_unlimited", !.grantPeriodDays = 3]) @@
  (timedSingles :> [Row0 EXCEPT !.grantType = "category_access",
                                !.grantCategory = singles, !.grantPeriodDays = 1]) @@
  (lifeSingles  :> [Row0 EXCEPT !.grantType = "category_access",
                                !.grantCategory = singles]) @@
  (brokenPass   :> [Row0 EXCEPT !.grantType = "ia_unlimited"])

MCMonthlyCredits == [free |-> 0, premium |-> 1]
MCAmounts == {0, 1, 2}

Order(product) == [buyer |-> ana, product |-> product]
OneThen(p, q) == (first :> Order(p)) @@ (second :> Order(q))

\* The first event buys credits or a pass, the second anything.
MixedOrders == {OneThen(p, q) : p \in {pack, week}, q \in DOMAIN MCProduct}
TwoPasses == {OneThen(week, month)}
LifetimeThenTimed == {OneThen(lifeSingles, timedSingles)}

MCBillingSpec == BillingSpec /\ BillingFairness
=============================================================================
