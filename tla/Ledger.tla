------------------------------- MODULE Ledger -------------------------------
(***************************************************************************)
(* What the credit ledger promises, with nothing of how: every user has    *)
(* one balance, a credit movement is applied to it in one indivisible      *)
(* step, and a movement that would take it below zero is not applied at    *)
(* all.  CreditsLedger, which models the database transactions that        *)
(* CreditsService really runs, is shown to implement this module.          *)
(***************************************************************************)
EXTENDS Integers

CONSTANTS
  Users,      \* the account holders
  Amounts     \* the signed amounts a movement may carry

VARIABLE balance

Init == balance = [u \in Users |-> 0]

Apply(u, amount) ==
  /\ balance[u] + amount >= 0
  /\ balance' = [balance EXCEPT ![u] = @ + amount]

Next == \E u \in Users, amount \in Amounts : Apply(u, amount)

Spec == Init /\ [][Next]_balance

=============================================================================
