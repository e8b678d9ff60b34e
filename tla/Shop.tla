--------------------------------- MODULE Shop ---------------------------------
(***************************************************************************)
(* What a user may rely on when spending credits: unlocking an entrada or  *)
(* having an analysis made and paying for it are one indivisible step, an  *)
(* entrada is paid for at most once and stays open, nobody pays more than  *)
(* they have.  Wallet, the concurrent requests of the API over the credit  *)
(* ledger, is shown to implement this module.                              *)
(***************************************************************************)
EXTENDS Integers

CONSTANTS Users, Entradas, Cost, AnalysisCost, TopUps

VARIABLES
  balance,    \* credits of each user
  owned,      \* entradas each user has unlocked
  analyses    \* analyses delivered to each user

shopVars == <<balance, owned, analyses>>

Init ==
  /\ balance = [u \in Users |-> 0]
  /\ owned = [u \in Users |-> {}]
  /\ analyses = [u \in Users |-> 0]

Pay(u, cost) ==
  /\ balance[u] >= cost
  /\ balance' = [balance EXCEPT ![u] = @ - cost]

Unlock(u, e) ==
  /\ e \notin owned[u]
  /\ Pay(u, Cost[e])
  /\ owned' = [owned EXCEPT ![u] = @ \cup {e}]
  /\ UNCHANGED analyses

\* With an active pass an analysis is free.
Analyse(u) ==
  /\ Pay(u, AnalysisCost) \/ UNCHANGED balance
  /\ analyses' = [analyses EXCEPT ![u] = @ + 1]
  /\ UNCHANGED owned

TopUp(u, amount) ==
  /\ balance' = [balance EXCEPT ![u] = @ + amount]
  /\ UNCHANGED <<owned, analyses>>

Next ==
  \E u \in Users :
    \/ \E e \in Entradas : Unlock(u, e)
    \/ Analyse(u)
    \/ \E amount \in TopUps : TopUp(u, amount)

Spec == Init /\ [][Next]_shopVars
===============================================================================
