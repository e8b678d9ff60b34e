--------------------------- MODULE MCCreditsLedger ---------------------------
(***************************************************************************)
(* A small ledger: a few accounts, transactions that compete for them,     *)
(* credits of 2 and debits of 1, and a bound on the keys drawn.            *)
(***************************************************************************)
EXTENDS CreditsLedger

CONSTANT MaxSeq    \* bound: no call starts once this many keys have been drawn

MCAmounts == {-1, 2}

BoundedCall(t) == nextSeq < MaxSeq /\ Call(t)

\* With MaxSeq reached the model stops; the service just waits for requests.
Quiet ==
  /\ nextSeq >= MaxSeq
  /\ \A t \in Txs : ~Open(t)
  /\ UNCHANGED ledgerVars

MCNext ==
  \/ \E t \in Txs : BoundedCall(t) \/ LedgerStep(t) \/ End(t) \/ RollbackTx(t)
  \/ Quiet

MCSpec == LedgerInit /\ [][MCNext]_ledgerVars /\ LedgerFairness
=============================================================================
