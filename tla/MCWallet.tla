------------------------------- MODULE MCWallet -------------------------------
(***************************************************************************)
(* A small shop: one or two entradas, purchases of 2 credits, everything   *)
(* else costs 1; bounds on the keys drawn and the free analyses.           *)
(***************************************************************************)
EXTENDS Wallet

CONSTANTS
  MaxSeq,     \* bound: no request arrives once this many keys have been drawn
  MaxFree     \* bound: the same for free analyses of one user

MCCost == [e \in Entradas |-> 1]
MCAmounts == {-1, 2}
MCTopUps == {2}

Within == nextSeq < MaxSeq /\ \A u \in Users : sessions[u].free < MaxFree

\* Past the bounds the model stops; the service just waits for requests.
Quiet == ~Within /\ (\A w \in Txs : AtRest(w)) /\ UNCHANGED walletVars

MCWalletNext ==
  \/ \E w \in Txs : (Within /\ Arrive(w)) \/ Serve(w) \/ Fail(w)
  \/ \E u \in Users : Within /\ PassChanges(u)
  \/ Quiet

MCWalletSpec == WalletInit /\ [][MCWalletNext]_walletVars /\ WalletFairness
===============================================================================
