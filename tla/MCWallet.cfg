\* One user on two devices: two entradas, analyses, purchases, a pass that comes
\* and goes, and one request that dies.
CONSTANTS
  Users = {ana}
  Txs = {w1, w2}
  Entradas = {e1, e2}
  Refs = {e1, e2, analysis, purchase}
  analysis = analysis
  purchase = purchase
  Cost <- MCCost
  AnalysisCost = 1
  TopUps <- MCTopUps
  Amounts <- MCAmounts
  NoTx = NoTx
  MaxSeq = 5
  MaxFree = 2
  MaxFailures = 1
SPECIFICATION MCWalletSpec
INVARIANTS
  WalletTypeOK
  ChargedIffUnlocked
  ChargedIffDelivered
  EmittedOnce
PROPERTIES
  ImplementsShop
  RequestsEnd
