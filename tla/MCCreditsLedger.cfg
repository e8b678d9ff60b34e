\* Two accounts and three competing transactions; at most MaxSeq + 1 rows drawn.
CONSTANTS
  Users = {u1, u2}
  Txs = {t1, t2, t3}
  Amounts <- MCAmounts
  Refs = {ref}
  NoTx = NoTx
  MaxSeq = 4
SPECIFICATION MCSpec
INVARIANTS
  TypeOK
  Chained
PROPERTIES
  CommitsInSeqOrder
  ImplementsLedger
  CallsEnd
