------------------------- MODULE CreditsLedgerProofs -------------------------
(***************************************************************************)
(* Proofs about CreditsLedger for any number of users and transactions and *)
(* any set of amounts.  The argument is the one the comments of            *)
(* CreditsService give: the advisory lock is held from before the read of  *)
(* the latest row until the commit, so what was read is still the balance  *)
(* when the row becomes visible, and the serial key drawn in between is    *)
(* above every key committed for that user.                                *)
(***************************************************************************)
EXTENDS CreditsLedger, TLAPS

\* A transaction between the lock and its end owns the user's lock.
LockInv ==
  \A t \in Txs : tx[t].pc \in Holding => lock[tx[t].user] = t

\* What a transaction read is still the user's balance.
ReadInv ==
  \A t \in Txs :
    tx[t].pc \in {"read", "created"} => tx[t].current = getBalance(tx[t].user)

\* A row not yet committed will be the user's latest, and it is not negative.
CreatedInv ==
  \A t \in Txs : tx[t].pc = "created" =>
    /\ tx[t].current + tx[t].amount >= 0
    /\ tx[t].seq < nextSeq
    /\ \A r \in RowsOf(tx[t].user) : r.seq < tx[t].seq

\* A row that is the last of a set of rows.
IsLatest(r, rows) == r \in rows /\ \A q \in rows : q.seq <= r.seq

\* Keys come from the serial column and are unique per user; a user who has rows
\* has a last one (which is what makes the CHOOSE of LatestIn meaningful).
SeqInv ==
  /\ \A r \in credits : r.seq < nextSeq
  /\ \A r, q \in credits : r.user = q.user /\ r.seq = q.seq => r = q
  /\ \A u \in Users : RowsOf(u) # {} => \E r \in RowsOf(u) : IsLatest(r, RowsOf(u))

IInv == TypeOK /\ LockInv /\ SeqInv /\ ReadInv /\ CreatedInv /\ Chained

------------------------------------------------------------------------------
\* Adding a row above all others makes it the one LatestIn chooses.
LEMMA LatestIsTheNewRow ==
  ASSUME NEW rows, NEW new, new \notin rows, new.seq \in Nat,
         \A q \in rows : q.seq \in Nat /\ q.seq < new.seq
  PROVE  BalanceOf(rows \cup {new}) = new.balanceAfter
<1> DEFINE all == rows \cup {new}
<1>1. IsLatest(new, all)
  BY DEF IsLatest
<1>2. \A r \in all : (\A q \in all : q.seq <= r.seq) => r = new
  OBVIOUS
<1>3. LatestIn(all) = new
  BY <1>1, <1>2 DEF LatestIn, IsLatest
<1> QED
  BY <1>3 DEF BalanceOf

\* The balance of an account with rows is that of one of them.
LEMMA BalanceIsNat ==
  ASSUME IInv, NEW u \in Users
  PROVE  getBalance(u) \in Nat
<1>1. CASE RowsOf(u) = {}
  BY <1>1 DEF getBalance, BalanceOf
<1>2. CASE RowsOf(u) # {}
  <2>1. \E r \in RowsOf(u) : \A q \in RowsOf(u) : q.seq <= r.seq
    BY <1>2 DEF IInv, SeqInv, IsLatest
  <2>2. LatestIn(RowsOf(u)) \in RowsOf(u)
    BY <2>1 DEF LatestIn
  <2>3. LatestIn(RowsOf(u)) \in credits
    BY <2>2 DEF RowsOf
  <2>4. LatestIn(RowsOf(u)).balanceAfter \in Int /\ LatestIn(RowsOf(u)).balanceAfter >= 0
    BY <2>3 DEF IInv, TypeOK, Row, Chained
  <2> QED
    BY <1>2, <2>4 DEF getBalance, BalanceOf
<1> QED
  BY <1>1, <1>2

\* The row a committing transaction adds, against the rows already there.
LEMMA CommittedRow ==
  ASSUME IInv, NEW t \in Txs, tx[t].pc = "created"
  PROVE  /\ NewRow(t) \in Row
         /\ NewRow(t) \notin credits
         /\ tx[t].user \in Users
         /\ NewRow(t).balanceAfter = getBalance(tx[t].user) + tx[t].amount
         /\ NewRow(t).balanceAfter >= 0
         /\ NewRow(t).seq \in Nat /\ NewRow(t).seq < nextSeq
         /\ \A q \in RowsOf(tx[t].user) : q.seq \in Nat /\ q.seq < NewRow(t).seq
<1>1. tx[t] \in TxState
  BY DEF IInv, TypeOK, Idle
<1>2. \A q \in RowsOf(tx[t].user) : q.seq \in Nat /\ q.seq < NewRow(t).seq
  BY DEF IInv, TypeOK, Row, RowsOf, CreatedInv, NewRow
<1>3. NewRow(t) \notin credits
  BY <1>2, <1>1 DEF RowsOf, NewRow, TxState
<1>4. /\ NewRow(t).balanceAfter = getBalance(tx[t].user) + tx[t].amount
      /\ NewRow(t).balanceAfter >= 0
      /\ NewRow(t).seq < nextSeq
  BY DEF IInv, ReadInv, CreatedInv, NewRow
<1>5. /\ tx[t].user \in Users /\ tx[t].ref \in Refs /\ tx[t].seq \in Nat
      /\ tx[t].amount \in Int /\ tx[t].current \in Nat
  BY <1>1, LedgerAssumption DEF TxState
<1>6. NewRow(t) \in Row /\ NewRow(t).seq \in Nat
  BY <1>5 DEF NewRow, Row
<1> QED
  BY <1>2, <1>3, <1>4, <1>5, <1>6

------------------------------------------------------------------------------
LEMMA InitIInv == LedgerInit => IInv
<1> SUFFICES ASSUME LedgerInit PROVE IInv
  OBVIOUS
<1>1. TypeOK
  BY DEF LedgerInit, TypeOK, Idle
<1>2. LockInv /\ SeqInv /\ ReadInv /\ CreatedInv /\ Chained
  BY DEF LedgerInit, LockInv, SeqInv, ReadInv, CreatedInv, Chained, Idle, Holding, RowsOf
<1> QED
  BY <1>1, <1>2 DEF IInv

\* What depends on the committed rows alone does not change with them unchanged.
LEMMA SameRows ==
  ASSUME credits' = credits
  PROVE  /\ \A u : RowsOf(u)' = RowsOf(u) /\ getBalance(u)' = getBalance(u)
         /\ Chained => Chained'
<1>1. \A u : RowsOf(u)' = RowsOf(u)
  BY DEF RowsOf
<1>2. \A u : getBalance(u)' = getBalance(u)
  BY <1>1 DEF getBalance
<1>3. \A r : Before(r)' = Before(r)
  BY <1>1 DEF Before
<1>4. Chained => Chained'
  BY <1>3 DEF Chained
<1> QED
  BY <1>1, <1>2, <1>4

\* A step of a transaction that commits nothing and takes or keeps its lock.
LEMMA StatementIInv ==
  ASSUME IInv, NEW t \in Txs,
         \/ \E u \in Users, a \in Amounts, ref \in Refs : applyTransaction(t, u, a, ref)
         \/ LedgerStep(t)
  PROVE  IInv'
<1> USE DEF IInv
<1>0. credits' = credits
  BY DEF applyTransaction, LedgerStep, AcquireLock, ReadLatest, CreateRow
<1>s. /\ \A u : RowsOf(u)' = RowsOf(u) /\ getBalance(u)' = getBalance(u)
      /\ Chained'
  BY <1>0, SameRows
<1>1. ASSUME NEW u \in Users, NEW a \in Amounts, NEW ref \in Refs,
             applyTransaction(t, u, a, ref)
      PROVE  IInv'
  <2> USE <1>1 DEF applyTransaction
  <2>1. TypeOK'
    BY DEF TypeOK, TxState
  <2>2. LockInv'
    BY DEF TypeOK, LockInv, Holding
  <2>3. SeqInv'
    BY <1>s DEF SeqInv, IsLatest
  <2>4. ReadInv' /\ CreatedInv'
    BY <1>s DEF TypeOK, ReadInv, CreatedInv
  <2> QED
    BY <2>1, <2>2, <2>3, <2>4, <1>s
<1>2. CASE AcquireLock(t)
  <2> USE <1>2 DEF AcquireLock
  <2>0. tx[t] \in TxState
    BY DEF TypeOK, Idle
  <2>1. TypeOK'
    BY <2>0 DEF TypeOK, TxState, Holding
  <2>2. LockInv'
    BY <2>0, LedgerAssumption DEF TypeOK, LockInv, TxState, Holding
  <2>3. SeqInv'
    BY <1>s DEF SeqInv, IsLatest
  <2>4. ReadInv' /\ CreatedInv'
    BY <1>s DEF TypeOK, ReadInv, CreatedInv
  <2> QED
    BY <2>1, <2>2, <2>3, <2>4, <1>s
<1>3. CASE ReadLatest(t)
  <2> USE <1>3 DEF ReadLatest
  <2>0. tx[t] \in TxState
    BY DEF TypeOK, Idle
  <2>1. getBalance(tx[t].user) \in Nat
    BY <2>0, BalanceIsNat DEF TxState
  <2>2. TypeOK'
    BY <2>0, <2>1 DEF TypeOK, TxState, Holding
  <2>3. LockInv'
    BY <2>0 DEF TypeOK, LockInv, TxState, Holding
  <2>4. SeqInv'
    BY <1>s DEF SeqInv, IsLatest
  <2>5. ReadInv'
    BY <1>s, <2>0 DEF TypeOK, ReadInv, TxState
  <2>6. CreatedInv'
    BY <1>s, <2>0 DEF TypeOK, CreatedInv, TxState
  <2> QED
    BY <2>2, <2>3, <2>4, <2>5, <2>6, <1>s
<1>4. CASE CreateRow(t)
  <2> USE <1>4 DEF CreateRow
  <2>0. tx[t] \in TxState
    BY DEF TypeOK, Idle
  <2>1. TypeOK'
    <3>1. nextSeq \in Nat /\ nextSeq' \in Nat
      BY DEF TypeOK
    <3>2. [tx[t] EXCEPT !.pc = "created", !.seq = nextSeq] \in TxState
      BY <2>0, <3>1 DEF TxState, Holding
    <3> QED
      BY <3>1, <3>2 DEF TypeOK
  <2>2. LockInv'
    BY <2>0 DEF TypeOK, LockInv, TxState, Holding
  <2>3. SeqInv'
    BY <1>s DEF SeqInv, IsLatest, TypeOK, Row
  <2>4. ReadInv'
    BY <1>s, <2>0 DEF TypeOK, ReadInv, TxState
  <2>5. tx[t].current + tx[t].amount >= 0
    BY <2>0, LedgerAssumption DEF Overdraws, TxState
  <2>6. \A r \in RowsOf(tx[t].user) : r.seq < nextSeq
    BY DEF SeqInv, RowsOf
  <2>7. CreatedInv'
    <3>1. ASSUME NEW o \in Txs, o # t, tx[o].pc = "created"
          PROVE  tx[o].seq < nextSeq'
      BY <3>1 DEF TypeOK, TxState, Idle, CreatedInv
    <3>2. tx'[t].current = tx[t].current /\ tx'[t].seq = nextSeq
      BY <2>0 DEF TypeOK, TxState
    <3> QED
      BY <1>s, <2>0, <2>5, <2>6, <3>1, <3>2 DEF TypeOK, CreatedInv, TxState
  <2> QED
    BY <2>1, <2>2, <2>3, <2>4, <2>7, <1>s
<1> QED
  BY <1>1, <1>2, <1>3, <1>4 DEF LedgerStep

\* A rollback leaves the table alone and frees only the transaction's own lock.
LEMMA RollbackIInv ==
  ASSUME IInv, NEW t \in Txs, RollbackTx(t)
  PROVE  IInv'
<1> USE DEF IInv, RollbackTx
<1>s. /\ \A u : RowsOf(u)' = RowsOf(u) /\ getBalance(u)' = getBalance(u)
      /\ Chained'
  BY SameRows
<1>1. TypeOK'
  BY DEF TypeOK, Release
<1>2. LockInv'
  BY DEF TypeOK, LockInv, Release, Idle, Holding, TxState
<1>3. SeqInv'
  BY <1>s DEF SeqInv, IsLatest
<1>4. ReadInv' /\ CreatedInv'
  BY <1>s DEF TypeOK, ReadInv, CreatedInv, Idle
<1> QED
  BY <1>1, <1>2, <1>3, <1>4, <1>s

\* A commit appends one row to one account and leaves every other account alone.
LEMMA CommitEffect ==
  ASSUME IInv, NEW t \in Txs, CommitTx(t),
         NEW u, u = tx[t].user, NEW new, new = NewRow(t)
  PROVE  /\ RowsOf(u)' = RowsOf(u) \cup {new}
         /\ getBalance(u)' = getBalance(u) + tx[t].amount
         /\ \A v : v # u => RowsOf(v)' = RowsOf(v) /\ getBalance(v)' = getBalance(v)
<1>0. credits' = credits \cup {new} /\ tx[t].pc = "created"
  BY DEF CommitTx
<1>1. new.user = u
  BY DEF NewRow
<1>2. RowsOf(u)' = RowsOf(u) \cup {new}
  BY <1>0, <1>1 DEF RowsOf
<1>3. \A v : v # u => RowsOf(v)' = RowsOf(v)
  BY <1>0, <1>1 DEF RowsOf
<1>4. \A v : v # u => getBalance(v)' = getBalance(v)
  BY <1>3 DEF getBalance
<1>5. new \notin RowsOf(u)
  BY <1>0, CommittedRow DEF RowsOf
<1>6. BalanceOf(RowsOf(u) \cup {new}) = new.balanceAfter
  <2>1. new.seq \in Nat /\ \A q \in RowsOf(u) : q.seq \in Nat /\ q.seq < new.seq
    BY <1>0, CommittedRow
  <2> QED
    BY <1>5, <2>1, LatestIsTheNewRow
<1>7. getBalance(u)' = getBalance(u) + tx[t].amount
  BY <1>0, <1>2, <1>6, CommittedRow DEF getBalance
<1> QED
  BY <1>2, <1>3, <1>4, <1>7

LEMMA CommitIInv ==
  ASSUME IInv, NEW t \in Txs, CommitTx(t)
  PROVE  IInv'
<1>u. PICK u, new : u = tx[t].user /\ new = NewRow(t)
  OBVIOUS
<1>0. /\ credits' = credits \cup {new}
      /\ nextSeq' = nextSeq
      /\ lock' = Release(t)
      /\ tx' = [tx EXCEPT ![t] = Idle]
      /\ tx[t].pc = "created"
  BY <1>u DEF CommitTx
<1>1. /\ new \in Row /\ new \notin credits /\ u \in Users /\ new.user = u
      /\ new.balanceAfter = getBalance(u) + tx[t].amount /\ new.balanceAfter >= 0
      /\ new.amount = tx[t].amount
      /\ new.seq \in Nat /\ new.seq < nextSeq
      /\ \A q \in RowsOf(u) : q.seq \in Nat /\ q.seq < new.seq
  BY <1>0, <1>u, CommittedRow DEF NewRow
<1>2. /\ RowsOf(u)' = RowsOf(u) \cup {new}
      /\ \A v : v # u => RowsOf(v)' = RowsOf(v) /\ getBalance(v)' = getBalance(v)
  BY <1>u, CommitEffect
\* the lock keeps every other transaction past its read off this account
<1>3. \A o \in Txs : tx'[o].pc \in Holding => o # t /\ tx'[o] = tx[o] /\ tx[o].user # u
  BY <1>0, <1>u DEF IInv, TypeOK, LockInv, Idle, Holding
<1>4. TypeOK'
  BY <1>0, <1>1 DEF IInv, TypeOK, Release
<1>5. LockInv'
  BY <1>0, <1>3 DEF IInv, TypeOK, LockInv, Release, Holding, TxState, Idle
<1>6. SeqInv'
  <2>1. \A r \in credits' : r.seq < nextSeq'
    BY <1>0, <1>1 DEF IInv, SeqInv
  <2>2. \A r, q \in credits' : r.user = q.user /\ r.seq = q.seq => r = q
    BY <1>0, <1>1 DEF IInv, SeqInv, RowsOf
  <2>3. IsLatest(new, RowsOf(u)')
    BY <1>1, <1>2 DEF IsLatest
  <2>4. ASSUME NEW v \in Users, RowsOf(v)' # {}
        PROVE  \E r \in RowsOf(v)' : IsLatest(r, RowsOf(v)')
    BY <2>3, <2>4, <1>2 DEF IInv, SeqInv, IsLatest
  <2> QED
    BY <2>1, <2>2, <2>4 DEF SeqInv, IsLatest
<1>7. ReadInv'
  BY <1>2, <1>3 DEF IInv, ReadInv, Holding
<1>8. CreatedInv'
  BY <1>0, <1>2, <1>3 DEF IInv, CreatedInv, Holding
<1>9. Chained'
  <2>1. Before(new)' = RowsOf(u)
    BY <1>1, <1>2 DEF Before
  <2>2. ASSUME NEW r \in credits
        PROVE  Before(r)' = Before(r)
    <3>1. CASE r.user = u
      <4>1. r \in RowsOf(u) /\ r.seq < new.seq
        BY <3>1, <1>1 DEF RowsOf
      <4>2. ~(new.seq < r.seq)
        BY <4>1, <1>1
      <4> QED
        BY <3>1, <4>2, <1>2 DEF Before
    <3>2. CASE r.user # u
      BY <3>2, <1>2 DEF Before
    <3> QED
      BY <3>1, <3>2
  <2>3. new.balanceAfter = BalanceOf(RowsOf(u)) + new.amount
    BY <1>1 DEF getBalance
  <2> QED
    BY <1>0, <1>1, <2>1, <2>2, <2>3 DEF IInv, Chained
<1> QED
  BY <1>4, <1>5, <1>6, <1>7, <1>8, <1>9 DEF IInv

------------------------------------------------------------------------------
LEMMA NextIInv == IInv /\ [LedgerNext]_ledgerVars => IInv'
<1> SUFFICES ASSUME IInv, [LedgerNext]_ledgerVars PROVE IInv'
  OBVIOUS
<1>1. ASSUME NEW t \in Txs, Call(t) PROVE IInv'
  BY <1>1, StatementIInv DEF Call
<1>2. ASSUME NEW t \in Txs, LedgerStep(t) PROVE IInv'
  BY <1>2, StatementIInv
<1>3. ASSUME NEW t \in Txs, CommitTx(t) PROVE IInv'
  BY <1>3, CommitIInv
<1>4. ASSUME NEW t \in Txs, RejectOverdraft(t) PROVE IInv'
  BY <1>4, RollbackIInv DEF RejectOverdraft
<1>5. ASSUME NEW t \in Txs, RollbackTx(t) PROVE IInv'
  BY <1>5, RollbackIInv
<1>6. CASE UNCHANGED ledgerVars
  <2>1. /\ \A u : RowsOf(u)' = RowsOf(u) /\ getBalance(u)' = getBalance(u)
        /\ Chained'
    BY <1>6, SameRows DEF ledgerVars, IInv
  <2>2. TypeOK' /\ LockInv'
    BY <1>6 DEF ledgerVars, IInv, TypeOK, LockInv
  <2>3. SeqInv' /\ ReadInv' /\ CreatedInv'
    BY <1>6, <2>1 DEF ledgerVars, IInv, SeqInv, ReadInv, CreatedInv, IsLatest
  <2> QED
    BY <2>1, <2>2, <2>3 DEF IInv
<1> QED
  BY <1>1, <1>2, <1>3, <1>4, <1>5, <1>6 DEF LedgerNext, End

------------------------------------------------------------------------------
\* What a caller of applyTransaction may rely on, statement by statement.

\* No transaction touches another one's.
LEMMA OthersTx ==
  ASSUME IInv, NEW t \in Txs, NEW o \in Txs, o # t,
         Call(t) \/ LedgerStep(t) \/ CommitTx(t) \/ RollbackTx(t)
  PROVE  tx'[o] = tx[o]
<1>1. tx \in [Txs -> TxState \cup {Idle}]
  BY DEF IInv, TypeOK
<1> QED
  BY <1>1 DEF Call, applyTransaction, LedgerStep, AcquireLock, ReadLatest, CreateRow,
              CommitTx, RollbackTx

LEMMA CallEffect ==
  ASSUME IInv, NEW t \in Txs, NEW u, NEW a, NEW ref, applyTransaction(t, u, a, ref)
  PROVE  /\ credits' = credits
         /\ tx'[t].pc = "called" /\ tx'[t].user = u /\ tx'[t].amount = a /\ tx'[t].ref = ref
  BY DEF IInv, TypeOK, applyTransaction

LEMMA StatementEffect ==
  ASSUME IInv, NEW t \in Txs, LedgerStep(t)
  PROVE  /\ credits' = credits
         /\ tx'[t].pc \in Holding /\ tx'[t].user = tx[t].user
         /\ tx'[t].amount = tx[t].amount /\ tx'[t].ref = tx[t].ref
<1>1. tx \in [Txs -> TxState \cup {Idle}] /\ tx[t] \in TxState
  BY DEF IInv, TypeOK, Idle, LedgerStep, AcquireLock, ReadLatest, CreateRow
<1>2. credits' = credits /\ tx'[t].pc \in Holding
  BY <1>1 DEF LedgerStep, AcquireLock, ReadLatest, CreateRow, TxState, Holding
<1>3. tx'[t].user = tx[t].user /\ tx'[t].amount = tx[t].amount /\ tx'[t].ref = tx[t].ref
  BY <1>1 DEF LedgerStep, AcquireLock, ReadLatest, CreateRow, TxState
<1> QED
  BY <1>2, <1>3

LEMMA EndEffect ==
  ASSUME IInv, NEW t \in Txs
  PROVE  /\ CommitTx(t) => /\ tx[t].pc = "created" /\ tx'[t].pc = "idle"
                           /\ credits' = credits \cup {NewRow(t)}
         /\ RollbackTx(t) => credits' = credits /\ tx'[t].pc = "idle"
  BY DEF IInv, TypeOK, CommitTx, RollbackTx, Idle

\* The inductive invariant holds in every reachable state.
THEOREM LedgerInvariant == LedgerSpec => []IInv
<1> QED
  BY InitIInv, NextIInv, PTL DEF LedgerSpec

(* Every variable of CreditsService's model keeps its type; in particular no *)
(* transaction ever reads a negative balance.                                *)
THEOREM LedgerTypeOK == LedgerSpec => []TypeOK
<1>1. IInv => TypeOK
  BY DEF IInv
<1> QED
  BY <1>1, LedgerInvariant, PTL

(* However many requests compete, the rows of CreditTransaction form an exact *)
(* running balance per user that never goes below zero: no double spend.      *)
THEOREM LedgerChained == LedgerSpec => []Chained
<1>1. IInv => Chained
  BY DEF IInv
<1> QED
  BY <1>1, LedgerInvariant, PTL

(* Ordering by seq is the commit order of each user's rows, and the table is  *)
(* append-only, so findFirst orderBy seq desc returns the truly latest row.   *)
THEOREM LedgerCommitsInSeqOrder == LedgerSpec => CommitsInSeqOrder
<1> DEFINE InOrder == \A r \in credits' \ credits : \A q \in RowsOf(r.user) : q.seq < r.seq
<1>1. IInv /\ [LedgerNext]_ledgerVars => [credits \subseteq credits' /\ InOrder]_ledgerVars
  <2> SUFFICES ASSUME IInv, LedgerNext PROVE credits \subseteq credits' /\ InOrder
    OBVIOUS
  <2>1. ASSUME NEW t \in Txs, CommitTx(t)
        PROVE  credits \subseteq credits' /\ InOrder
    BY <2>1, CommittedRow DEF CommitTx, NewRow
  <2>2. (~ \E t \in Txs : CommitTx(t)) => credits' = credits
    BY DEF LedgerNext, End, Call, applyTransaction, LedgerStep, AcquireLock, ReadLatest, CreateRow,
           RejectOverdraft, RollbackTx, ledgerVars
  <2> QED
    BY <2>1, <2>2
<1> QED
  BY <1>1, LedgerInvariant, PTL DEF LedgerSpec, CommitsInSeqOrder

(* The table and its transactions implement the abstract ledger: a commit is  *)
(* one indivisible movement on the user's balance, everything else is         *)
(* invisible.                                                                 *)
THEOREM LedgerRefinement == LedgerSpec => ImplementsLedger
<1> DEFINE bal == [u \in Users |-> getBalance(u)]
<1>1. LedgerInit => L!Init
  BY DEF LedgerInit, L!Init, getBalance, BalanceOf, RowsOf
<1>2. IInv /\ [LedgerNext]_ledgerVars => [L!Next]_bal
  <2> SUFFICES ASSUME IInv, [LedgerNext]_ledgerVars PROVE L!Next \/ bal' = bal
    BY DEF L!Next
  <2>1. ASSUME NEW t \in Txs, CommitTx(t)
        PROVE  L!Next
    <3>u. PICK u, new : u = tx[t].user /\ new = NewRow(t)
      OBVIOUS
    <3>a. PICK a : a = tx[t].amount
      OBVIOUS
    <3>1. tx[t] \in TxState /\ tx[t].pc = "created"
      BY <2>1 DEF CommitTx, IInv, TypeOK, Idle
    <3>2. u \in Users /\ a \in Amounts /\ getBalance(u) + a >= 0
      BY <3>u, <3>a, <3>1, CommittedRow DEF TxState
    <3>3. /\ getBalance(u)' = getBalance(u) + a
          /\ \A v : v # u => getBalance(v)' = getBalance(v)
      BY <2>1, <3>u, <3>a, CommitEffect
    <3>4. bal' = [bal EXCEPT ![u] = @ + a]
      BY <3>2, <3>3
    <3>5. L!Apply(u, a)
      BY <3>2, <3>4 DEF L!Apply
    <3> QED
      BY <3>2, <3>5 DEF L!Next
  <2>2. (~ \E t \in Txs : CommitTx(t)) => credits' = credits
    BY DEF LedgerNext, End, Call, applyTransaction, LedgerStep, AcquireLock, ReadLatest, CreateRow,
           RejectOverdraft, RollbackTx, ledgerVars
  <2>3. credits' = credits => bal' = bal
    BY SameRows
  <2> QED
    BY <2>1, <2>2, <2>3
<1> QED
  BY <1>1, <1>2, LedgerInvariant, PTL DEF LedgerSpec, ImplementsLedger, L!Spec
=============================================================================
