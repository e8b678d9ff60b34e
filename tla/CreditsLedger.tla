---------------------------- MODULE CreditsLedger ----------------------------
(***************************************************************************)
(* CreditsService: the table CreditTransaction and its only writer,        *)
(* applyTransaction, as the database transactions that concurrent requests *)
(* run.  Statements run at READ COMMITTED: a statement sees the committed  *)
(* rows at the moment it executes, and what a transaction has inserted     *)
(* stays private until it commits.                                         *)
(*                                                                         *)
(* A transaction belongs to a caller (tips unlock, tipster analysis,       *)
(* billing webhook) that may do more work before and after the ledger      *)
(* statements and that may fail or be cut off at any moment; Billing and   *)
(* Wallet extend this module with those callers.                           *)
(***************************************************************************)
EXTENDS Integers, FiniteSets

CONSTANTS
  Users,     \* the account holders
  Txs,       \* database transactions that can be open at the same time
  Amounts,   \* the signed amounts callers pass
  Refs,      \* refId: what a movement is for
  NoTx       \* no transaction

ASSUME LedgerAssumption ==
  /\ Amounts \subseteq Int
  /\ NoTx \notin Txs

VARIABLES
  credits,   \* committed rows of CreditTransaction
  nextSeq,   \* the next value of the serial column seq
  lock,      \* holder of each user's transaction-scoped advisory lock
  tx         \* per transaction: progress through applyTransaction

ledgerVars == <<credits, nextSeq, lock, tx>>

Row == [seq : Nat, user : Users, amount : Int, balanceAfter : Int, ref : Refs]

\* "called": waiting for the advisory lock; "created": row inserted, not committed
Holding == {"locked", "read", "created"}
TxState == [pc : {"called"} \cup Holding, user : Users, amount : Amounts,
            ref : Refs, current : Nat, seq : Nat]
Idle == [pc |-> "idle"]

------------------------------------------------------------------------------
RowsOf(u) == {r \in credits : r.user = u}

\* findFirst orderBy seq desc, balanceAfter ?? 0
LatestIn(rows) == CHOOSE r \in rows : \A q \in rows : q.seq <= r.seq
BalanceOf(rows) == IF rows = {} THEN 0 ELSE LatestIn(rows).balanceAfter
getBalance(u) == BalanceOf(RowsOf(u))

Open(t) == tx[t].pc # "idle"

Release(t) == [u \in Users |-> IF lock[u] = t THEN NoTx ELSE lock[u]]

------------------------------------------------------------------------------
LedgerInit ==
  /\ credits = {}
  /\ nextSeq = 1
  /\ lock = [u \in Users |-> NoTx]
  /\ tx = [t \in Txs |-> Idle]

\* A caller invokes applyTransaction(input, tx).
applyTransaction(t, u, amount, ref) ==
  /\ tx[t].pc = "idle"
  /\ tx' = [tx EXCEPT ![t] = [pc |-> "called", user |-> u, amount |-> amount,
                              ref |-> ref, current |-> 0, seq |-> 0]]
  /\ UNCHANGED <<credits, nextSeq, lock>>

\* Mutant: the advisory lock is not exclusive.
AcquireLock_Shared(t) ==
  /\ tx[t].pc = "called"
  /\ lock' = [lock EXCEPT ![tx[t].user] = t]
  /\ tx' = [tx EXCEPT ![t].pc = "locked"]
  /\ UNCHANGED <<credits, nextSeq>>

\* pg_advisory_xact_lock blocks while another transaction holds the user's lock.
AcquireLock(t) ==
  /\ tx[t].pc = "called"
  /\ lock[tx[t].user] = NoTx
  /\ lock' = [lock EXCEPT ![tx[t].user] = t]
  /\ tx' = [tx EXCEPT ![t].pc = "locked"]
  /\ UNCHANGED <<credits, nextSeq>>

ReadLatest(t) ==
  /\ tx[t].pc = "locked"
  /\ tx' = [tx EXCEPT ![t].pc = "read", ![t].current = getBalance(tx[t].user)]
  /\ UNCHANGED <<credits, nextSeq, lock>>

\* Mutant: no overdraft check.
Overdraws_Never(t) == FALSE
Overdraws(t) == tx[t].current + tx[t].amount < 0

\* Mutant: the lock is given back after the insert, not at the end of the transaction.
CreateRow_ReleasesLock(t) ==
  /\ tx[t].pc = "read"
  /\ ~Overdraws(t)
  /\ tx' = [tx EXCEPT ![t].pc = "created", ![t].seq = nextSeq]
  /\ nextSeq' = nextSeq + 1
  /\ lock' = Release(t)
  /\ UNCHANGED credits

\* create(): the serial value is drawn now and never given back.
CreateRow(t) ==
  /\ tx[t].pc = "read"
  /\ ~Overdraws(t)
  /\ tx' = [tx EXCEPT ![t].pc = "created", ![t].seq = nextSeq]
  /\ nextSeq' = nextSeq + 1
  /\ UNCHANGED <<credits, lock>>

NewRow(t) ==
  [seq |-> tx[t].seq, user |-> tx[t].user, amount |-> tx[t].amount,
   balanceAfter |-> tx[t].current + tx[t].amount, ref |-> tx[t].ref]

\* The caller's transaction commits: the row becomes visible, the lock is freed.
CommitTx(t) ==
  /\ tx[t].pc = "created"
  /\ credits' = credits \cup {NewRow(t)}
  /\ lock' = Release(t)
  /\ tx' = [tx EXCEPT ![t] = Idle]
  /\ UNCHANGED nextSeq

\* Mutant: a session-level lock, which a rollback does not free.
RollbackTx_KeepsLock(t) ==
  /\ Open(t)
  /\ tx' = [tx EXCEPT ![t] = Idle]
  /\ UNCHANGED <<credits, nextSeq, lock>>

\* InsufficientCreditsError, a later failure of the caller, a transaction
\* timeout or a crash of the process: nothing of the transaction remains.
RollbackTx(t) ==
  /\ Open(t)
  /\ lock' = Release(t)
  /\ tx' = [tx EXCEPT ![t] = Idle]
  /\ UNCHANGED <<credits, nextSeq>>

RejectOverdraft(t) == tx[t].pc = "read" /\ Overdraws(t) /\ RollbackTx(t)

\* One statement of applyTransaction for transaction t.
LedgerStep(t) == AcquireLock(t) \/ ReadLatest(t) \/ CreateRow(t)

------------------------------------------------------------------------------
Call(t) == \E u \in Users, a \in Amounts, ref \in Refs : applyTransaction(t, u, a, ref)

End(t) == CommitTx(t) \/ RejectOverdraft(t)

LedgerNext == \E t \in Txs : Call(t) \/ LedgerStep(t) \/ End(t) \/ RollbackTx(t)

LedgerSpec == LedgerInit /\ [][LedgerNext]_ledgerVars

\* Postgres grants advisory locks in queue order, so a waiting call is not
\* passed over for ever; the other statements are answered by the database.
LedgerFairness == \A t \in Txs : /\ SF_ledgerVars(AcquireLock(t))
                                 /\ WF_ledgerVars(ReadLatest(t) \/ CreateRow(t))
                                 /\ WF_ledgerVars(End(t))

------------------------------------------------------------------------------
TypeOK ==
  /\ credits \subseteq Row
  /\ nextSeq \in Nat
  /\ lock \in [Users -> Txs \cup {NoTx}]
  /\ tx \in [Txs -> TxState \cup {Idle}]

(* The ledger is a chain per user: every row's balanceAfter is the balance  *)
(* left by the user's previous row (by seq) plus its own amount, and none   *)
(* is negative.  This is what "concurrent writers cannot both read the same *)
(* latest row and double-spend" (credits.service.ts:28) comes to.           *)
Before(r) == {q \in RowsOf(r.user) : q.seq < r.seq}
Chained ==
  \A r \in credits : /\ r.balanceAfter = BalanceOf(Before(r)) + r.amount
                     /\ r.balanceAfter >= 0

(* The row with the greatest seq is the one committed last: a commit never   *)
(* slots a row in before one that a reader may already have taken as latest  *)
(* (credits.service.ts:59, "guarantees we read the truly-latest committed    *)
(* row"), and no committed row is ever changed or removed.                   *)
CommitsInSeqOrder ==
  [][ /\ credits \subseteq credits'
      /\ \A r \in credits' \ credits : \A q \in RowsOf(r.user) : q.seq < r.seq ]_ledgerVars

(* The table read through getBalance implements the abstract ledger.         *)
L == INSTANCE Ledger WITH balance <- [u \in Users |-> getBalance(u)]
ImplementsLedger == L!Spec

(* No call waits for ever: each one ends committed, refused or rolled back,  *)
(* whatever its competitors for the advisory lock do.                        *)
CallsEnd == \A t \in Txs : Open(t) ~> ~Open(t)
=============================================================================
