-------------------------------- MODULE Wallet --------------------------------
(***************************************************************************)
(* The requests that spend credits, on top of CreditsLedger:               *)
(* TipsService.unlockEntrada and TipsterService.runAnalysis, with the      *)
(* purchases that put credits in.  A request runs its database transaction *)
(* as a member of Txs, so several requests of one user (two devices, a     *)
(* double tap, a purchase arriving meanwhile) interleave statement by      *)
(* statement.                                                              *)
(***************************************************************************)
EXTENDS CreditsLedger

CONSTANTS
  Entradas,       \* what can be unlocked
  Cost,           \* entrada -> costInCredits
  AnalysisCost,   \* what an analysis costs without a pass
  TopUps,         \* credit amounts of purchases
  analysis,       \* refs of the ledger rows that are not for an entrada
  purchase,
  MaxFailures     \* bound on requests that die half way

VARIABLES
  unlocked,       \* rows of EntradaUnlock: <<user, entrada>>
  passes,         \* users whose iaUnlimitedUntil lies in the future
  sessions,       \* per user: analyses persisted, paid for and free
  emitted,        \* per <<user, entrada>>: 'entrada.unlocked' events sent
  desk,           \* per worker: the request it is handling
  failures        \* requests that died so far

shop == <<unlocked, passes, sessions, emitted, failures>>
walletVars == <<ledgerVars, shop, desk>>

ASSUME WalletAssumption ==
  /\ Cost \in [Entradas -> Nat]
  /\ AnalysisCost \in Nat
  /\ TopUps \subseteq Nat
  /\ {-Cost[e] : e \in Entradas} \cup {-AnalysisCost} \cup TopUps \subseteq Amounts
  /\ Entradas \cup {analysis, purchase} \subseteq Refs
  /\ analysis \notin Entradas /\ purchase \notin Entradas /\ analysis # purchase

------------------------------------------------------------------------------
AtRest(w) == desk[w].pc \in {"idle", "refused"}
At(w, kind, pc) == desk[w].kind = kind /\ desk[w].pc = pc
Goto(w, pc) == desk' = [desk EXCEPT ![w].pc = pc]

Owner(w) == desk[w].user
Pair(w) == <<desk[w].user, desk[w].item>>

Request(w, kind, pc, u, item) ==
  /\ AtRest(w)
  /\ desk' = [desk EXCEPT ![w] = [kind |-> kind, pc |-> pc, user |-> u, item |-> item,
                                  unlimited |-> FALSE]]

WalletInit ==
  /\ LedgerInit
  /\ unlocked = {}
  /\ passes = {}
  /\ sessions = [u \in Users |-> [paid |-> 0, free |-> 0]]
  /\ emitted = [p \in Users \X Entradas |-> 0]
  /\ desk = [w \in Txs |-> [kind |-> "none", pc |-> "idle"]]
  /\ failures = 0

------------------------------------------------------------------------------
\* TipsService.unlockEntrada; the entrada exists, an unknown one is a 404.
unlockEntrada(w, u, e) ==
  Request(w, "unlock", "find", u, e) /\ UNCHANGED <<ledgerVars, shop>>

\* Mutant: the event is announced on every answer, not for a new unlock only.
FindUnlock_AlwaysEmits(w) ==
  /\ At(w, "unlock", "find")
  /\ IF Pair(w) \in unlocked
     THEN Goto(w, "emit") /\ UNCHANGED ledgerVars
     ELSE /\ applyTransaction(w, Owner(w), -Cost[desk[w].item], desk[w].item)
          /\ Goto(w, "ledger")
  /\ UNCHANGED shop

\* The lookup takes no lock: an unlock of the same entrada may be about to commit.
FindUnlock(w) ==
  /\ At(w, "unlock", "find")
  /\ IF Pair(w) \in unlocked
     THEN Goto(w, "idle") /\ UNCHANGED ledgerVars
     ELSE /\ applyTransaction(w, Owner(w), -Cost[desk[w].item], desk[w].item)
          /\ Goto(w, "ledger")
  /\ UNCHANGED shop

LedgerStatement(w) ==
  /\ desk[w].pc = "ledger"
  /\ LedgerStep(w)
  /\ UNCHANGED <<shop, desk>>

\* InsufficientCreditsError: the transaction rolls back, the answer is a 402.
PaymentRequired(w) ==
  /\ desk[w].pc = "ledger"
  /\ RejectOverdraft(w)
  /\ Goto(w, "refused")
  /\ UNCHANGED shop

\* Mutant: the row is upserted, so the unique key no longer refuses the second one.
CreateUnlock_Upsert(w) ==
  /\ At(w, "unlock", "ledger") /\ tx[w].pc = "created"
  /\ Goto(w, "commit")
  /\ UNCHANGED <<ledgerVars, shop>>

\* @@unique([userId, entradaId]): P2002 rolls the debit back and is a 500.  No other
\* open transaction can hold the key: it would hold the user's advisory lock too.
CreateUnlock(w) ==
  /\ At(w, "unlock", "ledger") /\ tx[w].pc = "created"
  /\ IF Pair(w) \in unlocked
     THEN RollbackTx(w) /\ Goto(w, "refused")
     ELSE Goto(w, "commit") /\ UNCHANGED ledgerVars
  /\ UNCHANGED shop

CommitUnlock(w) ==
  /\ At(w, "unlock", "commit")
  /\ CommitTx(w)
  /\ unlocked' = unlocked \cup {Pair(w)}
  /\ Goto(w, "emit")
  /\ UNCHANGED <<passes, sessions, emitted, failures>>

\* In memory and after the commit: a crash in between loses the event.
EmitUnlocked(w) ==
  /\ At(w, "unlock", "emit")
  /\ emitted' = [emitted EXCEPT ![Pair(w)] = @ + 1]
  /\ Goto(w, "idle")
  /\ UNCHANGED <<ledgerVars, unlocked, passes, sessions, failures>>

------------------------------------------------------------------------------
\* TipsterService.runAnalysis, with the candidates already built.
runAnalysis(w, u) ==
  Request(w, "analysis", "pass", u, analysis) /\ UNCHANGED <<ledgerVars, shop>>

ReadPass(w) ==
  /\ At(w, "analysis", "pass")
  /\ LET unlimited == Owner(w) \in passes IN
       desk' = [desk EXCEPT ![w].unlimited = unlimited,
                            ![w].pc = IF unlimited THEN "ai" ELSE "balance"]
  /\ UNCHANGED <<ledgerVars, shop>>

\* The affordability pre-check, outside any transaction.
PreCheck(w) ==
  /\ At(w, "analysis", "balance")
  /\ Goto(w, IF getBalance(Owner(w)) < AnalysisCost THEN "refused" ELSE "ai")
  /\ UNCHANGED <<ledgerVars, shop>>

Counted(w) == IF desk[w].unlimited THEN "free" ELSE "paid"
AddSession(w) == sessions' = [sessions EXCEPT ![Owner(w)][Counted(w)] = @ + 1]

\* Mutant: the chat is persisted with the model's answer, before the debit.
Answered_PersistsFirst(w) ==
  /\ At(w, "analysis", "ai")
  /\ IF desk[w].unlimited
     THEN Goto(w, "session") /\ UNCHANGED <<ledgerVars, sessions>>
     ELSE /\ applyTransaction(w, Owner(w), -AnalysisCost, analysis)
          /\ Goto(w, "ledger") /\ AddSession(w)
  /\ UNCHANGED <<unlocked, passes, emitted, failures>>

\* The model has answered, outside the transaction; what was read before the call
\* decides whether the transaction debits.
Answered(w) ==
  /\ At(w, "analysis", "ai")
  /\ IF desk[w].unlimited
     THEN Goto(w, "session") /\ UNCHANGED ledgerVars
     ELSE applyTransaction(w, Owner(w), -AnalysisCost, analysis) /\ Goto(w, "ledger")
  /\ UNCHANGED shop

CommitSession(w) ==
  /\ \/ At(w, "analysis", "session") /\ UNCHANGED ledgerVars
     \/ At(w, "analysis", "ledger") /\ CommitTx(w)
  /\ AddSession(w)
  /\ Goto(w, "idle")
  /\ UNCHANGED <<unlocked, passes, emitted, failures>>

------------------------------------------------------------------------------
\* A purchase handled by Billing: credits, or a pass that begins; passes also expire.
Purchase(w, u, amount) ==
  /\ Request(w, "purchase", "ledger", u, purchase)
  /\ applyTransaction(w, u, amount, purchase)
  /\ UNCHANGED shop

CommitPurchase(w) ==
  /\ At(w, "purchase", "ledger")
  /\ CommitTx(w)
  /\ Goto(w, "idle")
  /\ UNCHANGED shop

PassChanges(u) ==
  /\ passes' = IF u \in passes THEN passes \ {u} ELSE passes \cup {u}
  /\ UNCHANGED <<ledgerVars, unlocked, sessions, emitted, desk, failures>>

\* A crash, a database or model error, or a transaction's timeout.
Fail(w) ==
  /\ ~AtRest(w)
  /\ failures < MaxFailures
  /\ failures' = failures + 1
  /\ IF Open(w) THEN RollbackTx(w) ELSE UNCHANGED ledgerVars
  /\ Goto(w, "idle")
  /\ UNCHANGED <<unlocked, passes, sessions, emitted>>

------------------------------------------------------------------------------
Arrive(w) ==
  \E u \in Users :
    \/ \E e \in Entradas : unlockEntrada(w, u, e)
    \/ runAnalysis(w, u)
    \/ \E amount \in TopUps : Purchase(w, u, amount)

Serve(w) ==
  \/ FindUnlock(w) \/ CreateUnlock(w) \/ CommitUnlock(w) \/ EmitUnlocked(w)
  \/ ReadPass(w) \/ PreCheck(w) \/ Answered(w) \/ CommitSession(w)
  \/ CommitPurchase(w) \/ LedgerStatement(w) \/ PaymentRequired(w)

WalletNext ==
  \/ \E w \in Txs : Arrive(w) \/ Serve(w) \/ Fail(w)
  \/ \E u \in Users : PassChanges(u)

WalletSpec == WalletInit /\ [][WalletNext]_walletVars

\* The database grants the advisory lock in queue order; the model answers or times out.
WalletFairness == \A w \in Txs : SF_walletVars(Serve(w))

------------------------------------------------------------------------------
DeskPc == {"idle", "refused", "find", "ledger", "commit", "emit", "pass", "balance",
           "ai", "session"}
WalletTypeOK ==
  /\ TypeOK
  /\ unlocked \subseteq Users \X Entradas
  /\ passes \subseteq Users
  /\ sessions \in [Users -> [paid : Nat, free : Nat]]
  /\ emitted \in [Users \X Entradas -> Nat]
  /\ \A w \in Txs : desk[w].pc \in DeskPc

(* The money and the goods agree at every moment: a user has exactly one     *)
(* debit, of its price, for each entrada unlocked and none for any other,    *)
(* however a user's requests race, fail half way or are repeated             *)
(* (tips.service.ts:78, one transaction for lookup, debit and unlock).       *)
RowsFor(u, ref) == {r \in RowsOf(u) : r.ref = ref}
ChargedIffUnlocked ==
  \A u \in Users, e \in Entradas :
    LET rows == RowsFor(u, e) IN
      IF <<u, e>> \in unlocked
      THEN \E r \in rows : rows = {r} /\ r.amount = -Cost[e]
      ELSE rows = {}

(* Every analysis persisted without a pass was paid for, and every debit for *)
(* an analysis has its chat session ("atomic debit-or-skip + chat            *)
(* persistence", tipster.service.ts:229).                                    *)
ChargedIffDelivered ==
  \A u \in Users : Cardinality(RowsFor(u, analysis)) = sessions[u].paid

(* 'entrada.unlocked', which awards XP, is sent at most once for an unlock   *)
(* and never for one that was not committed ("for a NEW unlock only",        *)
(* tips.service.ts:93).                                                      *)
EmittedOnce ==
  \A p \in Users \X Entradas : emitted[p] <= (IF p \in unlocked THEN 1 ELSE 0)

(* Every request is answered.                                                *)
RequestsEnd == \A w \in Txs : ~AtRest(w) ~> AtRest(w)

(* To a user, buying is one step.                                            *)
S == INSTANCE Shop WITH
  balance  <- [u \in Users |-> getBalance(u)],
  owned    <- [u \in Users |-> {e \in Entradas : <<u, e>> \in unlocked}],
  analyses <- [u \in Users |-> sessions[u].paid + sessions[u].free]
ImplementsShop == S!Spec

(* "se ja destravou, retorna sem cobrar de novo"                             *)
(* (2026-06-30-app-core-design.md:101): a request for an entrada its user    *)
(* has already unlocked is not refused.  No run checks it: the second of two *)
(* presses finds the row too late, and is refused after all.                 *)
UnlockIsIdempotent ==
  [][ \A w \in Txs :
        desk[w].kind = "unlock" /\ desk[w].pc = "ledger" /\ desk'[w].pc = "refused"
          => Pair(w) \notin unlocked ]_walletVars
===============================================================================
