----------------------------- MODULE WalletProofs -----------------------------
(***************************************************************************)
(* Proofs about Wallet for any prices, users and number of requests.       *)
(*                                                                         *)
(* A request's debit and the row it pays for become visible together, so   *)
(* all that has to be shown is that no other request slips in between.     *)
(* Two unlocks of one entrada are kept apart by the user's advisory lock:  *)
(* a request that found the key free still holds it (DeskInv, with the     *)
(* LockInv of CreditsLedgerProofs), so the key is still free when it       *)
(* commits; the event is sent by that request alone.                       *)
(***************************************************************************)
EXTENDS Wallet, CreditsLedgerProofs, FiniteSetTheorems

\* A request under way: whose it is and what it is for.
Pcs(kind) ==
  CASE kind = "unlock"   -> {"find", "ledger", "commit", "emit", "idle", "refused"}
    [] kind = "analysis" -> {"pass", "balance", "ai", "session", "ledger", "idle", "refused"}
    [] kind = "purchase" -> {"ledger", "idle", "refused"}
UnderWay(d) ==
  /\ d = [kind |-> d.kind, pc |-> d.pc, user |-> d.user, item |-> d.item,
          unlimited |-> d.unlimited]
  /\ d.kind \in {"unlock", "analysis", "purchase"} /\ d.pc \in Pcs(d.kind)
  /\ d.user \in Users
  /\ d.kind = "unlock" => d.item \in Entradas
NoRequest == [kind |-> "none", pc |-> "idle"]
DeskTypes ==
  /\ desk = [w \in Txs |-> desk[w]]
  /\ \A w \in Txs : desk[w] = NoRequest \/ UnderWay(desk[w])

\* The ledger transaction a request has open is for what it was asked.
Charging(w) ==
  /\ tx[w].user = Owner(w)
  /\ desk[w].kind = "unlock" =>
       tx[w].ref = desk[w].item /\ tx[w].amount = -Cost[desk[w].item]
  /\ desk[w].kind = "analysis" =>
       tx[w].ref = analysis /\ tx[w].amount = -AnalysisCost /\ ~desk[w].unlimited
  /\ desk[w].kind = "purchase" => tx[w].ref = purchase /\ tx[w].amount \in TopUps

Work(w) ==
  /\ Open(w) <=> desk[w].pc \in {"ledger", "commit"}
  /\ Open(w) => Charging(w)
  /\ desk[w].pc = "commit" => tx[w].pc = "created" /\ Pair(w) \notin unlocked
  /\ desk[w].pc = "session" => desk[w].unlimited
  /\ desk[w].pc = "emit" => Pair(w) \in unlocked /\ emitted[Pair(w)] = 0

WorkInv == \A w \in Txs : Work(w)

\* One request announces an unlock: the one that committed it.
EmitsAlone ==
  \A v, w \in Txs :
    v # w /\ desk[v].pc = "emit" /\ desk[w].pc = "emit" => Pair(v) # Pair(w)

GoodsTypes ==
  /\ unlocked \subseteq Users \X Entradas
  /\ passes \subseteq Users
  /\ sessions \in [Users -> [paid : Nat, free : Nat]]
  /\ emitted \in [Users \X Entradas -> Nat]
  /\ IsFiniteSet(credits)

WalletInv ==
  /\ IInv /\ DeskTypes /\ GoodsTypes /\ WorkInv /\ EmitsAlone
  /\ ChargedIffUnlocked /\ ChargedIffDelivered /\ EmittedOnce

StepBy(w) == Arrive(w) \/ Serve(w) \/ Fail(w)

LEMMA StepCases ==
  ASSUME [WalletNext]_walletVars
  PROVE  \/ \E w \in Txs : StepBy(w)
         \/ /\ UNCHANGED <<ledgerVars, desk, unlocked, sessions, emitted>>
            /\ passes' = passes \/ \E u \in Users : PassChanges(u)
  BY DEF WalletNext, walletVars, shop, StepBy, PassChanges

------------------------------------------------------------------------------
\* What a step does to the desk.

LEMMA GotoEffect ==
  ASSUME DeskTypes, NEW w \in Txs, NEW pc, desk[w] # NoRequest, Goto(w, pc)
  PROVE  /\ desk'[w].pc = pc /\ desk'[w].kind = desk[w].kind
         /\ desk'[w].user = desk[w].user /\ desk'[w].item = desk[w].item
         /\ desk'[w].unlimited = desk[w].unlimited
         /\ \A v \in Txs \ {w} : desk'[v] = desk[v]
<1>1. UnderWay(desk[w])
  BY DEF DeskTypes
<1>2. desk' = [desk EXCEPT ![w] = [desk[w] EXCEPT !.pc = pc]]
  BY DEF Goto
<1> DEFINE d == desk[w]  q == [d EXCEPT !.pc = pc]
<1>3. q = [kind |-> d.kind, pc |-> pc, user |-> d.user, item |-> d.item,
           unlimited |-> d.unlimited]
  BY <1>1 DEF UnderWay
<1>4. desk'[w] = q /\ \A v \in Txs \ {w} : desk'[v] = desk[v]
  BY <1>2 DEF DeskTypes
<1> QED
  BY <1>3, <1>4

LEMMA GotoTypes ==
  ASSUME DeskTypes, NEW w \in Txs, NEW pc, desk[w] # NoRequest, Goto(w, pc),
         pc \in Pcs(desk[w].kind)
  PROVE  DeskTypes'
<1> DEFINE d == desk[w]  q == [d EXCEPT !.pc = pc]
<1>1. UnderWay(d)
  BY DEF DeskTypes
<1>2. q = [kind |-> d.kind, pc |-> pc, user |-> d.user, item |-> d.item,
           unlimited |-> d.unlimited]
  BY <1>1 DEF UnderWay
<1>3. UnderWay(q)
  BY <1>1, <1>2 DEF UnderWay
<1>4. desk' = [desk EXCEPT ![w] = q]
  BY DEF Goto
<1> HIDE DEF q
<1> QED
  BY <1>3, <1>4 DEF DeskTypes

LEMMA RequestEffect ==
  ASSUME DeskTypes, NEW w \in Txs, NEW kind, NEW pc, NEW u, NEW item,
         Request(w, kind, pc, u, item)
  PROVE  /\ desk'[w].pc = pc /\ desk'[w].kind = kind
         /\ desk'[w].user = u /\ desk'[w].item = item
         /\ \A v \in Txs \ {w} : desk'[v] = desk[v]
  BY DEF DeskTypes, Request

LEMMA RequestTypes ==
  ASSUME DeskTypes, NEW w \in Txs, NEW u \in Users, NEW item, NEW pc,
         NEW kind \in {"unlock", "analysis", "purchase"},
         Request(w, kind, pc, u, item), pc \in Pcs(kind),
         kind = "unlock" => item \in Entradas
  PROVE  DeskTypes'
<1> DEFINE q == [kind |-> kind, pc |-> pc, user |-> u, item |-> item, unlimited |-> FALSE]
<1>1. UnderWay(q)
  BY DEF UnderWay
<1>2. desk' = [desk EXCEPT ![w] = q]
  BY DEF Request
<1> HIDE DEF q
<1> QED
  BY <1>1, <1>2 DEF DeskTypes

\* The pass read goes with the request to its end.
LEMMA PassEffect ==
  ASSUME DeskTypes, NEW w \in Txs, ReadPass(w)
  PROVE  /\ desk'[w].pc \in {"ai", "balance"} /\ desk'[w].kind = "analysis"
         /\ \A v \in Txs \ {w} : desk'[v] = desk[v]
         /\ DeskTypes'
<1> DEFINE d == desk[w]
<1> PICK b, pc : b = (Owner(w) \in passes) /\ pc = IF b THEN "ai" ELSE "balance"
  OBVIOUS
<1> DEFINE r == [d EXCEPT !.unlimited = b]  q == [r EXCEPT !.pc = pc]
<1>1. UnderWay(d) /\ d.kind = "analysis"
  BY DEF DeskTypes, NoRequest, ReadPass, At
<1>2. desk' = [desk EXCEPT ![w] = q]
  <2>1. desk' = [desk EXCEPT ![w] = [d EXCEPT !.unlimited = b, !.pc = pc]]
    BY Zenon DEF ReadPass
  <2>2. [d EXCEPT !.unlimited = b, !.pc = pc] = q
    OBVIOUS
  <2> HIDE DEF q
  <2> QED
    BY <2>1, <2>2, Zenon
<1>3. pc \in {"ai", "balance"}
  OBVIOUS
<1>4. q = [kind |-> d.kind, pc |-> pc, user |-> d.user, item |-> d.item, unlimited |-> b]
  <2>1. r = [kind |-> d.kind, pc |-> d.pc, user |-> d.user, item |-> d.item, unlimited |-> b]
    BY <1>1 DEF UnderWay
  <2> HIDE DEF r
  <2> QED
    BY <2>1
<1>5. UnderWay(q) /\ q.pc = pc /\ q.kind = "analysis"
  BY <1>1, <1>3, <1>4 DEF UnderWay, Pcs
<1> HIDE DEF q
<1>6. desk'[w] = q /\ (\A v \in Txs \ {w} : desk'[v] = desk[v]) /\ DeskTypes'
  BY <1>2, <1>5 DEF DeskTypes
<1> QED
  BY <1>3, <1>5, <1>6

\* The requests under way are of a kind, and somebody's.
LEMMA AtWork ==
  ASSUME DeskTypes, NEW w \in Txs, desk[w].pc # "idle"
  PROVE  /\ desk[w] # NoRequest /\ UnderWay(desk[w])
         /\ Owner(w) \in Users
         /\ desk[w].kind = "unlock" => Pair(w) \in Users \X Entradas
  BY DEF DeskTypes, NoRequest, UnderWay, Owner, Pair

------------------------------------------------------------------------------
\* Every request charges what CreditsLedger lets a caller charge.
LEMMA StepIsLedgerStep ==
  ASSUME DeskTypes, [WalletNext]_walletVars
  PROVE  [LedgerNext]_ledgerVars
<1>1. ASSUME NEW w \in Txs, At(w, "unlock", "find"),
             applyTransaction(w, Owner(w), -Cost[desk[w].item], desk[w].item)
      PROVE  Call(w)
  <2>1. Owner(w) \in Users /\ desk[w].item \in Entradas
    BY <1>1, AtWork DEF At, UnderWay
  <2> QED
    BY <1>1, <2>1, WalletAssumption DEF Call
<1>2. ASSUME NEW w \in Txs, At(w, "analysis", "ai"),
             applyTransaction(w, Owner(w), -AnalysisCost, analysis)
      PROVE  Call(w)
  <2>1. Owner(w) \in Users
    BY <1>2, AtWork DEF At
  <2> QED
    BY <1>2, <2>1, WalletAssumption DEF Call
<1>3. ASSUME NEW w \in Txs, Arrive(w) PROVE Call(w) \/ UNCHANGED ledgerVars
  BY <1>3, WalletAssumption DEF Arrive, unlockEntrada, runAnalysis, Purchase, Call
<1>4. ASSUME NEW w \in Txs, Serve(w)
      PROVE  \/ Call(w) \/ LedgerStep(w) \/ End(w) \/ RollbackTx(w)
             \/ UNCHANGED ledgerVars
  BY <1>1, <1>2, <1>4 DEF Serve, FindUnlock, CreateUnlock, CommitUnlock, EmitUnlocked,
    ReadPass, PreCheck, Answered, CommitSession, CommitPurchase, LedgerStatement,
    PaymentRequired, End
<1>5. ASSUME NEW w \in Txs, Fail(w) PROVE RollbackTx(w) \/ UNCHANGED ledgerVars
  BY <1>5 DEF Fail
<1> QED
  BY <1>3, <1>4, <1>5 DEF WalletNext, walletVars, PassChanges, LedgerNext

\* A worker's step leaves the other workers and their transactions where they are.
LEMMA OthersStay ==
  ASSUME IInv, DeskTypes, NEW w \in Txs, StepBy(w), NEW v \in Txs \ {w}
  PROVE  desk'[v] = desk[v] /\ tx'[v] = tx[v]
<1>1. desk'[v] = desk[v]
  <2>1. \E d : desk' = [desk EXCEPT ![w] = d] \/ desk' = desk
    BY DEF StepBy, Arrive, unlockEntrada, runAnalysis, Purchase, Request, Serve, FindUnlock,
      CreateUnlock, CommitUnlock, EmitUnlocked, ReadPass, PreCheck, Answered, CommitSession,
      CommitPurchase, LedgerStatement, PaymentRequired, Fail, Goto
  <2> QED
    BY <2>1 DEF DeskTypes
<1>2. tx'[v] = tx[v]
  <2>1. tx' = tx \/ \E t : tx' = [tx EXCEPT ![w] = t]
    BY DEF StepBy, Arrive, unlockEntrada, runAnalysis, Purchase, Serve, FindUnlock,
      CreateUnlock, CommitUnlock, EmitUnlocked, ReadPass, PreCheck, Answered, CommitSession,
      CommitPurchase, LedgerStatement, PaymentRequired, Fail, ledgerVars, RejectOverdraft,
      applyTransaction, LedgerStep, AcquireLock, ReadLatest, CreateRow, CommitTx, RollbackTx
  <2> QED
    BY <2>1 DEF IInv, TypeOK
<1> QED
  BY <1>1, <1>2

LEMMA DeskKept ==
  ASSUME DeskTypes, [WalletNext]_walletVars
  PROVE  DeskTypes'
<1>1. ASSUME NEW w \in Txs, Arrive(w) PROVE DeskTypes'
  <2> PICK u \in Users : \/ \E e \in Entradas : unlockEntrada(w, u, e)
                         \/ runAnalysis(w, u)
                         \/ \E amount \in TopUps : Purchase(w, u, amount)
    BY <1>1 DEF Arrive
  <2>1. ASSUME NEW e \in Entradas, unlockEntrada(w, u, e) PROVE DeskTypes'
    BY <2>1, RequestTypes DEF unlockEntrada, Pcs
  <2>2. CASE runAnalysis(w, u)
    BY <2>2, RequestTypes DEF runAnalysis, Pcs
  <2>3. ASSUME NEW amount \in TopUps, Purchase(w, u, amount) PROVE DeskTypes'
    BY <2>3, RequestTypes DEF Purchase, Pcs
  <2> QED
    BY <2>1, <2>2, <2>3
<1>2. ASSUME NEW w \in Txs, FindUnlock(w) \/ CreateUnlock(w) \/ CommitUnlock(w)
                              \/ EmitUnlocked(w)
      PROVE  DeskTypes'
  <2>1. desk[w] # NoRequest /\ desk[w].kind = "unlock"
    BY <1>2, AtWork DEF At, FindUnlock, CreateUnlock, CommitUnlock, EmitUnlocked
  <2>2. \E pc \in {"idle", "ledger", "commit", "refused", "emit"} : Goto(w, pc)
    BY <1>2 DEF FindUnlock, CreateUnlock, CommitUnlock, EmitUnlocked
  <2> QED
    BY <2>1, <2>2, GotoTypes DEF Pcs
<1>3. ASSUME NEW w \in Txs, ReadPass(w) PROVE DeskTypes'
  BY <1>3, PassEffect
<1>4. ASSUME NEW w \in Txs, PreCheck(w) \/ Answered(w) \/ CommitSession(w)
      PROVE  DeskTypes'
  <2>1. desk[w] # NoRequest /\ desk[w].kind = "analysis"
    BY <1>4, AtWork DEF At, PreCheck, Answered, CommitSession
  <2>2. \E pc \in {"idle", "ledger", "ai", "refused", "session"} : Goto(w, pc)
    BY <1>4 DEF PreCheck, Answered, CommitSession
  <2> QED
    BY <2>1, <2>2, GotoTypes DEF Pcs
<1>5. ASSUME NEW w \in Txs, CommitPurchase(w) \/ PaymentRequired(w) \/ Fail(w)
      PROVE  DeskTypes'
  <2>1. desk[w] # NoRequest /\ UnderWay(desk[w])
    BY <1>5, AtWork DEF At, CommitPurchase, PaymentRequired, Fail, AtRest
  <2>2. \E pc \in {"idle", "refused"} : Goto(w, pc)
    BY <1>5 DEF CommitPurchase, PaymentRequired, Fail
  <2>3. {"idle", "refused"} \subseteq Pcs(desk[w].kind)
    BY <2>1 DEF UnderWay, Pcs
  <2> QED
    BY <2>1, <2>2, <2>3, GotoTypes
<1>6. CASE UNCHANGED desk
  BY <1>6 DEF DeskTypes
<1>7. ASSUME NEW w \in Txs, LedgerStatement(w) PROVE UNCHANGED desk
  BY <1>7 DEF LedgerStatement
<1> QED
  BY <1>1, <1>2, <1>3, <1>4, <1>5, <1>6, <1>7, StepCases DEF StepBy, Serve

------------------------------------------------------------------------------
\* The unlocks and what they are announced with.

LEMMA UnlocksStay ==
  ASSUME WalletInv, [WalletNext]_walletVars, NEW p \in Users \X Entradas
  PROVE  /\ p \in unlocked => p \in unlocked'
         /\ p \in unlocked' /\ p \notin unlocked =>
              \E w \in Txs : CommitUnlock(w) /\ Pair(w) = p
         /\ emitted'[p] # emitted[p] =>
              \E w \in Txs : /\ EmitUnlocked(w) /\ Pair(w) = p
                             /\ emitted'[p] = emitted[p] + 1
<1> USE DEF WalletInv, GoodsTypes
<1>1. \/ unlocked' = unlocked
      \/ \E w \in Txs : CommitUnlock(w) /\ unlocked' = unlocked \cup {Pair(w)}
  BY DEF WalletNext, walletVars, shop, Arrive, unlockEntrada, runAnalysis, Purchase, Serve,
    FindUnlock, CreateUnlock, CommitUnlock, EmitUnlocked, ReadPass, PreCheck, Answered,
    CommitSession, CommitPurchase, LedgerStatement, PaymentRequired, Fail, PassChanges
<1>2. \/ emitted' = emitted
      \/ \E w \in Txs : /\ EmitUnlocked(w)
                         /\ emitted' = [emitted EXCEPT ![Pair(w)] = @ + 1]
  BY DEF WalletNext, walletVars, shop, Arrive, unlockEntrada, runAnalysis, Purchase, Serve,
    FindUnlock, CreateUnlock, CommitUnlock, EmitUnlocked, ReadPass, PreCheck, Answered,
    CommitSession, CommitPurchase, LedgerStatement, PaymentRequired, Fail, PassChanges
<1> QED
  BY <1>1, <1>2

\* What request v is about to do stays right while other requests act.  The one that
\* could take its key holds the same user's lock, which only one request can.
LEMMA OthersWork ==
  ASSUME WalletInv, NEW w \in Txs, StepBy(w), NEW v \in Txs \ {w}
  PROVE  Work(v)'
<1> USE DEF WalletInv
<1>0. WalletNext
  BY DEF WalletNext, StepBy
<1>1. desk'[v] = desk[v] /\ tx'[v] = tx[v] /\ Pair(v)' = Pair(v) /\ Work(v)
  BY OthersStay DEF Pair, WorkInv
<1>2. Charging(v) => Charging(v)'
  BY <1>1 DEF Charging, Owner
<1>3. desk[v].pc \in {"commit", "emit"} => Pair(v) \in Users \X Entradas
  BY AtWork DEF UnderWay, Pcs
<1>4. desk[v].pc = "commit" => Pair(v) \notin unlocked'
  <2> SUFFICES ASSUME desk[v].pc = "commit", Pair(v) \in unlocked' PROVE FALSE
    OBVIOUS
  <2>1. PICK x \in Txs : CommitUnlock(x) /\ Pair(x) = Pair(v)
    BY <1>0, <1>1, <1>3, UnlocksStay DEF Work
  <2>2. x # v
    <3>1. desk[x] # NoRequest /\ Goto(x, "emit")
      BY <2>1, AtWork DEF CommitUnlock, At
    <3>2. desk'[x].pc = "emit"
      BY <3>1, GotoEffect
    <3> QED
      BY <1>1, <3>2
  <2>3. tx[x].pc = "created" /\ tx[v].pc = "created"
    BY <1>1, <2>1 DEF CommitUnlock, CommitTx, Work
  <2>4. lock[tx[x].user] = x /\ lock[tx[v].user] = v
    BY <2>3 DEF IInv, LockInv, Holding
  <2>5. tx[x].user = desk[x].user /\ tx[v].user = desk[v].user
    BY <2>3 DEF WorkInv, Work, Open, Charging, Owner
  <2>6. desk[x].user = desk[v].user
    BY <2>1 DEF Pair
  <2> QED
    BY <2>2, <2>4, <2>5, <2>6
<1>5. desk[v].pc = "emit" => Pair(v) \in unlocked' /\ emitted'[Pair(v)] = 0
  <2> SUFFICES ASSUME desk[v].pc = "emit" PROVE Pair(v) \in unlocked' /\ emitted'[Pair(v)] = 0
    OBVIOUS
  <2>1. Pair(v) \in Users \X Entradas /\ Pair(v) \in unlocked /\ emitted[Pair(v)] = 0
    BY <1>1, <1>3 DEF Work
  <2>2. ASSUME NEW x \in Txs, EmitUnlocked(x), Pair(x) = Pair(v) PROVE FALSE
    <3>1. x = v
      BY <2>2 DEF EmitUnlocked, At, EmitsAlone
    <3>2. desk[x] # NoRequest /\ Goto(x, "idle")
      BY <2>2, AtWork DEF EmitUnlocked, At
    <3>3. desk'[x].pc = "idle"
      BY <3>2, GotoEffect
    <3> QED
      BY <1>1, <3>1, <3>3
  <2> QED
    BY <1>0, <2>1, <2>2, UnlocksStay
<1> QED
  BY <1>1, <1>2, <1>4, <1>5 DEF Work, Open

LEMMA QuietWork ==
  ASSUME NEW w \in Txs, ~Open(w)',
         desk'[w].pc \in {"idle", "refused", "find", "pass", "balance", "ai"}
  PROVE  Work(w)'
  BY DEF Work

\* A request that begins its ledger transaction.
LEMMA ChargeWork ==
  ASSUME WalletInv, NEW w \in Txs, NEW u, NEW amount, NEW ref,
         applyTransaction(w, u, amount, ref), desk'[w].pc = "ledger",
         desk'[w].user = u,
         desk'[w].kind = "unlock" => ref = desk'[w].item /\ amount = -Cost[desk'[w].item],
         desk'[w].kind = "analysis" =>
           ref = analysis /\ amount = -AnalysisCost /\ ~desk'[w].unlimited,
         desk'[w].kind = "purchase" => ref = purchase /\ amount \in TopUps
  PROVE  Work(w)'
<1>1. /\ tx'[w].pc = "called" /\ tx'[w].user = u
      /\ tx'[w].amount = amount /\ tx'[w].ref = ref
  BY CallEffect DEF WalletInv
<1>2. Charging(w)' /\ Open(w)'
  BY <1>1 DEF Charging, Owner, Open
<1> QED
  BY <1>2 DEF Work

LEMMA ArriveWork ==
  ASSUME WalletInv, NEW w \in Txs, Arrive(w)
  PROVE  Work(w)'
<1> USE DEF WalletInv
<1> PICK u \in Users : \/ \E e \in Entradas : unlockEntrada(w, u, e)
                       \/ runAnalysis(w, u)
                       \/ \E amount \in TopUps : Purchase(w, u, amount)
  BY DEF Arrive
<1>1. ASSUME (\E e \in Entradas : unlockEntrada(w, u, e)) \/ runAnalysis(w, u)
      PROVE  Work(w)'
  <2>1. desk'[w].pc \in {"find", "pass"}
    BY <1>1, RequestEffect DEF unlockEntrada, runAnalysis
  <2>2. ~Open(w)'
    BY <1>1 DEF unlockEntrada, runAnalysis, Request, AtRest, ledgerVars, WorkInv, Work, Open
  <2> QED
    BY <2>1, <2>2, QuietWork
<1>2. ASSUME NEW amount \in TopUps, Purchase(w, u, amount) PROVE Work(w)'
  <2>1. desk'[w].pc = "ledger" /\ desk'[w].kind = "purchase" /\ desk'[w].user = u
    BY <1>2, RequestEffect DEF Purchase
  <2> QED
    BY <1>2, <2>1, ChargeWork DEF Purchase
<1> QED
  BY <1>1, <1>2

LEMMA ServeWork ==
  ASSUME WalletInv, NEW w \in Txs, Serve(w) \/ Fail(w)
  PROVE  Work(w)'
<1> USE DEF WalletInv
<1>0. /\ Work(w) /\ IInv /\ DeskTypes /\ desk[w] # NoRequest
      /\ Owner(w) \in Users
      /\ desk[w].kind = "unlock" => Pair(w) \in Users \X Entradas
      /\ ~AtRest(w)
  <2>1. ~AtRest(w)
    BY DEF Serve, Fail, AtRest, At, FindUnlock, CreateUnlock, CommitUnlock, EmitUnlocked,
      ReadPass, PreCheck, Answered, CommitSession, CommitPurchase, LedgerStatement,
      PaymentRequired
  <2> QED
    BY <2>1, AtWork DEF WorkInv, AtRest
<1>1. \A pc : Goto(w, pc) =>
        /\ desk'[w].pc = pc /\ desk'[w].kind = desk[w].kind
        /\ desk'[w].user = desk[w].user /\ desk'[w].item = desk[w].item
        /\ (desk'[w].unlimited <=> desk[w].unlimited) /\ Pair(w)' = Pair(w)
  BY <1>0, GotoEffect DEF Pair
<1>2. tx' = tx /\ desk[w].pc \notin {"ledger", "commit"} => ~Open(w)'
  BY <1>0 DEF Work, Open
<1>3. CASE FindUnlock(w)
  <2>1. CASE Pair(w) \in unlocked
    <3>1. desk'[w].pc = "idle" /\ ~Open(w)'
      BY <1>1, <1>2, <1>3, <2>1 DEF FindUnlock, At, ledgerVars
    <3> QED
      BY <3>1, QuietWork
  <2>2. CASE Pair(w) \notin unlocked
    <3>1. /\ applyTransaction(w, desk[w].user, -Cost[desk[w].item], desk[w].item)
          /\ Goto(w, "ledger") /\ desk[w].kind = "unlock"
      BY <1>3, <2>2 DEF FindUnlock, At, Owner
    <3> QED
      BY <1>1, <3>1, ChargeWork
  <2> QED
    BY <2>1, <2>2
<1>4. CASE CreateUnlock(w)
  <2>1. tx[w].pc = "created" /\ desk[w].pc = "ledger" /\ desk[w].kind = "unlock"
    BY <1>4 DEF CreateUnlock, At
  <2>2. CASE Pair(w) \in unlocked
    <3>1. desk'[w].pc = "refused" /\ ~Open(w)'
      BY <1>0, <1>1, <1>4, <2>2, EndEffect DEF CreateUnlock, Open
    <3> QED
      BY <3>1, QuietWork
  <2>3. CASE Pair(w) \notin unlocked
    <3>1. desk'[w].pc = "commit" /\ tx' = tx /\ unlocked' = unlocked
      BY <1>1, <1>4, <2>3 DEF CreateUnlock, ledgerVars, shop
    <3>2. Charging(w)'
      BY <1>0, <1>1, <1>4, <2>1, <2>3, <3>1 DEF Work, Charging, Owner, CreateUnlock, Open
    <3>3. Pair(w)' \notin unlocked'
      BY <1>1, <1>4, <2>3, <3>1 DEF CreateUnlock
    <3> QED
      BY <2>1, <3>1, <3>2, <3>3 DEF Work, Open
  <2> QED
    BY <2>2, <2>3
<1>5. CASE CommitUnlock(w)
  <2>1. /\ desk[w].pc = "commit" /\ desk[w].kind = "unlock" /\ CommitTx(w)
        /\ Goto(w, "emit") /\ unlocked' = unlocked \cup {Pair(w)} /\ emitted' = emitted
    BY <1>5 DEF CommitUnlock, At
  <2>2. desk'[w].pc = "emit" /\ Pair(w)' = Pair(w) /\ ~Open(w)'
    BY <1>0, <1>1, <2>1, EndEffect DEF Open
  <2>3. emitted[Pair(w)] = 0
    <3>1. Pair(w) \in Users \X Entradas /\ Pair(w) \notin unlocked
      BY <1>0, <2>1 DEF Work
    <3> QED
      BY <3>1 DEF EmittedOnce, GoodsTypes
  <2> QED
    BY <2>1, <2>2, <2>3 DEF Work
<1>6. CASE EmitUnlocked(w)
  <2>1. desk'[w].pc = "idle" /\ ~Open(w)'
    BY <1>1, <1>2, <1>6 DEF EmitUnlocked, At, ledgerVars
  <2> QED
    BY <2>1, QuietWork
<1>7. CASE ReadPass(w)
  <2>1. desk'[w].pc \in {"ai", "balance"} /\ ~Open(w)'
    BY <1>0, <1>2, <1>7, PassEffect DEF ReadPass, At, ledgerVars
  <2> QED
    BY <2>1, QuietWork
<1>8. CASE PreCheck(w)
  <2>1. desk'[w].pc \in {"ai", "refused"} /\ ~Open(w)'
    BY <1>1, <1>2, <1>8 DEF PreCheck, At, ledgerVars
  <2> QED
    BY <2>1, QuietWork
<1>9. CASE Answered(w)
  <2>1. CASE desk[w].unlimited
    <3>1. desk'[w].pc = "session" /\ ~Open(w)' /\ desk'[w].unlimited
      BY <1>1, <1>2, <1>9, <2>1 DEF Answered, At, ledgerVars
    <3> QED
      BY <3>1 DEF Work
  <2>2. CASE ~desk[w].unlimited
    <3>1. /\ applyTransaction(w, desk[w].user, -AnalysisCost, analysis)
          /\ Goto(w, "ledger") /\ desk[w].kind = "analysis"
      BY <1>9, <2>2 DEF Answered, At, Owner
    <3>2. desk'[w].pc = "ledger" /\ desk'[w].kind = "analysis" /\ desk'[w].user = desk[w].user
          /\ ~desk'[w].unlimited
      BY <1>1, <2>2, <3>1
    <3> QED
      BY <3>1, <3>2, ChargeWork
  <2> QED
    BY <2>1, <2>2
<1>10. CASE CommitSession(w) \/ CommitPurchase(w)
  <2>1. desk'[w].pc = "idle"
    BY <1>1, <1>10 DEF CommitSession, CommitPurchase
  <2>2. ~Open(w)'
    BY <1>0, <1>2, <1>10, EndEffect DEF CommitSession, CommitPurchase, Open, At, ledgerVars
  <2> QED
    BY <2>1, <2>2, QuietWork
<1>11. CASE LedgerStatement(w)
  <2>1. desk' = desk /\ LedgerStep(w) /\ desk[w].pc = "ledger"
    BY <1>11 DEF LedgerStatement
  <2>2. /\ tx'[w].pc \in Holding /\ tx'[w].user = tx[w].user
        /\ tx'[w].amount = tx[w].amount /\ tx'[w].ref = tx[w].ref
    BY <1>0, <2>1, StatementEffect
  <2>3. Charging(w)'
    BY <1>0, <2>1, <2>2 DEF Work, Charging, Owner
  <2> QED
    BY <2>1, <2>2, <2>3 DEF Work, Open, Holding
<1>12. CASE PaymentRequired(w)
  <2>1. desk'[w].pc = "refused" /\ ~Open(w)'
    BY <1>0, <1>1, <1>12, EndEffect DEF PaymentRequired, RejectOverdraft, Open
  <2> QED
    BY <2>1, QuietWork
<1>13. CASE Fail(w)
  <2>1. desk'[w].pc = "idle"
    BY <1>1, <1>13 DEF Fail
  <2>2. ~Open(w)'
    BY <1>0, <1>13, EndEffect DEF Fail, Open, ledgerVars
  <2> QED
    BY <2>1, <2>2, QuietWork
<1> QED
  BY <1>3, <1>4, <1>5, <1>6, <1>7, <1>8, <1>9, <1>10, <1>11, <1>12, <1>13 DEF Serve

LEMMA WorkKept ==
  ASSUME WalletInv, [WalletNext]_walletVars
  PROVE  WorkInv'
<1>1. ASSUME NEW w \in Txs, StepBy(w) PROVE WorkInv'
  BY <1>1, ArriveWork, ServeWork, OthersWork DEF StepBy, WorkInv
<1>2. ASSUME UNCHANGED <<ledgerVars, desk, unlocked, sessions, emitted>> PROVE WorkInv'
  BY <1>2 DEF WalletInv, WorkInv, Work, Open, Charging, Owner, Pair, ledgerVars
<1> QED
  BY <1>1, <1>2, StepCases

\* Whoever announces an unlock after a step announced it before or has just made it.
LEMMA EmitterStep ==
  ASSUME WalletInv, NEW w \in Txs, StepBy(w), desk'[w].pc = "emit"
  PROVE  /\ CommitUnlock(w) /\ Pair(w)' = Pair(w) /\ Pair(w) \notin unlocked
<1> USE DEF WalletInv
<1>1. CommitUnlock(w)
  <2>1. \A kind, pc, u, item : Request(w, kind, pc, u, item) => desk'[w].pc = pc
    BY RequestEffect
  <2>2. ~Arrive(w)
    BY <2>1 DEF Arrive, unlockEntrada, runAnalysis, Purchase
  <2>3. desk[w] # NoRequest => \A pc : Goto(w, pc) => desk'[w].pc = pc
    BY GotoEffect
  <2>4. ~ReadPass(w)
    BY PassEffect
  <2>5. ASSUME Serve(w) \/ Fail(w) PROVE desk[w].pc # "idle"
    BY <2>5 DEF Serve, Fail, AtRest, At, FindUnlock, CreateUnlock, CommitUnlock, EmitUnlocked,
      ReadPass, PreCheck, Answered, CommitSession, CommitPurchase, LedgerStatement,
      PaymentRequired
  <2>6. desk[w] # NoRequest
    BY <2>2, <2>5 DEF StepBy, NoRequest
  <2>7. ~LedgerStatement(w)
    BY DEF LedgerStatement
  <2>8. ~PreCheck(w) /\ ~Answered(w) /\ ~FindUnlock(w) /\ ~CreateUnlock(w)
    BY <2>3, <2>6 DEF PreCheck, Answered, FindUnlock, CreateUnlock
  <2>9. ~EmitUnlocked(w) /\ ~CommitSession(w) /\ ~CommitPurchase(w)
    BY <2>3, <2>6 DEF EmitUnlocked, CommitSession, CommitPurchase
  <2>10. ~PaymentRequired(w) /\ ~Fail(w)
    BY <2>3, <2>6 DEF PaymentRequired, Fail
  <2> QED
    BY <2>2, <2>4, <2>7, <2>8, <2>9, <2>10 DEF StepBy, Serve
<1>2. desk[w].pc = "commit" /\ desk[w] # NoRequest /\ Goto(w, "emit")
  BY <1>1, AtWork DEF CommitUnlock, At
<1>3. Pair(w)' = Pair(w)
  BY <1>2, GotoEffect DEF Pair
<1> QED
  BY <1>1, <1>2, <1>3 DEF WorkInv, Work

LEMMA EmitsAloneKept ==
  ASSUME WalletInv, [WalletNext]_walletVars
  PROVE  EmitsAlone'
<1> USE DEF WalletInv
<1>1. ASSUME UNCHANGED desk PROVE EmitsAlone'
  BY <1>1 DEF EmitsAlone, Pair
<1>2. ASSUME NEW w \in Txs, StepBy(w) PROVE EmitsAlone'
  <2>1. \A v \in Txs \ {w} : desk'[v] = desk[v] /\ Pair(v)' = Pair(v)
    BY <1>2, OthersStay DEF Pair
  <2>2. \A v \in Txs \ {w} : desk[v].pc = "emit" => Pair(v) \in unlocked
    BY DEF WorkInv, Work
  <2>3. desk'[w].pc = "emit" => Pair(w)' \notin unlocked
    BY <1>2, EmitterStep
  <2> QED
    BY <2>1, <2>2, <2>3 DEF EmitsAlone
<1> QED
  BY <1>1, <1>2, StepCases

LEMMA EmittedOnceKept ==
  ASSUME WalletInv, [WalletNext]_walletVars
  PROVE  EmittedOnce'
<1> USE DEF WalletInv
<1> SUFFICES ASSUME NEW p \in Users \X Entradas
             PROVE  emitted'[p] <= (IF p \in unlocked' THEN 1 ELSE 0)
  BY DEF EmittedOnce
<1>1. /\ emitted[p] \in Nat /\ emitted[p] <= (IF p \in unlocked THEN 1 ELSE 0)
      /\ p \in unlocked => p \in unlocked'
  BY UnlocksStay DEF EmittedOnce, GoodsTypes
<1>2. CASE emitted'[p] = emitted[p]
  BY <1>1, <1>2
<1>3. CASE emitted'[p] # emitted[p]
  <2> PICK w \in Txs : EmitUnlocked(w) /\ Pair(w) = p /\ emitted'[p] = emitted[p] + 1
    BY <1>3, UnlocksStay
  <2>1. p \in unlocked /\ emitted[p] = 0
    BY DEF EmitUnlocked, At, WorkInv, Work
  <2> QED
    BY <1>1, <2>1
<1> QED
  BY <1>2, <1>3

------------------------------------------------------------------------------
\* The money and the goods.

\* What is sold changes with a commit; a free analysis moves no money.
LEMMA GoodsStep ==
  ASSUME [WalletNext]_walletVars
  PROVE  \/ UNCHANGED <<credits, unlocked, sessions>>
         \/ \E w \in Txs : CommitUnlock(w) \/ CommitSession(w) \/ CommitPurchase(w)
<1> SUFFICES ASSUME ~ \E w \in Txs : CommitUnlock(w) \/ CommitSession(w) \/ CommitPurchase(w)
             PROVE  UNCHANGED <<credits, unlocked, sessions>>
  OBVIOUS
<1>1. UNCHANGED <<unlocked, sessions>>
  BY DEF WalletNext, walletVars, shop, Arrive, unlockEntrada, runAnalysis, Purchase, Serve,
    FindUnlock, CreateUnlock, EmitUnlocked, ReadPass, PreCheck, Answered, LedgerStatement,
    PaymentRequired, Fail, PassChanges
<1>2. UNCHANGED credits
  BY DEF WalletNext, walletVars, ledgerVars, Arrive, unlockEntrada, runAnalysis, Purchase,
    Serve, FindUnlock, CreateUnlock, EmitUnlocked, ReadPass, PreCheck, Answered,
    LedgerStatement, PaymentRequired, Fail, PassChanges, RejectOverdraft, RollbackTx,
    applyTransaction, LedgerStep, AcquireLock, ReadLatest, CreateRow
<1> QED
  BY <1>1, <1>2

\* A request's commit adds one row: its user's, for what was asked.
LEMMA ChargeLands ==
  ASSUME WalletInv, NEW w \in Txs, CommitTx(w)
  PROVE  /\ Charging(w) /\ Owner(w) \in Users /\ tx[w].amount \in Amounts
         /\ \A u, ref :
              IF u = Owner(w) /\ ref = tx[w].ref
              THEN \E new : /\ new.amount = tx[w].amount /\ new \notin RowsFor(u, ref)
                            /\ RowsFor(u, ref)' = RowsFor(u, ref) \cup {new}
              ELSE RowsFor(u, ref)' = RowsFor(u, ref)
         /\ credits' = credits \cup {NewRow(w)}
<1> USE DEF WalletInv
<1>1. tx[w].pc = "created" /\ credits' = credits \cup {NewRow(w)}
  BY EndEffect
<1>2. Charging(w)
  BY <1>1 DEF WorkInv, Work, Open
<1>3. tx[w] \in TxState
  BY <1>1 DEF IInv, TypeOK, Idle
<1>4. Owner(w) \in Users /\ tx[w].amount \in Amounts
  BY <1>2, <1>3 DEF Charging, TxState
<1>5. PICK new : new = NewRow(w)
  OBVIOUS
<1>6. new.user = Owner(w) /\ new.ref = tx[w].ref /\ new.amount = tx[w].amount
  BY <1>2, <1>5 DEF NewRow, Charging
<1>7. credits' = credits \cup {new} /\ new \notin credits
  BY <1>1, <1>5, CommittedRow
<1>8. ASSUME NEW u, NEW ref
      PROVE  IF u = Owner(w) /\ ref = tx[w].ref
             THEN RowsFor(u, ref)' = RowsFor(u, ref) \cup {new} /\ new \notin RowsFor(u, ref)
             ELSE RowsFor(u, ref)' = RowsFor(u, ref)
  BY <1>6, <1>7 DEF RowsFor, RowsOf
<1>9. ASSUME NEW u, NEW ref
      PROVE  IF u = Owner(w) /\ ref = tx[w].ref
             THEN \E n : /\ n.amount = tx[w].amount /\ n \notin RowsFor(u, ref)
                         /\ RowsFor(u, ref)' = RowsFor(u, ref) \cup {n}
             ELSE RowsFor(u, ref)' = RowsFor(u, ref)
  BY <1>6, <1>8
<1> QED
  BY <1>1, <1>2, <1>4, <1>9

LEMMA RowsStay ==
  ASSUME credits' = credits
  PROVE  \A u, ref : RowsFor(u, ref)' = RowsFor(u, ref)
  BY DEF RowsFor, RowsOf

\* An unlock and its debit appear together, and no other commit is for an entrada.
LEMMA UnlocksPaidKept ==
  ASSUME WalletInv, [WalletNext]_walletVars
  PROVE  ChargedIffUnlocked'
<1> USE DEF WalletInv
<1>1. CASE UNCHANGED <<credits, unlocked, sessions>>
  BY <1>1, RowsStay DEF ChargedIffUnlocked
<1>2. ASSUME NEW w \in Txs, CommitUnlock(w) PROVE ChargedIffUnlocked'
  <2>1. /\ desk[w].pc = "commit" /\ desk[w].kind = "unlock" /\ CommitTx(w)
        /\ unlocked' = unlocked \cup {Pair(w)}
    BY <1>2 DEF CommitUnlock, At
  <2>2. /\ Pair(w) \notin unlocked /\ Pair(w) = <<Owner(w), desk[w].item>>
        /\ Owner(w) \in Users /\ desk[w].item \in Entradas
    BY <2>1, AtWork DEF WorkInv, Work, Pair, Owner, UnderWay
  <2>3. tx[w].ref = desk[w].item /\ tx[w].amount = -Cost[desk[w].item]
    BY <2>1, ChargeLands DEF Charging
  <2> SUFFICES ASSUME NEW u \in Users, NEW e \in Entradas
               PROVE  IF <<u, e>> \in unlocked'
                      THEN \E r \in RowsFor(u, e)' : RowsFor(u, e)' = {r} /\ r.amount = -Cost[e]
                      ELSE RowsFor(u, e)' = {}
    BY DEF ChargedIffUnlocked
  <2>4. IF <<u, e>> \in unlocked
        THEN \E r \in RowsFor(u, e) : RowsFor(u, e) = {r} /\ r.amount = -Cost[e]
        ELSE RowsFor(u, e) = {}
    BY DEF ChargedIffUnlocked
  <2>5. CASE u = Owner(w) /\ e = desk[w].item
    <3>1. RowsFor(u, e) = {}
      BY <2>2, <2>4, <2>5
    <3>2. \E new : new.amount = -Cost[e] /\ RowsFor(u, e)' = {new}
      BY <2>1, <2>3, <2>5, <3>1, ChargeLands
    <3> QED
      BY <2>1, <2>2, <2>5, <3>2
  <2>6. CASE ~(u = Owner(w) /\ e = desk[w].item)
    <3>1. RowsFor(u, e)' = RowsFor(u, e)
      BY <2>1, <2>3, <2>6, ChargeLands
    <3>2. <<u, e>> \in unlocked' <=> <<u, e>> \in unlocked
      BY <2>1, <2>2, <2>6
    <3> QED
      BY <2>4, <3>1, <3>2
  <2> QED
    BY <2>5, <2>6
<1>3. ASSUME NEW w \in Txs, CommitSession(w) \/ CommitPurchase(w) PROVE ChargedIffUnlocked'
  <2>1. unlocked' = unlocked
    BY <1>3 DEF CommitSession, CommitPurchase, shop
  <2>2. \A u \in Users, e \in Entradas : RowsFor(u, e)' = RowsFor(u, e)
    <3>1. CASE credits' = credits
      BY <3>1, RowsStay
    <3>2. CASE CommitTx(w)
      <4>1. tx[w].ref \in {analysis, purchase}
        BY <1>3, <3>2, ChargeLands, EndEffect DEF Charging, CommitSession, CommitPurchase, At
      <4> QED
        BY <3>2, <4>1, ChargeLands, WalletAssumption
    <3> QED
      BY <1>3, <3>1, <3>2 DEF CommitSession, CommitPurchase, ledgerVars
  <2> QED
    BY <2>1, <2>2 DEF ChargedIffUnlocked
<1> QED
  BY <1>1, <1>2, <1>3, GoodsStep

\* What a persisted analysis does to the count of its kind.
LEMMA SessionCount ==
  ASSUME WalletInv, NEW w \in Txs, AddSession(w), Owner(w) \in Users
  PROVE  /\ sessions' \in [Users -> [paid : Nat, free : Nat]]
         /\ \A u \in Users :
              sessions'[u].paid = IF u = Owner(w) /\ ~desk[w].unlimited
                                  THEN sessions[u].paid + 1 ELSE sessions[u].paid
         /\ \A u \in Users :
              sessions'[u].paid + sessions'[u].free =
                IF u = Owner(w) THEN sessions[u].paid + sessions[u].free + 1
                                ELSE sessions[u].paid + sessions[u].free
<1> PICK o : o = Owner(w)
  OBVIOUS
<1>1. sessions \in [Users -> [paid : Nat, free : Nat]] /\ o \in Users
  BY DEF WalletInv, GoodsTypes
<1>2. CASE desk[w].unlimited
  <2>1. sessions' = [sessions EXCEPT ![o].free = @ + 1]
    BY <1>2 DEF AddSession, Counted
  <2> QED
    BY <1>1, <1>2, <2>1
<1>3. CASE ~desk[w].unlimited
  <2>1. sessions' = [sessions EXCEPT ![o].paid = @ + 1]
    BY <1>3 DEF AddSession, Counted
  <2> QED
    BY <1>1, <1>3, <2>1
<1> QED
  BY <1>2, <1>3

\* A request that persists its analysis paid for it unless it has a pass.
LEMMA SessionPaid ==
  ASSUME WalletInv, NEW w \in Txs, CommitSession(w)
  PROVE  /\ Owner(w) \in Users
         /\ desk[w].unlimited => credits' = credits
         /\ ~desk[w].unlimited => CommitTx(w) /\ tx[w].ref = analysis
                                   /\ tx[w].amount = -AnalysisCost
<1>1. Owner(w) \in Users
  BY AtWork DEF WalletInv, CommitSession, At
<1>2. ASSUME At(w, "analysis", "session"), UNCHANGED ledgerVars
      PROVE  desk[w].unlimited /\ credits' = credits
  BY <1>2 DEF At, WalletInv, WorkInv, Work, ledgerVars
<1>3. ASSUME At(w, "analysis", "ledger"), CommitTx(w)
      PROVE  ~desk[w].unlimited /\ tx[w].ref = analysis /\ tx[w].amount = -AnalysisCost
  BY <1>3, ChargeLands DEF At, Charging
<1> QED
  BY <1>1, <1>2, <1>3 DEF CommitSession

\* A row more for a set of rows is one more of them.
LEMMA RowsAreFinite ==
  ASSUME IsFiniteSet(credits), NEW u, NEW ref
  PROVE  IsFiniteSet(RowsFor(u, ref)) /\ Cardinality(RowsFor(u, ref)) \in Nat
<1>1. RowsFor(u, ref) \subseteq credits
  BY DEF RowsFor, RowsOf
<1> QED
  BY <1>1, FS_Subset, FS_CardinalityType

LEMMA GoodsTypesKept ==
  ASSUME WalletInv, [WalletNext]_walletVars
  PROVE  GoodsTypes'
<1> USE DEF WalletInv
<1>1. unlocked' \subseteq Users \X Entradas
  <2>1. ASSUME NEW w \in Txs, CommitUnlock(w) PROVE Pair(w) \in Users \X Entradas
    BY <2>1, AtWork DEF CommitUnlock, At
  <2> QED
    BY <2>1, GoodsStep DEF GoodsTypes, CommitUnlock, CommitSession, CommitPurchase, shop
<1>2. passes' \subseteq Users
  BY DEF GoodsTypes, WalletNext, walletVars, shop, Arrive, unlockEntrada, runAnalysis, Purchase,
    Serve, FindUnlock, CreateUnlock, CommitUnlock, EmitUnlocked, ReadPass, PreCheck, Answered,
    CommitSession, CommitPurchase, LedgerStatement, PaymentRequired, Fail, PassChanges
<1>3. sessions' \in [Users -> [paid : Nat, free : Nat]]
  <2>1. ASSUME NEW w \in Txs, CommitSession(w)
        PROVE  sessions' \in [Users -> [paid : Nat, free : Nat]]
    BY <2>1, SessionPaid, SessionCount DEF CommitSession
  <2> QED
    BY <2>1, GoodsStep DEF GoodsTypes, CommitUnlock, CommitPurchase, shop
<1>4. emitted' \in [Users \X Entradas -> Nat]
  <2>1. \/ emitted' = emitted
        \/ \E p : emitted' = [emitted EXCEPT ![p] = @ + 1]
    BY DEF WalletNext, walletVars, shop, Arrive, unlockEntrada, runAnalysis, Purchase, Serve,
      FindUnlock, CreateUnlock, CommitUnlock, EmitUnlocked, ReadPass, PreCheck, Answered,
      CommitSession, CommitPurchase, LedgerStatement, PaymentRequired, Fail, PassChanges
  <2> QED
    BY <2>1 DEF GoodsTypes
<1>5. IsFiniteSet(credits')
  <2>1. credits' = credits \/ \E new : credits' = credits \cup {new}
    BY GoodsStep, EndEffect DEF CommitUnlock, CommitSession, CommitPurchase, ledgerVars
  <2> QED
    BY <2>1, FS_AddElement DEF GoodsTypes
<1> QED
  BY <1>1, <1>2, <1>3, <1>4, <1>5 DEF GoodsTypes

\* A paid analysis and its debit appear together, and no other commit is for one.
LEMMA AnalysesPaidKept ==
  ASSUME WalletInv, [WalletNext]_walletVars
  PROVE  ChargedIffDelivered'
<1> USE DEF WalletInv
<1>1. CASE UNCHANGED <<credits, unlocked, sessions>>
  BY <1>1, RowsStay DEF ChargedIffDelivered
<1>2. ASSUME NEW w \in Txs, CommitUnlock(w) \/ CommitPurchase(w) PROVE ChargedIffDelivered'
  <2>1. sessions' = sessions /\ CommitTx(w)
    BY <1>2 DEF CommitUnlock, CommitPurchase, shop
  <2>2. tx[w].ref # analysis
    <3>1. Charging(w)
      BY <2>1, ChargeLands
    <3>2. CASE CommitUnlock(w)
      <4>1. desk[w].kind = "unlock" /\ desk[w].item \in Entradas
        BY <3>2, AtWork DEF CommitUnlock, At, UnderWay
      <4> QED
        BY <3>1, <4>1, WalletAssumption DEF Charging
    <3>3. CASE CommitPurchase(w)
      BY <3>1, <3>3, WalletAssumption DEF Charging, CommitPurchase, At
    <3> QED
      BY <1>2, <3>2, <3>3
  <2>3. \A u : RowsFor(u, analysis)' = RowsFor(u, analysis)
    BY <2>1, <2>2, ChargeLands
  <2> QED
    BY <2>1, <2>3 DEF ChargedIffDelivered
<1>3. ASSUME NEW w \in Txs, CommitSession(w) PROVE ChargedIffDelivered'
  <2> SUFFICES ASSUME NEW u \in Users
               PROVE  Cardinality(RowsFor(u, analysis)') = sessions'[u].paid
    BY DEF ChargedIffDelivered
  <2>1. /\ Cardinality(RowsFor(u, analysis)) = sessions[u].paid
        /\ IsFiniteSet(RowsFor(u, analysis))
        /\ sessions'[u].paid = IF u = Owner(w) /\ ~desk[w].unlimited
                               THEN sessions[u].paid + 1 ELSE sessions[u].paid
    BY <1>3, SessionPaid, SessionCount, RowsAreFinite
       DEF ChargedIffDelivered, CommitSession, GoodsTypes
  <2>2. CASE desk[w].unlimited
    BY <1>3, <2>1, <2>2, SessionPaid, RowsStay
  <2>3. CASE ~desk[w].unlimited /\ u = Owner(w)
    <3>1. PICK new : /\ new \notin RowsFor(u, analysis)
                     /\ RowsFor(u, analysis)' = RowsFor(u, analysis) \cup {new}
      BY <1>3, <2>3, SessionPaid, ChargeLands
    <3> QED
      BY <2>1, <2>3, <3>1, FS_AddElement
  <2>4. CASE ~desk[w].unlimited /\ u # Owner(w)
    <3>1. RowsFor(u, analysis)' = RowsFor(u, analysis)
      BY <1>3, <2>4, SessionPaid, ChargeLands
    <3> QED
      BY <2>1, <2>4, <3>1
  <2> QED
    BY <2>2, <2>3, <2>4
<1> QED
  BY <1>1, <1>2, <1>3, GoodsStep

------------------------------------------------------------------------------
LEMMA WalletInitInv == WalletInit => WalletInv
<1> SUFFICES ASSUME WalletInit PROVE WalletInv
  OBVIOUS
<1> USE DEF WalletInit
<1>1. IInv /\ credits = {}
  BY InitIInv DEF LedgerInit
<1>2. \A w \in Txs : desk[w] = NoRequest /\ desk[w].pc = "idle" /\ ~Open(w)
  BY DEF NoRequest, LedgerInit, Idle, Open
<1>3. DeskTypes
  BY <1>2 DEF DeskTypes, NoRequest
<1>4. GoodsTypes
  BY <1>1, FS_EmptySet DEF GoodsTypes
<1>5. WorkInv /\ EmitsAlone
  BY <1>2 DEF WorkInv, Work, EmitsAlone
<1>6. \A u, ref : RowsFor(u, ref) = {}
  BY <1>1 DEF RowsFor, RowsOf
<1>7. ChargedIffUnlocked /\ EmittedOnce
  BY <1>6 DEF ChargedIffUnlocked, EmittedOnce
<1>8. ChargedIffDelivered
  <2>1. \A u \in Users : sessions[u].paid = 0
    OBVIOUS
  <2> QED
    BY <1>6, <2>1, FS_EmptySet DEF ChargedIffDelivered
<1> QED
  BY <1>1, <1>3, <1>4, <1>5, <1>7, <1>8 DEF WalletInv

LEMMA WalletNextInv == WalletInv /\ [WalletNext]_walletVars => WalletInv'
<1> SUFFICES ASSUME WalletInv, [WalletNext]_walletVars PROVE WalletInv'
  OBVIOUS
<1>1. IInv'
  BY StepIsLedgerStep, NextIInv DEF WalletInv
<1>2. DeskTypes'
  BY DeskKept DEF WalletInv
<1> QED
  BY <1>1, <1>2, WorkKept, EmitsAloneKept, GoodsTypesKept, UnlocksPaidKept, AnalysesPaidKept,
     EmittedOnceKept DEF WalletInv

\* The inductive invariant holds in every reachable state.
THEOREM WalletInvariant == WalletSpec => []WalletInv
<1> QED
  BY WalletInitInv, WalletNextInv, PTL DEF WalletSpec

(* Whatever the requests do, what reaches the ledger is CreditsLedger: every *)
(* theorem about the ledger holds of the system the requests make.           *)
THEOREM WalletDrivesLedger == WalletSpec => LedgerSpec
<1>1. WalletInv /\ [WalletNext]_walletVars => [LedgerNext]_ledgerVars
  BY StepIsLedgerStep DEF WalletInv
<1>2. WalletInit => LedgerInit
  BY DEF WalletInit
<1> QED
  BY <1>1, <1>2, WalletInvariant, PTL DEF WalletSpec, LedgerSpec

(* Every variable of the requests' model keeps its type.                     *)
THEOREM WalletTypes == WalletSpec => []WalletTypeOK
<1>1. WalletInv => WalletTypeOK
  BY DEF WalletInv, IInv, GoodsTypes, DeskTypes, WalletTypeOK, UnderWay, NoRequest, Pcs, DeskPc
<1> QED
  BY <1>1, WalletInvariant, PTL

(* An entrada is open to a user if and only if one debit of its price stands *)
(* in the user's ledger, however many devices ask for it at once.            *)
THEOREM UnlocksArePaid == WalletSpec => []ChargedIffUnlocked
<1>1. WalletInv => ChargedIffUnlocked
  BY DEF WalletInv
<1> QED
  BY <1>1, WalletInvariant, PTL

(* The analyses persisted without a pass are as many as the debits for one.  *)
THEOREM AnalysesArePaid == WalletSpec => []ChargedIffDelivered
<1>1. WalletInv => ChargedIffDelivered
  BY DEF WalletInv
<1> QED
  BY <1>1, WalletInvariant, PTL

(* 'entrada.unlocked' is emitted at most once for a user's unlock, and only  *)
(* for one that is committed.                                                *)
THEOREM UnlocksAreAnnouncedOnce == WalletSpec => []EmittedOnce
<1>1. WalletInv => EmittedOnce
  BY DEF WalletInv
<1> QED
  BY <1>1, WalletInvariant, PTL

------------------------------------------------------------------------------
\* The user's view: what Shop calls balance, owned and analyses.
Balances == [u \in Users |-> getBalance(u)]
Owned == [u \in Users |-> {e \in Entradas : <<u, e>> \in unlocked}]
Analyses == [u \in Users |-> sessions[u].paid + sessions[u].free]

\* A commit is one movement on its user's balance, which covers it.
LEMMA ChargeMovesBalance ==
  ASSUME WalletInv, NEW w \in Txs, CommitTx(w), NEW u, u = Owner(w),
         NEW a, a = tx[w].amount
  PROVE  /\ u \in Users /\ a \in Int /\ Balances[u] \in Nat /\ Balances[u] + a >= 0
         /\ Balances' = [Balances EXCEPT ![u] = @ + a]
<1>1. IInv /\ tx[w].pc = "created" /\ tx[w].user = u
  BY ChargeLands, EndEffect DEF WalletInv, Charging
<1>2. u \in Users /\ a \in Int
  BY ChargeLands, LedgerAssumption
<1>3. PICK new : new = NewRow(w)
  OBVIOUS
<1>4. /\ getBalance(u)' = getBalance(u) + a
      /\ \A v : v # u => getBalance(v)' = getBalance(v)
  BY <1>1, <1>3, CommitEffect
<1>5. getBalance(u) \in Nat /\ getBalance(u) + a >= 0
  BY <1>1, <1>2, BalanceIsNat, CommittedRow
<1> QED
  BY <1>2, <1>4, <1>5 DEF Balances

\* A debit of c takes c from a balance that holds it.
LEMMA DebitPays ==
  ASSUME WalletInv, NEW w \in Txs, CommitTx(w), NEW u, u = Owner(w),
         NEW c \in Nat, tx[w].amount = -c
  PROVE  /\ u \in Users /\ Balances[u] >= c
         /\ Balances' = [Balances EXCEPT ![u] = @ - c]
<1> PICK a, b : a = tx[w].amount /\ b = Balances[u]
  OBVIOUS
<1>1. /\ u \in Users /\ a \in Int /\ Balances[u] \in Nat /\ Balances[u] + a >= 0
      /\ Balances' = [Balances EXCEPT ![u] = @ + a]
  BY ChargeMovesBalance
<1>2. b \in Nat /\ b + a >= 0 /\ Balances' = [Balances EXCEPT ![u] = b + a]
  BY <1>1
<1>3. b + a = b - c /\ b >= c
  BY <1>2
<1> QED
  BY <1>1, <1>2, <1>3

LEMMA BalancesStay ==
  ASSUME credits' = credits
  PROVE  Balances' = Balances
  BY SameRows DEF Balances

LEMMA UnlockStep ==
  ASSUME WalletInv, NEW w \in Txs, CommitUnlock(w)
  PROVE  S!Next
<1> PICK u, e : u = Owner(w) /\ e = desk[w].item
  OBVIOUS
<1>1. /\ CommitTx(w) /\ unlocked' = unlocked \cup {<<u, e>>} /\ sessions' = sessions
      /\ desk[w].pc = "commit" /\ desk[w].kind = "unlock"
  BY DEF CommitUnlock, At, Pair, Owner
<1>2. u \in Users /\ e \in Entradas /\ <<u, e>> \notin unlocked
  BY <1>1, AtWork DEF WalletInv, WorkInv, Work, Pair, Owner, UnderWay
<1>3. tx[w].amount = -Cost[e] /\ Cost[e] \in Nat
  BY <1>1, <1>2, ChargeLands, WalletAssumption DEF Charging
<1>4. Balances[u] >= Cost[e] /\ Balances' = [Balances EXCEPT ![u] = @ - Cost[e]]
  BY <1>1, <1>3, DebitPays
<1>5. e \notin Owned[u] /\ Owned' = [Owned EXCEPT ![u] = @ \cup {e}]
  BY <1>1, <1>2 DEF Owned
<1>6. UNCHANGED Analyses
  BY <1>1 DEF Analyses
<1>7. S!Unlock(u, e)
  BY <1>4, <1>5, <1>6 DEF S!Unlock, S!Pay, Balances, Owned, Analyses
<1> QED
  BY <1>2, <1>7 DEF S!Next

LEMMA AnalyseStep ==
  ASSUME WalletInv, NEW w \in Txs, CommitSession(w)
  PROVE  S!Next
<1> PICK u : u = Owner(w)
  OBVIOUS
<1>1. u \in Users /\ AddSession(w) /\ unlocked' = unlocked
  BY SessionPaid DEF CommitSession
<1>2. Analyses' = [Analyses EXCEPT ![u] = @ + 1]
  BY <1>1, SessionCount DEF Analyses
<1>3. Owned' = Owned
  BY <1>1 DEF Owned
<1>4. CASE desk[w].unlimited
  <2>1. Balances' = Balances
    BY <1>4, SessionPaid, BalancesStay
  <2>2. S!Analyse(u)
    BY <1>2, <1>3, <2>1 DEF S!Analyse, Balances, Owned, Analyses
  <2> QED
    BY <1>1, <2>2 DEF S!Next
<1>5. CASE ~desk[w].unlimited
  <2>1. CommitTx(w) /\ tx[w].amount = -AnalysisCost /\ AnalysisCost \in Nat
    BY <1>5, SessionPaid, WalletAssumption
  <2>2. Balances[u] >= AnalysisCost /\ Balances' = [Balances EXCEPT ![u] = @ - AnalysisCost]
    BY <2>1, DebitPays
  <2>3. S!Analyse(u)
    BY <1>2, <1>3, <2>2 DEF S!Analyse, S!Pay, Balances, Owned, Analyses
  <2> QED
    BY <1>1, <2>3 DEF S!Next
<1> QED
  BY <1>4, <1>5

LEMMA TopUpStep ==
  ASSUME WalletInv, NEW w \in Txs, CommitPurchase(w)
  PROVE  S!Next
<1> PICK u, a : u = Owner(w) /\ a = tx[w].amount
  OBVIOUS
<1>1. CommitTx(w) /\ unlocked' = unlocked /\ sessions' = sessions /\ desk[w].kind = "purchase"
  BY DEF CommitPurchase, At, shop
<1>2. a \in TopUps
  BY <1>1, ChargeLands DEF Charging
<1>3. u \in Users /\ Balances' = [Balances EXCEPT ![u] = @ + a]
  BY <1>1, ChargeMovesBalance
<1>4. Owned' = Owned /\ Analyses' = Analyses
  BY <1>1 DEF Owned, Analyses
<1>5. S!TopUp(u, a)
  BY <1>3, <1>4 DEF S!TopUp, Balances, Owned, Analyses
<1> QED
  BY <1>2, <1>3, <1>5 DEF S!Next

(* To its user the API is a shop: an unlock, an analysis and a purchase are  *)
(* each one indivisible step that the balance covers, and nothing in between *)
(* is ever visible.                                                          *)
THEOREM WalletImplementsShop == WalletSpec => ImplementsShop
<1>1. WalletInit => S!Init
  <2> SUFFICES ASSUME WalletInit PROVE S!Init
    OBVIOUS
  <2>1. Balances = [u \in Users |-> 0]
    BY DEF WalletInit, LedgerInit, Balances, getBalance, BalanceOf, RowsOf
  <2>2. Owned = [u \in Users |-> {}] /\ Analyses = [u \in Users |-> 0]
    BY DEF WalletInit, Owned, Analyses
  <2> QED
    BY <2>1, <2>2 DEF S!Init, Balances, Owned, Analyses
<1>2. WalletInv /\ [WalletNext]_walletVars => [S!Next]_(S!shopVars)
  <2> SUFFICES ASSUME WalletInv, [WalletNext]_walletVars
               PROVE  S!Next \/ UNCHANGED S!shopVars
    OBVIOUS
  <2>1. CASE UNCHANGED <<credits, unlocked, sessions>>
    <3>1. Balances' = Balances
      BY <2>1, BalancesStay
    <3>2. Owned' = Owned /\ Analyses' = Analyses
      BY <2>1 DEF Owned, Analyses
    <3> QED
      BY <3>1, <3>2 DEF S!shopVars, Balances, Owned, Analyses
  <2> QED
    BY <2>1, GoodsStep, UnlockStep, AnalyseStep, TopUpStep
<1> QED
  BY <1>1, <1>2, WalletInvariant, PTL DEF WalletSpec, ImplementsShop, S!Spec
===============================================================================
