-------------------------------- MODULE AppProofs --------------------------------
(***************************************************************************)
(* Why the app's screens agree with what they are waiting for and with     *)
(* what they show, for any number of requests in flight, and why a ticket  *)
(* of the backoffice bets what it says, for any fixtures and categories.   *)
(*                                                                         *)
(* The argument follows a value from where it is made to where it is used: *)
(* a request carries only what its screen could hold (GoodRequest), an     *)
(* answer only what the server read at one moment (GoodAnswer), a screen   *)
(* only what such answers brought (ScreenInv), the popup of the gate only  *)
(* what the screen under it asked for (HeldInv).  BusyInv counts, for each *)
(* screen, the requests that its disabled controls stand for.              *)
(***************************************************************************)
EXTENDS App, FiniteSetTheorems, WellFoundedInduction, TLAPS

TicketRow ==
  [id : Ids, categoria : Categories, event : Options(Games),
   says : SUBSET Selections, byHand : BOOLEAN, coupon : Coupons,
   published : BOOLEAN, resultado : {"pending", "green", "red"}]

\* Words nobody typed are what the coupon bets, unless that was pasted.
Honest(byHand, says, bets) == ~byHand => bets \subseteq {says, OfficialCoupon}
GoodTickets == {t \in TicketRow : Honest(t.byHand, t.says, t.coupon)}

Matching(open, filled, all) ==
  /\ \A t \in all : t.categoria \in open \cap filled
  /\ \A c \in open \cap filled : \E t \in all : t.categoria = c

-----------------------------------------------------------------------------
(* Requests and answers.                                                   *)

CouponOf(dto) == IF dto.pasted # {} THEN dto.pasted ELSE buildBilheteShareUrl(dto.picks)

GoodRequest(kind, about) ==
  /\ kind = "create" =>
       /\ about.categoria \in Categories /\ about.event \in Options(Games)
       /\ about.says \in SUBSET Selections /\ about.byHand \in BOOLEAN
       /\ CouponOf(about) \in Coupons
       /\ Honest(about.byHand, about.says, CouponOf(about))
  /\ kind = "fromEvents" => about.categoria \in Categories /\ about.picks \subseteq Selections
  /\ kind = "betslip" => about.categoria \in Categories
  /\ kind = "edit" =>
       /\ about.categoria \in Categories /\ about.coupon \in Coupons
       /\ about.says \in SUBSET Selections /\ about.byHand \in BOOLEAN
       /\ Honest(about.byHand, about.says, about.coupon)
  /\ kind = "row" => \/ about.set = "resultado" /\ about.to \in {"green", "red"}
                     \/ about.set = "published" /\ about.to \in BOOLEAN
                     \/ about.set = "removed"
  /\ kind = "profile" => /\ about.avatar \in Options(Avatars)
                         /\ about.nickname \in Options(Nicknames)

GoodAnswer(kind, data) ==
  /\ kind = "feed" => /\ data.bilhetes \subseteq GoodTickets
                      /\ Matching(data.open, data.filled, data.bilhetes)
  /\ kind = "lists" => data.items \subseteq GoodTickets /\ data.events \subseteq Games
  /\ kind \in {"shared", "preview"} => data \in Games

\* An answer waits only where there is somebody to read it.
GoodCall(r) ==
  /\ DOMAIN r = {"kind", "at", "about", "mine", "data"}
  /\ r.at \in {"idle", "sent", "ok", "failed", "402"} /\ r.mine \in BOOLEAN
  /\ r.at \in {"ok", "failed", "402"} => r.mine
  /\ GoodRequest(r.kind, r.about)
  /\ r.at = "ok" => GoodAnswer(r.kind, r.data)

CallInv == DOMAIN call = Calls /\ \A c \in Calls : GoodCall(call[c])

-----------------------------------------------------------------------------
(* Screens.                                                                *)

FormInv(f) ==
  /\ DOMAIN f = {"event", "oddId", "says", "byHand", "legs", "pasted"}
  /\ f.pasted \in {{}, {OfficialCoupon}} /\ f.event \in Options(Games) /\ f.oddId \in Options(Odds)
  /\ f.says \in SUBSET Selections /\ f.byHand \in BOOLEAN
  /\ ~f.byHand => \A g \in f.event : \E o \in Odds : f.oddId = {o} /\ f.says = {<<g, o>>}

AdminInv ==
  /\ DOMAIN screen = {"at", "section", "items", "events", "busy", "form", "basket",
                      "approved", "edit"}
  /\ screen.items \subseteq GoodTickets /\ screen.edit \subseteq GoodTickets
  /\ screen.events \subseteq Games /\ screen.approved \subseteq Games
  /\ screen.busy \in BOOLEAN
  /\ screen.basket \subseteq Selections /\ IsFiniteSet(screen.basket)
  /\ FormInv(screen.form)

BilhetesInv ==
  /\ DOMAIN screen = {"at", "asked", "initialized", "open", "filled", "all", "cat", "popup"}
  /\ screen.all \subseteq GoodTickets
  /\ Matching(screen.open, screen.filled, screen.all)
  /\ screen.initialized \in BOOLEAN /\ (~screen.initialized => screen.filled = {})
  /\ screen.popup \subseteq Categories

TipsterInv ==
  /\ DOMAIN screen = {"at", "tab", "credits", "buy", "part"}
  /\ screen.tab \in {"chat", "aovivo", "tutorial"}
  /\ screen.tab = "chat" =>
       /\ DOMAIN screen.part
            = {"candidates", "found", "last", "needCredits", "busy", "upcoming"}
       /\ screen.part.busy \in BOOLEAN
  /\ screen.tab = "aovivo" =>
       /\ DOMAIN screen.part
            = {"list", "upcoming", "loading", "busyId", "result", "needCredits"}
       /\ screen.part.loading \in BOOLEAN

ScreenInv ==
  /\ screen.at \in Routes
  /\ screen.at = "home" =>
       DOMAIN screen = {"at", "planRank", "popup"} /\ screen.popup \subseteq Categories
  /\ screen.at = "bilhetes" => BilhetesInv
  /\ screen.at = "planos" => DOMAIN screen = {"at", "rank"}
  /\ screen.at = "greens" =>
       DOMAIN screen = {"at", "greens", "loading"} /\ screen.loading \in BOOLEAN
  /\ screen.at = "tipster" => TipsterInv
  /\ screen.at = "perfil" =>
       /\ DOMAIN screen = {"at", "me", "gam", "detail", "picker", "editing", "saving"}
       /\ screen.saving \in BOOLEAN
  /\ screen.at = "admin" => AdminInv

\* What is held for the screen under the popup can still run there.
HeldInv ==
  /\ \A h, k \in held : h = k
  /\ \A h \in held :
       /\ DOMAIN h = {"what", "about", "here"}
       /\ h.what = "coupon" => h.about \in GoodTickets
       /\ h.here =>
            /\ h.what \in {"cat", "coupon", "tipster"} => screen.at = "bilhetes"
            /\ h.what = "confirm" => On("chat") /\ ~screen.part.busy
            /\ h.what = "analyze" => On("aovivo")

-----------------------------------------------------------------------------
(* The account, and what the browser keeps.                                *)

AccountInv ==
  /\ plan \in Ranks /\ bought \subseteq Categories
  /\ balance \in 0..MaxBalance /\ changes \in 0..MaxChanges
  /\ tickets \subseteq GoodTickets
  /\ \A t, u \in tickets : t.id = u.id => t = u
  /\ member \in Members

BrowserInv == coupon \in Coupons /\ locked \in BOOLEAN

-----------------------------------------------------------------------------
(* What the controls that are disabled stand for.                          *)

Live(c) == call[c].at # "idle" /\ call[c].mine
Doing(K) == {c \in Calls : Live(c) /\ call[c].kind \in K}
AtMostOne(S) == \A x, y \in S : x = y

\* The flag is up exactly while the one request that it stands for is on the way.
Waits(flag, K) == AtMostOne(Doing(K)) /\ (flag <=> Doing(K) # {})

\* The flag is not up for nothing.
Owed(flag, K) == flag => Doing(K) # {}

BusyInv ==
  /\ On("chat") => Waits(screen.part.busy, {"search", "analyze"})
  /\ On("aovivo") =>
       /\ Waits(screen.part.loading, {"games"})
       /\ \A g \in screen.part.busyId : \E c \in Doing({"analyze"}) : call[c].about = g
  /\ screen.at = "perfil" => Waits(screen.saving, {"profile"})
  /\ screen.at = "greens" => Waits(screen.loading, {"historico"})
  /\ screen.at = "admin" => Owed(screen.busy, BusyKinds)

ClientInv == CallInv /\ ScreenInv /\ HeldInv /\ BusyInv

AppInv == ClientInv /\ AccountInv /\ BrowserInv

-----------------------------------------------------------------------------
(* Requests.                                                               *)

\* A set of numbers has a least one.
LEMMA LeastIsThere ==
  ASSUME NEW S \in SUBSET Nat, S # {}
  PROVE  Next1(S) \in S
<1>1. PICK x \in S : \A y \in S : ~(<<y, x>> \in OpToRel(<, Nat))
  <2> HIDE DEF OpToRel, IsWellFoundedOn
  <2> QED
    BY NatLessThanWellFounded, WFMin
<1>2. \A y \in S : x <= y
  <2> SUFFICES ASSUME NEW y \in S, ~(x <= y) PROVE FALSE
    OBVIOUS
  <2>1. PICK pair : pair = <<y, x>>
    OBVIOUS
  <2>2. pair \in Nat \X Nat /\ pair[1] < pair[2]
    BY <2>1
  <2>3. pair \in OpToRel(<, Nat)
    BY <2>2, Zenon DEF OpToRel
  <2> QED
    BY <1>1, <2>1, <2>3, Zenon
<1> QED
  BY <1>2 DEF Next1

\* Nothing is asked of a request that is idle or just made, but its own kind.
LEMMA NewCalls ==
  /\ GoodCall(Idle)
  /\ \A kind, about : GoodRequest(kind, about) => GoodCall(Request(kind, about))
  BY DEF GoodCall, GoodRequest, Idle, Request

\* ... asked for nothing: the reads, and what carries nothing.
Plain ==
  Reads \cup {"gamification", "sync", "syncEvents", "generate", "shared", "analyze", "late"}

LEMMA PlainRequests ==
  ASSUME NEW kind \in Plain, NEW about
  PROVE  GoodRequest(kind, about)
  BY DEF Plain, Reads, GoodRequest

\* Only one slot changes.
Only1(c) == \A d \in Calls \ {c} : call'[d] = call[d]

LEMMA AskEffect ==
  ASSUME CallInv, NEW kind, NEW about, GoodRequest(kind, about), Ask(kind, about)
  PROVE  /\ CallInv'
         /\ \E n \in Calls : /\ ~Live(n) /\ Only1(n)
                             /\ call'[n] = Request(kind, about)
<1>1. Unused \in SUBSET Nat /\ Unused # {} /\ Unused \subseteq Calls
  BY ClientAssumption DEF Ask, Unused
<1>2. PICK n : n = Next1(Unused)
  OBVIOUS
<1>3. n \in Calls /\ call[n].at = "idle"
  BY <1>1, <1>2, LeastIsThere DEF Unused
<1>4. call' = [call EXCEPT ![n] = Request(kind, about)]
  BY <1>2 DEF Ask
<1> QED
  BY <1>3, <1>4, NewCalls DEF CallInv, Live, Only1

LEMMA UnheardEffect ==
  ASSUME CallInv, NEW kind, NEW about, GoodRequest(kind, about), AskUnheard(kind, about)
  PROVE  /\ CallInv'
         /\ \E n \in Calls : ~Live(n) /\ Only1(n) /\ ~call'[n].mine
<1>1. Unused \in SUBSET Nat /\ Unused # {} /\ Unused \subseteq Calls
  BY ClientAssumption DEF AskUnheard, Unused
<1>2. PICK n : n = Next1(Unused)
  OBVIOUS
<1>3. n \in Calls /\ call[n].at = "idle"
  BY <1>1, <1>2, LeastIsThere DEF Unused
<1>4. PICK r : r = [Request(kind, about) EXCEPT !.mine = FALSE]
  OBVIOUS
<1>5. call' = [call EXCEPT ![n] = r]
  BY <1>2, <1>4 DEF AskUnheard
<1>6. GoodCall(r) /\ ~r.mine
  BY <1>4 DEF GoodCall, Request
<1> QED
  BY <1>3, <1>5, <1>6 DEF CallInv, Live, Only1

LEMMA DoneEffect ==
  ASSUME CallInv, NEW c \in Calls, Done(c)
  PROVE  CallInv' /\ ~Live(c)' /\ Only1(c)
  BY NewCalls DEF CallInv, Done, Live, Only1, Idle

LEMMA InsteadEffect ==
  ASSUME CallInv, NEW c \in Calls, NEW kind, NEW about, GoodRequest(kind, about),
         Instead(c, kind, about)
  PROVE  CallInv' /\ call'[c] = Request(kind, about) /\ Only1(c)
  BY NewCalls DEF CallInv, Instead, Only1

\* An answer leaves kind, subject and screen of its request as they were.
LEMMA ReplyEffect ==
  ASSUME CallInv, NEW c \in Calls, call[c].at \in {"sent", "ok"},
         NEW at \in {"ok", "failed", "402"}, NEW data, Reply(c, at, data),
         at = "ok" => GoodAnswer(call[c].kind, data)
  PROVE  /\ CallInv' /\ Only1(c) /\ (Live(c)' <=> Live(c))
         /\ Live(c) => call'[c].kind = call[c].kind /\ call'[c].about = call[c].about
<1>1. CASE call[c].mine
  BY <1>1 DEF Reply, CallInv, GoodCall, Live, Only1
<1>2. CASE ~call[c].mine
  BY <1>2, NewCalls DEF Reply, CallInv, GoodCall, Live, Only1, Idle
<1> QED
  BY <1>1, <1>2

\* What a screen asks for as it mounts: each kind once, beside what base keeps.
LEMMA AsksEffect ==
  ASSUME NEW base, DOMAIN base = Calls, \A c \in Calls : GoodCall(base[c]),
         NEW kinds \in SUBSET Plain, Asks(base, kinds), NEW K,
         \A c \in Calls : base[c].at # "idle" /\ base[c].mine => base[c].kind \notin K
  PROVE  /\ CallInv'
         /\ kinds \cap K = {} => Doing(K)' = {}
         /\ \A k : kinds \cap K = {k} => AtMostOne(Doing(K)') /\ Doing(K)' # {}
<1> DEFINE unused == {c \in Calls : base[c].at = "idle"}
           slots == {f \in [kinds -> unused] : \A j, k \in kinds : f[j] = f[k] => j = k}
<1> PICK slot : slot = CHOOSE f \in slots : TRUE
  OBVIOUS
<1>0. slots # {} /\ call' = [c \in Calls |-> IF \E k \in kinds : slot[k] = c
                                THEN Request(CHOOSE k \in kinds : slot[k] = c, {})
                                ELSE base[c]]
  BY Zenon DEF Asks
<1>1. /\ slot \in [kinds -> unused] /\ \A j, k \in kinds : slot[j] = slot[k] => j = k
      /\ call' = [c \in Calls |-> IF \E k \in kinds : slot[k] = c
                                THEN Request(CHOOSE k \in kinds : slot[k] = c, {})
                                ELSE base[c]]
  <2> HIDE DEF slots
  <2>1. slot \in slots
    BY <1>0
  <2> QED
    BY <1>0, <2>1, Zenon DEF slots
<1>2. ASSUME NEW k \in kinds
      PROVE  slot[k] \in Calls /\ call'[slot[k]] = Request(k, {})
  <2>1. slot[k] \in Calls /\ k = CHOOSE j \in kinds : slot[j] = slot[k]
    BY <1>1
  <2> QED
    BY <1>1, <2>1
<1>3. ASSUME NEW c \in Calls, ~\E k \in kinds : slot[k] = c PROVE call'[c] = base[c]
  BY <1>1, <1>3
<1>4. CallInv'
  <2>1. DOMAIN call' = Calls
    BY <1>1
  <2>2. ASSUME NEW c \in Calls PROVE GoodCall(call'[c])
    BY <1>2, <1>3, NewCalls, PlainRequests
  <2> QED
    BY <2>1, <2>2 DEF CallInv
<1>5. \A c \in Calls : c \in Doing(K)' <=> \E k \in kinds \cap K : slot[k] = c
  <2> SUFFICES ASSUME NEW c \in Calls
               PROVE  c \in Doing(K)' <=> \E k \in kinds \cap K : slot[k] = c
    OBVIOUS
  <2>1. CASE \E k \in kinds : slot[k] = c
    <3>1. PICK k \in kinds : slot[k] = c
      BY <2>1
    <3>2. call'[c] = Request(k, {}) /\ \A j \in kinds : slot[j] = c => j = k
      BY <1>1, <1>2, <3>1
    <3>3. c \in Doing(K)' <=> k \in K
      BY <3>2 DEF Doing, Live, Request
    <3>4. (\E j \in kinds \cap K : slot[j] = c) <=> k \in K
      BY <3>1, <3>2
    <3> QED
      BY <3>3, <3>4
  <2>2. CASE ~\E k \in kinds : slot[k] = c
    BY <1>3, <2>2 DEF Doing, Live
  <2> QED
    BY <2>1, <2>2
<1>6. Doing(K)' \subseteq Calls
  BY DEF Doing
<1>7. \A k \in kinds : slot[k] \in Calls
  BY <1>1
<1> PICK doing : doing = Doing(K)'
  OBVIOUS
<1>8. ASSUME kinds \cap K = {} PROVE doing = {}
  BY <1>5, <1>6, <1>8
<1>9. ASSUME NEW k, kinds \cap K = {k} PROVE AtMostOne(doing) /\ doing # {}
  <2>1. k \in kinds \cap K /\ \A j \in kinds \cap K : j = k
    BY <1>9
  <2>2. slot[k] \in doing /\ \A x \in doing : x = slot[k]
    BY <1>5, <1>6, <1>7, <2>1, ZenonT(60)
  <2> QED
    BY <2>2 DEF AtMostOne
<1> QED
  BY <1>4, <1>8, <1>9


\* The member goes to another screen: only what that one asks for is waited for.
LEMMA GoEffect ==
  ASSUME CallInv, NEW next, NEW kinds \in SUBSET Plain, Go(next, kinds), NEW K
  PROVE  /\ CallInv' /\ screen' = next
         /\ kinds \cap K = {} => Doing(K)' = {}
         /\ \A k : kinds \cap K = {k} => AtMostOne(Doing(K)') /\ Doing(K)' # {}
<1> PICK base : base = Orphans
  OBVIOUS
<1>1. DOMAIN base = Calls
  BY DEF Orphans
<1>2. ASSUME NEW c \in Calls
      PROVE  GoodCall(base[c]) /\ (base[c].at = "idle" \/ ~base[c].mine)
  <2>1. CASE call[c].at = "sent" /\ call[c].kind \notin Reads
    BY <2>1 DEF Orphans, CallInv, GoodCall
  <2>2. CASE ~(call[c].at = "sent" /\ call[c].kind \notin Reads)
    BY <2>2, NewCalls DEF Orphans, Idle
  <2> QED
    BY <2>1, <2>2
<1>3. screen' = next /\ Asks(base, kinds)
  BY DEF Go
<1> QED
  BY <1>1, <1>2, <1>3, AsksEffect

\* Another tab of the tipster's page: the page still waits for balances.
LEMMA TabEffect ==
  ASSUME CallInv, NEW kinds \in SUBSET Plain, Asks(TabOrphans, kinds),
         NEW K, K \cap {"me", "late"} = {}
  PROVE  /\ CallInv'
         /\ kinds \cap K = {} => Doing(K)' = {}
         /\ \A k : kinds \cap K = {k} => AtMostOne(Doing(K)') /\ Doing(K)' # {}
<1> PICK base : base = TabOrphans
  OBVIOUS
<1>1. DOMAIN base = Calls
  BY DEF TabOrphans
<1>2. ASSUME NEW c \in Calls
      PROVE  /\ GoodCall(base[c])
             /\ base[c].at # "idle" /\ base[c].mine => base[c].kind \in {"me", "late"}
  <2>0. GoodCall(call[c])
    BY DEF CallInv
  <2>1. CASE call[c].kind \in {"me", "late"}
    BY <2>0, <2>1 DEF TabOrphans
  <2>2. CASE call[c].kind = "analyze"
    <3>1. base[c] = [call[c] EXCEPT !.kind = "late"]
      BY <2>2 DEF TabOrphans
    <3>2. GoodRequest("late", call[c].about) /\ GoodAnswer("late", call[c].data)
      BY DEF GoodRequest, GoodAnswer
    <3> QED
      BY <2>0, <3>1, <3>2 DEF GoodCall
  <2>3. CASE call[c].kind \notin {"me", "late", "analyze"}
    <3>1. base[c] = IF call[c].at = "sent" /\ call[c].kind \notin Reads
                      THEN [call[c] EXCEPT !.mine = FALSE] ELSE Idle
      BY <2>3 DEF TabOrphans, Orphans
    <3>2. CASE call[c].at = "sent" /\ call[c].kind \notin Reads
      BY <2>0, <3>1, <3>2 DEF GoodCall
    <3>3. CASE ~(call[c].at = "sent" /\ call[c].kind \notin Reads)
      BY <3>1, <3>3, NewCalls DEF Idle
    <3> QED
      BY <3>2, <3>3
  <2> QED
    BY <2>1, <2>2, <2>3
<1>3. \A c \in Calls : base[c].at # "idle" /\ base[c].mine => base[c].kind \notin K
  BY <1>2
<1>4. Asks(base, kinds)
  OBVIOUS
<1> QED
  BY <1>1, <1>2, <1>3, <1>4, AsksEffect

-----------------------------------------------------------------------------
(* What is waited for, of the kinds in K, as requests come and go.         *)

LEMMA AskWaits ==
  ASSUME CallInv, NEW kind, NEW about, GoodRequest(kind, about), Ask(kind, about), NEW K
  PROVE  /\ CallInv'
         /\ kind \notin K => Doing(K)' = Doing(K)
         /\ kind \in K => Doing(K)' # {}
         /\ kind \in K /\ Doing(K) = {} => AtMostOne(Doing(K)')
<1>1. PICK n \in Calls : ~Live(n) /\ Only1(n) /\ call'[n] = Request(kind, about)
  BY AskEffect
<1>2. \A c \in Calls \ {n} : c \in Doing(K)' <=> c \in Doing(K)
  BY <1>1 DEF Doing, Live, Only1
<1>3. n \notin Doing(K) /\ (n \in Doing(K)' <=> kind \in K)
  BY <1>1 DEF Doing, Live, Request
<1> PICK S, T : S = Doing(K) /\ T = Doing(K)'
  OBVIOUS
<1>4. S \subseteq Calls /\ T \subseteq Calls
  BY DEF Doing
<1>5. kind \notin K => T = S
  BY <1>2, <1>3, <1>4
<1>6. /\ kind \in K => T # {}
      /\ kind \in K /\ S = {} => AtMostOne(T)
  BY <1>2, <1>3, <1>4 DEF AtMostOne
<1> QED
  BY <1>5, <1>6, AskEffect

LEMMA DoneWaits ==
  ASSUME CallInv, NEW c \in Calls, Done(c), NEW K
  PROVE  /\ CallInv'
         /\ c \notin Doing(K) => Doing(K)' = Doing(K)
         /\ c \in Doing(K) /\ AtMostOne(Doing(K)) => Doing(K)' = {}
<1>1. CallInv' /\ ~Live(c)' /\ Only1(c)
  BY DoneEffect
<1>2. \A d \in Calls \ {c} : d \in Doing(K)' <=> d \in Doing(K)
  BY <1>1 DEF Doing, Live, Only1
<1>3. c \notin Doing(K)'
  BY <1>1 DEF Doing
<1> PICK S, T : S = Doing(K) /\ T = Doing(K)'
  OBVIOUS
<1>4. S \subseteq Calls /\ T \subseteq Calls
  BY DEF Doing
<1> QED
  BY <1>1, <1>2, <1>3, <1>4 DEF AtMostOne

LEMMA InsteadWaits ==
  ASSUME CallInv, NEW c \in Calls, NEW kind, NEW about, GoodRequest(kind, about),
         Instead(c, kind, about), NEW K
  PROVE  /\ CallInv'
         /\ c \notin Doing(K) /\ kind \notin K => Doing(K)' = Doing(K)
         /\ c \in Doing(K) /\ AtMostOne(Doing(K)) /\ kind \notin K => Doing(K)' = {}
         /\ c \in Doing(K) /\ kind \in K => Doing(K)' # {}
<1>1. CallInv' /\ call'[c] = Request(kind, about) /\ Only1(c)
  BY InsteadEffect
<1>2. \A d \in Calls \ {c} : d \in Doing(K)' <=> d \in Doing(K)
  BY <1>1 DEF Doing, Live, Only1
<1>3. c \in Doing(K)' <=> kind \in K
  BY <1>1 DEF Doing, Live, Request
<1> PICK S, T : S = Doing(K) /\ T = Doing(K)'
  OBVIOUS
<1>4. S \subseteq Calls /\ T \subseteq Calls
  BY DEF Doing
<1> QED
  BY <1>1, <1>2, <1>3, <1>4 DEF AtMostOne

\* Who waits goes on waiting.
SameLive ==
  \A c \in Calls : /\ Live(c)' <=> Live(c)
                   /\ Live(c) => /\ call'[c].kind = call[c].kind
                                 /\ call'[c].about = call[c].about

LEMMA StillWaits ==
  ASSUME SameLive, NEW K
  PROVE  Doing(K)' = Doing(K)
  BY DEF SameLive, Doing

LEMMA UnheardWaits ==
  ASSUME CallInv, NEW kind, NEW about, GoodRequest(kind, about), AskUnheard(kind, about)
  PROVE  CallInv' /\ SameLive
<1>1. PICK n \in Calls : ~Live(n) /\ Only1(n) /\ ~call'[n].mine
  BY UnheardEffect
<1> QED
  BY <1>1, UnheardEffect DEF SameLive, Live, Only1

\* The requests a screen reads an answer of are its own.
LEMMA Heard ==
  ASSUME CallInv, NEW c \in Calls, NEW kind, Answered(c, kind) \/ Failed(c, kind), NEW K
  PROVE  c \in Doing(K) <=> kind \in K
  BY DEF CallInv, GoodCall, Answered, Failed, Doing, Live

\* Where only requests come and go of which the screen's controls do not speak, the
\* screen itself is as it was, and what is held too, or the popup is closed.
LEMMA StandStill ==
  ASSUME ClientInv, CallInv', screen' = screen, held' = held \/ held' = {}, SameLive
  PROVE  ClientInv'
<1>1. ScreenInv'
  BY DEF ClientInv, ScreenInv, AdminInv, BilhetesInv, TipsterInv, FormInv, Matching
<1>2. HeldInv'
  BY DEF ClientInv, HeldInv, On
<1>3. \A K : Doing(K)' = Doing(K)
  BY StillWaits
<1>4. \A c \in Doing({"analyze"}) : call'[c].about = call[c].about
  BY DEF SameLive, Doing
<1>5. BusyInv'
  BY <1>3, <1>4 DEF ClientInv, BusyInv, Waits, Owed, On
<1> QED
  BY <1>1, <1>2, <1>5 DEF ClientInv

-----------------------------------------------------------------------------
(* The server.                                                             *)

\* Every answer, and every failure.
Reading(c) ==
  \/ ServeFeed(c) \/ ServeHistorico(c) \/ ServeMe(c) \/ Break(c) \/ ServeUpcoming(c)
  \/ ServeSearch(c) \/ ServeGames(c) \/ ServeGamification(c) \/ ServeLists(c)
  \/ ServePreview(c) \/ ServeSync(c) \/ ServeGenerate(c)
Writing(c) ==
  \/ ServeAnalysis(c) \/ updateProfile(c) \/ create(c) \/ createFromEvents(c)
  \/ importBetslip(c) \/ setRow(c) \/ update(c)

LEMMA Served ==
  ASSUME ClientInv, NEW c \in Calls, call[c].at \in {"sent", "ok"},
         NEW at \in {"ok", "failed", "402"}, NEW data, Reply(c, at, data),
         at = "ok" => GoodAnswer(call[c].kind, data), UNCHANGED <<screen, held>>
  PROVE  ClientInv'
<1>1. CallInv
  BY DEF ClientInv
<1>2. CallInv' /\ Only1(c) /\ (Live(c)' <=> Live(c))
      /\ (Live(c) => call'[c].kind = call[c].kind /\ call'[c].about = call[c].about)
  BY <1>1, ReplyEffect
<1>3. SameLive
  BY <1>2 DEF SameLive, Only1, Live
<1> QED
  BY <1>2, <1>3, StandStill

\* What the server reads it reads at one moment.
LEMMA FeedIsGood ==
  ASSUME AccountInv
  PROVE  GoodAnswer("feed",
           [open |-> Unlocked, filled |-> {t.categoria : t \in Published},
            bilhetes |-> OfCategories(
              {x \in Categories : plan >= MinRank[x] \/ x \in bought})])
<1>1. OfCategories({x \in Categories : plan >= MinRank[x] \/ x \in bought})
        = {t \in Published : t.categoria \in Unlocked}
  BY DEF OfCategories, Unlocked
<1>2. Published \subseteq GoodTickets
  BY DEF AccountInv, Published
<1> QED
  BY <1>1, <1>2 DEF GoodAnswer, Matching

LEMMA ReadingKept ==
  ASSUME AppInv, NEW c \in Calls, Reading(c)
  PROVE  AppInv'
<1> USE DEF AppInv
<1>1. UNCHANGED <<screen, account, browser>>
  BY DEF Reading, ServeFeed, ServeHistorico, ServeMe, Break, ServeUpcoming, ServeSearch,
         ServeGames, ServeGamification, ServeLists, ServePreview, ServeSync, ServeGenerate
<1>2. AccountInv' /\ BrowserInv'
  BY <1>1 DEF AccountInv, BrowserInv, account, browser
<1>3. UNCHANGED <<screen, held>>
  BY <1>1 DEF browser
<1>4. ASSUME NEW kind \in {"me", "historico", "upcoming", "search", "games", "gamification",
                           "sync", "syncEvents", "generate"},
             NEW data, Sent(c, kind), Reply(c, "ok", data)
      PROVE  ClientInv'
  BY <1>3, <1>4, Served DEF Sent, GoodAnswer
<1>5. ASSUME ServeFeed(c) PROVE ClientInv'
  BY <1>3, <1>5, Served, FeedIsGood DEF ServeFeed, Sent
<1>6. ASSUME Break(c) PROVE ClientInv'
  BY <1>3, <1>6, Served DEF Break
<1>7. ASSUME ServeLists(c) PROVE ClientInv'
  <2>1. PICK items \in {{}, tickets}, events \in {{}, Games} :
          Reply(c, "ok", [items |-> items, events |-> events])
    BY <1>7 DEF ServeLists
  <2>2. GoodAnswer("lists", [items |-> items, events |-> events])
    BY DEF GoodAnswer, AccountInv
  <2> QED
    BY <1>3, <1>7, <2>1, <2>2, Served DEF ServeLists, Sent
<1>8. ASSUME ServePreview(c) PROVE ClientInv'
  <2>1. PICK g \in Games : Reply(c, "ok", g)
    BY <1>8 DEF ServePreview
  <2>2. call[c].at = "sent" /\ GoodAnswer(call[c].kind, g)
    BY <1>8 DEF ServePreview, Sent, GoodAnswer
  <2> QED
    BY <1>3, <2>1, <2>2, Served
<1>9. ClientInv'
  BY <1>4, <1>5, <1>6, <1>7, <1>8
     DEF Reading, ServeHistorico, ServeMe, ServeUpcoming, ServeSearch, ServeGames,
         ServeGamification, ServeSync, ServeGenerate
<1> QED
  BY <1>2, <1>9

\* What the server writes it answers, and it writes to the account only.
LEMMA WritingAnswers ==
  ASSUME AppInv, NEW c \in Calls, Writing(c)
  PROVE  ClientInv' /\ UNCHANGED <<screen, browser>>
<1>1. UNCHANGED <<screen, browser>>
  BY DEF Writing, ServeAnalysis, updateProfile, create, createFromEvents, importBetslip,
         setRow, update
<1>2. ClientInv /\ UNCHANGED <<screen, held>>
  BY <1>1 DEF browser, AppInv
<1>3. call[c].at = "sent" /\ call[c].kind \in {"analyze", "late", "profile", "create",
        "fromEvents", "betslip", "row", "edit"}
  BY DEF Writing, ServeAnalysis, updateProfile, create, createFromEvents, importBetslip,
         setRow, update, Sent
<1>4. \A data : GoodAnswer(call[c].kind, data)
  BY <1>3 DEF GoodAnswer
<1>5. \E at \in {"ok", "failed", "402"} : \E data : Reply(c, at, data)
  <2>1. CASE ServeAnalysis(c)
    BY <2>1 DEF ServeAnalysis
  <2>2. CASE updateProfile(c)
    BY <2>2 DEF updateProfile
  <2>3. CASE createFromEvents(c)
    <3>1. PICK at \in {"ok", "failed"} : Reply(c, at, {})
      BY <2>3 DEF createFromEvents
    <3> QED
      BY <3>1
  <2>4. CASE create(c) \/ importBetslip(c)
    <3>1. PICK at \in {"ok", "failed"} : Reply(c, at, {})
      BY <2>4 DEF create, importBetslip
    <3> QED
      BY <3>1
  <2>5. CASE setRow(c)
    <3>1. PICK at \in {"ok", "failed"} : Reply(c, at, {})
      BY <2>5 DEF setRow
    <3> QED
      BY <3>1
  <2>6. CASE update(c)
    <3>1. PICK at \in {"ok", "failed"} : Reply(c, at, {})
      BY <2>6 DEF update
    <3> QED
      BY <3>1
  <2> QED
    BY <2>1, <2>2, <2>3, <2>4, <2>5, <2>6 DEF Writing
<1>6. PICK at, data : at \in {"ok", "failed", "402"} /\ Reply(c, at, data)
  BY <1>5
<1> QED
  BY <1>1, <1>2, <1>3, <1>4, <1>6, Served

LEMMA NewTicket ==
  ASSUME NEW id \in Ids, NEW categoria \in Categories, NEW event \in Options(Games),
         NEW says \in SUBSET Selections, NEW byHand \in BOOLEAN, NEW shareUrl \in Coupons,
         Honest(byHand, says, shareUrl)
  PROVE  /\ Bilhete(id, categoria, event, says, byHand, shareUrl) \in GoodTickets
         /\ Bilhete(id, categoria, event, says, byHand, shareUrl).id = id
  BY DEF Bilhete, GoodTickets, TicketRow

\* A ticket that names nothing and bets nothing.
LEMMA BlankTicket ==
  ASSUME NEW id \in Ids, NEW categoria \in Categories, NEW event \in Options(Games)
  PROVE  /\ Bilhete(id, categoria, event, {}, FALSE, {}) \in GoodTickets
         /\ Bilhete(id, categoria, event, {}, FALSE, {}).id = id
<1>1. {} \in SUBSET Selections /\ {} \in Coupons /\ Honest(FALSE, {}, {})
  BY DEF Coupons, Options, Honest
<1> QED
  BY <1>1, ZenonT(60) DEF Bilhete, GoodTickets, TicketRow

\* Rows with ids nobody has.
LEMMA TicketsAdded ==
  ASSUME AccountInv, NEW new \in SUBSET GoodTickets, tickets' = tickets \cup new,
         \A t \in new : t.id \in Fresh, \A t, u \in new : t.id = u.id => t = u
  PROVE  tickets' \subseteq GoodTickets /\ \A t, u \in tickets' : t.id = u.id => t = u
<1>1. \A t \in tickets : t.id \in Spoken
  BY DEF Spoken
<1>2. \A t \in new, u \in tickets : t.id # u.id
  BY <1>1 DEF Fresh
<1> QED
  BY <1>2 DEF AccountInv

LEMMA TicketAdded ==
  ASSUME AccountInv, NEW t \in GoodTickets, t.id \in Fresh, tickets' = tickets \cup {t}
  PROVE  tickets' \subseteq GoodTickets /\ \A x, y \in tickets' : x.id = y.id => x = y
<1>1. \A x \in tickets : x.id \in Spoken
  BY DEF Spoken
<1>2. \A x \in tickets : x.id # t.id
  BY <1>1 DEF Fresh
<1> QED
  BY <1>2 DEF AccountInv

\* The row of one id, changed or gone.
LEMMA TicketChanged ==
  ASSUME AccountInv, NEW c, NEW next \in SUBSET GoodTickets,
         tickets' = (tickets \ Row(c)) \cup next,
         \A t \in next : t.id = call[c].about.id, \A t, u \in next : t = u
  PROVE  tickets' \subseteq GoodTickets /\ \A t, u \in tickets' : t.id = u.id => t = u
  BY DEF AccountInv, Row

LEMMA WritingKept ==
  ASSUME AppInv, NEW c \in Calls, Writing(c)
  PROVE  AppInv'
<1> PICK dto : dto = call[c].about
  OBVIOUS
<1>1. ClientInv' /\ BrowserInv' /\ AccountInv /\ GoodRequest(call[c].kind, dto)
  BY WritingAnswers DEF AppInv, BrowserInv, browser, ClientInv, CallInv, GoodCall
<1>2. SUFFICES AccountInv'
  BY <1>1 DEF AppInv
<1>3. ASSUME UNCHANGED <<plan, bought, balance, member, changes>>,
             tickets' \subseteq GoodTickets, \A t, u \in tickets' : t.id = u.id => t = u
      PROVE  AccountInv'
  BY <1>1, <1>3 DEF AccountInv
<1>4. CASE ServeAnalysis(c)
  <2>1. balance' \in 0..MaxBalance
    BY <1>1, <1>4, ClientAssumption DEF ServeAnalysis, AccountInv
  <2> QED
    BY <1>1, <1>4, <2>1 DEF ServeAnalysis, AccountInv
<1>5. CASE updateProfile(c)
  <2>1. dto.avatar \in Options(Avatars) /\ dto.nickname \in Options(Nicknames)
    BY <1>1, <1>5 DEF updateProfile, Sent, GoodRequest
  <2>2. member' \in Members
    BY <1>1, <1>5, <2>1 DEF updateProfile, AccountInv, Members
  <2> QED
    BY <1>1, <1>5, <2>2 DEF updateProfile, AccountInv
<1>6. CASE create(c)
  <2> PICK id, t : /\ id = Only(Fresh)
                   /\ t = Bilhete(id, dto.categoria, dto.event, dto.says, dto.byHand, CouponOf(dto))
    OBVIOUS
  <2>1. id \in Fresh /\ id \in Ids
    BY <1>6 DEF create, Fresh, Ids, Only
  <2>2. GoodRequest("create", dto)
    BY <1>1, <1>6 DEF create, Sent
  <2>3. t \in GoodTickets /\ t.id = id
    BY <2>1, <2>2, NewTicket DEF GoodRequest
  <2>4. tickets' = tickets \cup {t}
    BY <1>6 DEF create, CouponOf
  <2> QED
    BY <1>1, <1>3, <1>6, <2>1, <2>3, <2>4, TicketAdded DEF create
<1>7. CASE createFromEvents(c)
  <2>1. call[c].about.categoria \in Categories /\ call[c].about.picks \subseteq Selections
    BY <1>1, <1>7 DEF createFromEvents, Sent, GoodRequest
  <2>0. PICK made \in SUBSET {s \in call[c].about.picks :
                                 s[1] \notin UNION {t.event : t \in tickets}} :
          \E id \in [made -> Fresh] :
            /\ \A s, u \in made : id[s] = id[u] => s = u
            /\ tickets' = tickets \cup
                 {Bilhete(id[s], call[c].about.categoria, {s[1]}, {s}, FALSE, {}) : s \in made}
    BY <1>7, Zenon DEF createFromEvents
  <2>2. PICK id \in [made -> Fresh] :
          /\ \A s, u \in made : id[s] = id[u] => s = u
          /\ tickets' = tickets \cup
               {Bilhete(id[s], call[c].about.categoria, {s[1]}, {s}, FALSE, {}) : s \in made}
    BY <2>0, Zenon
  <2>3. ASSUME NEW s \in made
        PROVE  /\ Bilhete(id[s], call[c].about.categoria, {s[1]}, {s}, FALSE, {}) \in GoodTickets
               /\ Bilhete(id[s], call[c].about.categoria, {s[1]}, {s}, FALSE, {}).id = id[s]
    <3>1. id[s] \in Ids /\ s \in Selections
      BY <2>1, <2>2 DEF Fresh, Ids
    <3>2. {s[1]} \in Options(Games) /\ {s} \in SUBSET Selections /\ {} \in Coupons
          /\ Honest(FALSE, {s}, {})
      BY <3>1 DEF Selections, Options, Coupons, Honest
    <3> PICK i, categoria, event, says, byHand, bets :
          /\ i = id[s] /\ categoria = call[c].about.categoria /\ event = {s[1]}
          /\ says = {s} /\ byHand = FALSE /\ bets = {}
      OBVIOUS
    <3>3. /\ i \in Ids /\ categoria \in Categories /\ event \in Options(Games)
          /\ says \in SUBSET Selections /\ byHand \in BOOLEAN /\ bets \in Coupons
          /\ Honest(byHand, says, bets)
      BY <2>1, <3>1, <3>2
    <3>4. /\ Bilhete(i, categoria, event, says, byHand, bets) \in GoodTickets
          /\ Bilhete(i, categoria, event, says, byHand, bets).id = i
      BY <3>3, NewTicket
    <3> QED
      BY <3>4
  <2> DEFINE new == {Bilhete(id[s], call[c].about.categoria, {s[1]}, {s}, FALSE, {}) : s \in made}
  <2>4. /\ new \in SUBSET GoodTickets /\ \A t \in new : t.id \in Fresh
        /\ \A t, u \in new : t.id = u.id => t = u
    <3> DEFINE made1(s) == Bilhete(id[s], call[c].about.categoria, {s[1]}, {s}, FALSE, {})
    <3>1. \A s \in made : made1(s) \in GoodTickets /\ made1(s).id = id[s] /\ id[s] \in Fresh
      BY <2>2, <2>3
    <3>2. new = {made1(s) : s \in made}
      OBVIOUS
    <3> HIDE DEF made1, new
    <3> QED
      BY <2>2, <3>1, <3>2
  <2>5. tickets' = tickets \cup new
    BY <2>2, Zenon
  <2> HIDE DEF new
  <2> QED
    BY <1>1, <1>3, <1>7, <2>4, <2>5, TicketsAdded DEF createFromEvents
<1>8. CASE importBetslip(c)
  <2>0. PICK made \in SUBSET Fresh :
          \E event \in [made -> Options(Games)] :
            tickets' = tickets \cup
              {Bilhete(id, call[c].about.categoria, event[id], {}, FALSE, {}) : id \in made}
    BY <1>8, Zenon DEF importBetslip
  <2>1. PICK event \in [made -> Options(Games)] :
          tickets' = tickets \cup
            {Bilhete(id, call[c].about.categoria, event[id], {}, FALSE, {}) : id \in made}
    BY <2>0, Zenon
  <2>2. call[c].about.categoria \in Categories
    BY <1>1, <1>8 DEF importBetslip, Sent, GoodRequest
  <2> DEFINE row(id) == Bilhete(id, call[c].about.categoria, event[id], {}, FALSE, {})
             new == {row(id) : id \in made}
  <2>3. ASSUME NEW id \in made PROVE row(id) \in GoodTickets /\ row(id).id = id
    <3> PICK categoria, face : categoria = call[c].about.categoria /\ face = event[id]
      OBVIOUS
    <3>1. id \in Ids /\ categoria \in Categories /\ face \in Options(Games)
      BY <2>1, <2>2 DEF Fresh, Ids
    <3>2. /\ Bilhete(id, categoria, face, {}, FALSE, {}) \in GoodTickets
          /\ Bilhete(id, categoria, face, {}, FALSE, {}).id = id
      BY <3>1, BlankTicket
    <3> QED
      BY <3>2
  <2>5. tickets' = tickets \cup new
    BY <2>1, Zenon
  <2> HIDE DEF row
  <2>4. /\ new \in SUBSET GoodTickets /\ \A t \in new : t.id \in Fresh
        /\ \A t, u \in new : t.id = u.id => t = u
    BY <2>3
  <2> HIDE DEF new
  <2> QED
    BY <1>1, <1>3, <1>8, <2>4, <2>5, TicketsAdded DEF importBetslip
<1>9. CASE setRow(c)
  <2> DEFINE graded == {[t EXCEPT !.resultado = dto.to] : t \in Row(c)}
             listed == {[t EXCEPT !.published = dto.to] : t \in Row(c)}
  <2>1. \/ dto.set = "resultado" /\ dto.to \in {"green", "red"}
        \/ dto.set = "published" /\ dto.to \in BOOLEAN
        \/ dto.set = "removed"
    BY <1>1, <1>9 DEF setRow, Sent, GoodRequest
  <2>2. PICK next : /\ tickets' = (tickets \ Row(c)) \cup next
                    /\ \/ next = graded /\ dto.to \in {"green", "red"}
                       \/ next = listed /\ dto.to \in BOOLEAN
                       \/ next = {}
    BY <1>9, <2>1 DEF setRow
  <2>3. /\ \A t \in Row(c) : t \in GoodTickets /\ t.id = call[c].about.id
        /\ \A t, u \in Row(c) : t = u
    BY <1>1 DEF Row, AccountInv
  <2>4. ASSUME NEW t \in Row(c)
        PROVE  /\ dto.to \in {"green", "red"} => /\ [t EXCEPT !.resultado = dto.to] \in GoodTickets
                                                 /\ [t EXCEPT !.resultado = dto.to].id = t.id
               /\ dto.to \in BOOLEAN => /\ [t EXCEPT !.published = dto.to] \in GoodTickets
                                        /\ [t EXCEPT !.published = dto.to].id = t.id
    BY <2>3 DEF GoodTickets, TicketRow
  <2>5. /\ next \in SUBSET GoodTickets /\ \A t \in next : t.id = call[c].about.id
        /\ \A t, u \in next : t = u
    BY <2>2, <2>3, <2>4
  <2> QED
    BY <1>1, <1>3, <1>9, <2>2, <2>5, TicketChanged DEF setRow
<1>10. CASE update(c)
  <2> DEFINE edited(t) == [t EXCEPT !.categoria = dto.categoria, !.coupon = dto.coupon,
                                    !.says = IF Multiple(t) THEN @ ELSE dto.says,
                                    !.byHand = Multiple(t) \/ dto.byHand]
             next == {edited(t) : t \in Row(c)}
  <2>1. GoodRequest("edit", dto) /\ tickets' = (tickets \ Row(c)) \cup next
    BY <1>1, <1>10 DEF update, Sent
  <2>2. /\ \A t \in Row(c) : t \in GoodTickets /\ t.id = call[c].about.id
        /\ \A t, u \in Row(c) : t = u
    BY <1>1 DEF Row, AccountInv
  <2>3. ASSUME NEW t \in Row(c) PROVE edited(t) \in GoodTickets /\ edited(t).id = t.id
    <3>1. t \in TicketRow
      BY <2>2 DEF GoodTickets
    <3> PICK says : says = IF Multiple(t) THEN t.says ELSE dto.says
      OBVIOUS
    <3>2. dto.byHand \in BOOLEAN
      BY <2>1 DEF GoodRequest
    <3> PICK byHand \in BOOLEAN : byHand = (Multiple(t) \/ dto.byHand)
      OBVIOUS
    <3>3. Honest(byHand, says, dto.coupon) /\ says \in SUBSET Selections
      <4>1. CASE Multiple(t)
        <5>1. byHand = TRUE /\ says = t.says
          BY <4>1
        <5> QED
          BY <3>1, <5>1 DEF Honest, TicketRow
      <4>2. CASE ~Multiple(t)
        <5>1. byHand = dto.byHand /\ says = dto.says
          BY <3>2, <4>2
        <5> QED
          BY <2>1, <5>1 DEF GoodRequest
      <4> QED
        BY <4>1, <4>2
    <3>4. edited(t) = [id |-> t.id, categoria |-> dto.categoria, event |-> t.event,
                       says |-> says, byHand |-> byHand, coupon |-> dto.coupon,
                       published |-> t.published, resultado |-> t.resultado]
      <4> DEFINE a == [t EXCEPT !.categoria = dto.categoria]
                 b == [a EXCEPT !.coupon = dto.coupon]
                 d == [b EXCEPT !.says = says]
      <4>2. a = [id |-> t.id, categoria |-> dto.categoria, event |-> t.event,
                 says |-> t.says, byHand |-> t.byHand, coupon |-> t.coupon,
                 published |-> t.published, resultado |-> t.resultado]
        BY <3>1 DEF TicketRow
      <4>3. b = [id |-> t.id, categoria |-> dto.categoria, event |-> t.event,
                 says |-> t.says, byHand |-> t.byHand, coupon |-> dto.coupon,
                 published |-> t.published, resultado |-> t.resultado]
        <5> HIDE DEF a
        <5> QED
          BY <4>2
      <4>1. edited(t) = [d EXCEPT !.byHand = byHand]
        <5>1. edited(t) = [b EXCEPT !.says = IF Multiple(t) THEN @ ELSE dto.says,
                                    !.byHand = Multiple(t) \/ dto.byHand]
          OBVIOUS
        <5>2. b.says = t.says
          <6> HIDE DEF b, edited
          <6> QED
            BY <4>3
        <5> HIDE DEF b, edited
        <5> QED
          BY <5>1, <5>2
      <4> HIDE DEF b
      <4>4. d = [id |-> t.id, categoria |-> dto.categoria, event |-> t.event,
                 says |-> says, byHand |-> t.byHand, coupon |-> dto.coupon,
                 published |-> t.published, resultado |-> t.resultado]
        BY <4>3
      <4> HIDE DEF d, edited
      <4> QED
        BY <4>1, <4>4
    <3> HIDE DEF edited
    <3> QED
      BY <2>1, <3>1, <3>3, <3>4 DEF GoodTickets, TicketRow, GoodRequest
  <2> HIDE DEF edited
  <2>4. /\ next \in SUBSET GoodTickets /\ \A t \in next : t.id = call[c].about.id
        /\ \A t, u \in next : t = u
    BY <2>2, <2>3
  <2> HIDE DEF next
  <2> QED
    BY <1>1, <1>3, <1>10, <2>1, <2>4, TicketChanged DEF update
<1> QED
  BY <1>4, <1>5, <1>6, <1>7, <1>8, <1>9, <1>10 DEF Writing

-----------------------------------------------------------------------------
(* Elsewhere: the account.                                                 *)

LEMMA ClientStays ==
  ASSUME ClientInv, UNCHANGED <<screen, call, held>>
  PROVE  ClientInv'
<1>1. CallInv'
  BY DEF ClientInv, CallInv
<1>2. SameLive
  BY DEF SameLive, Live
<1> QED
  BY <1>1, <1>2, StandStill

LEMMA ElsewhereKept ==
  ASSUME AppInv, ChangePlan \/ ChangeAccess \/ TopUp \/ \E r \in Ranks : upgrade(r)
  PROVE  AppInv'
<1>1. /\ UNCHANGED <<screen, call, browser>>
      /\ UNCHANGED <<tickets, member>>
  BY DEF ChangePlan, ChangeAccess, TopUp, upgrade
<1>2. ClientInv' /\ BrowserInv'
  BY <1>1, ClientStays DEF browser, BrowserInv, AppInv
<1>3. AccountInv'
  BY <1>1, ClientAssumption
     DEF ChangePlan, ChangeAccess, TopUp, upgrade, AccountInv, AppInv
<1> QED
  BY <1>2, <1>3 DEF AppInv

-----------------------------------------------------------------------------
(* The generator.                                                          *)

LEMMA UpsertKept ==
  ASSUME AppInv, NEW row \in GoodTickets, Upsert(row)
  PROVE  AppInv'
<1> PICK old : old = {t \in tickets : t.id = row.id}
  OBVIOUS
<1> DEFINE next == {[row EXCEPT !.resultado = r] :
                      r \in IF old = {} THEN {"pending"} ELSE {t.resultado : t \in old}}
<1>1. /\ tickets' = (tickets \ old) \cup next
      /\ UNCHANGED <<screen, call, plan, bought, balance, member, changes, browser>>
  BY DEF Upsert
<1>2. AccountInv /\ ClientInv /\ BrowserInv
  BY DEF AppInv
<1>3. /\ \A t \in old : t.resultado \in {"pending", "green", "red"}
      /\ \A t, u \in old : t = u
  BY <1>2 DEF AccountInv, GoodTickets, TicketRow
<1>4. \A r \in {"pending", "green", "red"} :
        [row EXCEPT !.resultado = r] \in GoodTickets /\ [row EXCEPT !.resultado = r].id = row.id
  BY DEF GoodTickets, TicketRow
<1>5. /\ next \in SUBSET GoodTickets /\ \A t \in next : t.id = row.id
      /\ \A t, u \in next : t = u
  <2>1. PICK results : results = IF old = {} THEN {"pending"} ELSE {t.resultado : t \in old}
    OBVIOUS
  <2>2. results \subseteq {"pending", "green", "red"} /\ \A q, r \in results : q = r
    BY <1>3, <2>1
  <2>3. next = {[row EXCEPT !.resultado = r] : r \in results}
    BY <2>1
  <2> HIDE DEF next
  <2> QED
    BY <1>4, <2>2, <2>3
<1> HIDE DEF next
<1>6. tickets' \subseteq GoodTickets /\ \A t, u \in tickets' : t.id = u.id => t = u
  BY <1>1, <1>2, <1>5 DEF AccountInv
<1>7. AccountInv'
  BY <1>1, <1>2, <1>6 DEF AccountInv
<1>8. ClientInv' /\ BrowserInv'
  BY <1>1, <1>2, ClientStays DEF browser, BrowserInv
<1> QED
  BY <1>7, <1>8 DEF AppInv

\* What is generated bets what it says.
LEMMA GeneratedKept ==
  ASSUME AppInv, generateDaily
  PROVE  AppInv'
<1>1. ASSUME NEW id \in Ids, NEW k \in Categories, NEW g \in Games,
             NEW legs \in SUBSET Selections, Upsert(Bilhete(id, k, {g}, legs, FALSE, {legs}))
      PROVE  AppInv'
  <2>1. {g} \in Options(Games) /\ {legs} \in Coupons /\ Honest(FALSE, legs, {legs})
    BY DEF Options, Coupons, Honest
  <2> PICK event, byHand, bets : event = {g} /\ byHand = FALSE /\ bets = {legs}
    OBVIOUS
  <2>2. Bilhete(id, k, event, legs, byHand, bets) \in GoodTickets
    BY <2>1, NewTicket
  <2> QED
    BY <1>1, <2>2, UpsertKept
<1>2. ASSUME NEW k \in AutoCategories, NEW s \in Selections, upsertSingle(k, s)
      PROVE  AppInv'
  <2>1. s[1] \in Games /\ {s} \in SUBSET Selections /\ k \in Categories
    BY DEF Selections, AutoCategories
  <2>2. <<k, s[1]>> \in Ids
    BY <2>1 DEF Ids
  <2> QED
    BY <1>1, <1>2, <2>1, <2>2 DEF upsertSingle
<1>3. ASSUME NEW legs \in SUBSET Selections, NEW face \in legs, upsertMultiple(face, legs)
      PROVE  AppInv'
  <2>1. face[1] \in Games /\ "multiplas" \in Categories /\ Today \in Ids
    BY <1>3 DEF Selections, upsertMultiple, Ids
  <2>2. Upsert(Bilhete(Today, "multiplas", {face[1]}, legs, FALSE, {legs}))
    BY <1>3 DEF upsertMultiple
  <2> QED
    BY <1>1, <2>1, <2>2
<1> QED
  BY <1>2, <1>3 DEF generateDaily

-----------------------------------------------------------------------------
(* The gate.                                                               *)

\* The popup closed, or the gate turned.
LEMMA HeldNothing ==
  ASSUME ClientInv, UNCHANGED <<screen, call>>, held' = {} \/ held' = held
  PROVE  ClientInv'
<1>1. CallInv' /\ SameLive
  BY DEF ClientInv, CallInv, SameLive, Live
<1> QED
  BY <1>1, StandStill

LEMMA GateKept ==
  ASSUME AppInv, GateChanges \/ close
  PROVE  AppInv'
<1>1. /\ UNCHANGED <<screen, call, account, coupon>> /\ held' \in {{}, held}
      /\ locked' \in {locked, ~locked}
  BY DEF GateChanges, close
<1>2. ClientInv'
  BY <1>1, HeldNothing DEF AppInv
<1> QED
  BY <1>1, <1>2 DEF AppInv, AccountInv, account, BrowserInv

-----------------------------------------------------------------------------
(* Screens come and go.                                                    *)

\* The screens, with what each asks for as it mounts.
Mounting(next, kinds) ==
  \/ next = HomeScreen /\ kinds = {"me"}
  \/ \E asked : next = BilhetesScreen(asked) /\ kinds = {"feed"}
  \/ next = PlanosScreen /\ kinds = {"me"}
  \/ next = UltimosGreensScreen /\ kinds = {"historico"}
  \/ next = TipsterPage /\ kinds = {"me", "upcoming"}
  \/ next = PerfilScreen /\ kinds = {"me", "gamification"}
  \/ \E section : next = AdminBilhetes(section) /\ kinds = {"lists"}

LEMMA FreshScreens ==
  ASSUME NEW kinds, Mounting(screen, kinds)
  PROVE  ScreenInv
<1>1. CASE screen = HomeScreen
  BY <1>1 DEF HomeScreen, ScreenInv, Routes
<1>2. ASSUME NEW asked, screen = BilhetesScreen(asked) PROVE ScreenInv
  BY <1>2 DEF BilhetesScreen, ScreenInv, Routes, BilhetesInv, Matching
<1>3. CASE screen = PlanosScreen
  BY <1>3 DEF PlanosScreen, ScreenInv, Routes
<1>4. CASE screen = UltimosGreensScreen
  BY <1>4 DEF UltimosGreensScreen, ScreenInv, Routes
<1>5. CASE screen = TipsterPage
  BY <1>5 DEF TipsterPage, TipsterChat, ScreenInv, Routes, TipsterInv
<1>6. CASE screen = PerfilScreen
  BY <1>6 DEF PerfilScreen, ScreenInv, Routes
<1>7. ASSUME NEW section, screen = AdminBilhetes(section) PROVE ScreenInv
  <2>1. FormInv(EMPTY)
    BY DEF FormInv, EMPTY, Options
  <2> QED
    BY <1>7, <2>1, FS_EmptySet DEF AdminBilhetes, ScreenInv, Routes, AdminInv
<1> QED
  BY <1>1, <1>2, <1>3, <1>4, <1>5, <1>6, <1>7 DEF Mounting

LEMMA MountKept ==
  ASSUME CallInv, NEW next, NEW kinds, Mounting(next, kinds), Go(next, kinds)
  PROVE  CallInv' /\ ScreenInv' /\ BusyInv' /\ screen' = next
<1>1. kinds \in SUBSET Plain
  BY DEF Mounting, Plain, Reads
<1>2. /\ CallInv' /\ screen' = next
      /\ \A K : /\ kinds \cap K = {} => Doing(K)' = {}
                /\ \A k : kinds \cap K = {k} => AtMostOne(Doing(K)') /\ Doing(K)' # {}
  BY <1>1, GoEffect
<1>3. ScreenInv'
  <2>1. Mounting(screen, kinds)'
    BY <1>2 DEF Mounting, HomeScreen, BilhetesScreen, PlanosScreen, UltimosGreensScreen,
       TipsterPage, TipsterChat, PerfilScreen, AdminBilhetes, EMPTY
  <2> QED
    BY <2>1, FreshScreens, PTL
<1>4. AtMostOne({})
  BY DEF AtMostOne
<1>5. BusyInv'
  <2>1. CASE next = TipsterPage /\ kinds = {"me", "upcoming"}
    <3>1. Doing({"search", "analyze"})' = {}
      BY <1>2, <2>1
    <3> QED
      BY <1>2, <1>4, <2>1, <3>1 DEF TipsterPage, TipsterChat, BusyInv, On, Waits
  <2>2. CASE next = PerfilScreen /\ kinds = {"me", "gamification"}
    <3>1. Doing({"profile"})' = {}
      BY <1>2, <2>2
    <3> QED
      BY <1>2, <1>4, <2>2, <3>1 DEF PerfilScreen, BusyInv, On, Waits
  <2>3. CASE next = UltimosGreensScreen /\ kinds = {"historico"}
    <3>1. kinds \cap {"historico"} = {"historico"}
      BY <2>3
    <3>2. AtMostOne(Doing({"historico"})') /\ Doing({"historico"})' # {}
      BY <1>2, <3>1
    <3> QED
      BY <1>2, <2>3, <3>2 DEF UltimosGreensScreen, BusyInv, On, Waits
  <2>4. ASSUME NEW section, next = AdminBilhetes(section), kinds = {"lists"} PROVE BusyInv'
    <3> QED
      BY <1>2, <2>4 DEF AdminBilhetes, BusyInv, On, Owed
  <2>5. CASE next.at \in {"home", "bilhetes", "planos"}
    BY <1>2, <2>5 DEF BusyInv, On
  <2> QED
    BY <2>1, <2>2, <2>3, <2>4, <2>5 DEF Mounting, HomeScreen, BilhetesScreen, PlanosScreen
<1> QED
  BY <1>2, <1>3, <1>5

-----------------------------------------------------------------------------
(* The member at a screen.                                                 *)

\* Most of what a screen does leaves the account and the browser alone.
LEMMA ClientOnly ==
  ASSUME AppInv, ClientInv', UNCHANGED <<account, locked>>, coupon' \in Coupons
  PROVE  AppInv'
  BY DEF AppInv, AccountInv, account, BrowserInv

\* What is held stays good while its screen stays, and the chat starts nothing.
LEMMA HeldStays ==
  ASSUME HeldInv, held' = held, screen'.at = screen.at,
         screen.at = "tipster" => screen'.tab = screen.tab,
         On("chat") /\ held # {} /\ ~screen.part.busy => ~screen'.part.busy
  PROVE  HeldInv'
  BY DEF HeldInv, On

\* The popup opens, and holds one thing.
LEMMA HeldOne ==
  ASSUME ClientInv, NEW what, NEW about, UNCHANGED <<screen, call>>,
         held' = {[what |-> what, about |-> about, here |-> TRUE]},
         what = "coupon" => about \in GoodTickets,
         what \in {"cat", "coupon", "tipster"} => screen.at = "bilhetes",
         what = "confirm" => On("chat") /\ ~screen.part.busy,
         what = "analyze" => On("aovivo")
  PROVE  ClientInv'
<1> PICK h : h = [what |-> what, about |-> about, here |-> TRUE]
  OBVIOUS
<1>0. h.what = what /\ h.about = about /\ DOMAIN h = {"what", "about", "here"}
  OBVIOUS
<1>1. HeldInv'
  BY <1>0 DEF HeldInv, On
<1>2. CallInv' /\ SameLive
  BY DEF ClientInv, CallInv, SameLive, Live
<1>3. ScreenInv'
  BY DEF ClientInv, ScreenInv, AdminInv, BilhetesInv, TipsterInv, FormInv, Matching
<1>4. \A K : Doing(K)' = Doing(K)
  BY <1>2, StillWaits
<1>5. BusyInv'
  BY <1>4 DEF ClientInv, BusyInv, Waits, Owed, On
<1> QED
  BY <1>1, <1>2, <1>3, <1>5 DEF ClientInv

\* The member goes to a screen with nothing held.
LEMMA GoesFree ==
  ASSUME ClientInv, NEW next, NEW kinds, Mounting(next, kinds), Go(next, kinds),
         held = {} \/ held' = {}, held' \in {held, {}}
  PROVE  ClientInv'
<1>1. CallInv' /\ ScreenInv' /\ BusyInv'
  BY MountKept DEF ClientInv
<1>2. HeldInv'
  BY DEF HeldInv
<1> QED
  BY <1>1, <1>2 DEF ClientInv

\* On three screens nothing is ever disabled.
LEMMA QuietScreens ==
  ASSUME screen'.at \in {"home", "bilhetes", "planos"}
  PROVE  BusyInv'
  BY DEF BusyInv, On

LEMMA FeedHears ==
  ASSUME AppInv, NEW c \in Calls,
         GotPlan(c) \/ GotFeed(c) \/ NoFeed(c) \/ GotCurrentPlan(c) \/ GotGreens(c)
  PROVE  AppInv'
<1>0. /\ Done(c) /\ screen'.at = screen.at /\ UNCHANGED <<account, browser>>
      /\ screen.at \in {"home", "bilhetes", "planos", "greens"}
      /\ CallInv /\ ScreenInv /\ HeldInv /\ BusyInv /\ GoodCall(call[c])
  <2>1. CallInv /\ ScreenInv /\ HeldInv /\ BusyInv /\ GoodCall(call[c])
    BY DEF AppInv, ClientInv, CallInv
  <2>2. Done(c) /\ UNCHANGED <<account, browser>>
    BY DEF GotPlan, GotFeed, NoFeed, GotCurrentPlan, GotGreens
  <2>3. screen.at \in {"home", "bilhetes", "planos", "greens"}
    BY DEF GotPlan, GotFeed, NoFeed, GotCurrentPlan, GotGreens
  <2>4. "at" \in DOMAIN screen
    BY <2>1, <2>3 DEF ScreenInv, BilhetesInv
  <2>5. screen'.at = screen.at
    <3>1. ASSUME GotFeed(c) \/ NoFeed(c) PROVE screen'.at = screen.at
      BY <2>4, <3>1 DEF GotFeed, NoFeed
    <3>2. ASSUME GotPlan(c) PROVE screen'.at = screen.at
      BY <2>4, <3>2 DEF GotPlan
    <3>3. ASSUME GotCurrentPlan(c) PROVE screen'.at = screen.at
      <4>1. \/ screen' = [screen EXCEPT !.rank = call[c].data.rank]
            \/ screen' = PlanosScreen
        BY <3>3 DEF GotCurrentPlan
      <4>2. screen.at = "planos"
        BY <3>3 DEF GotCurrentPlan
      <4>3. PlanosScreen.at = "planos"
        BY DEF PlanosScreen
      <4> QED
        BY <2>4, <4>1, <4>2, <4>3
    <3>4. ASSUME GotGreens(c) PROVE screen'.at = screen.at
      BY <2>4, <3>4 DEF GotGreens
    <3> QED
      BY <3>1, <3>2, <3>3, <3>4
  <2> QED
    BY <2>1, <2>2, <2>3, <2>5
<1>1. CallInv'
  BY <1>0, DoneEffect
<1>2. HeldInv'
  BY <1>0, HeldStays DEF browser, On
<1>3. SUFFICES ScreenInv' /\ BusyInv'
  BY <1>0, <1>1, <1>2, ClientOnly DEF AppInv, BrowserInv, browser, ClientInv
<1>4. CASE GotPlan(c)
  BY <1>0, <1>4, QuietScreens DEF GotPlan, ScreenInv
<1>5. CASE GotFeed(c)
  <2>1. GoodAnswer("feed", call[c].data)
    BY <1>0, <1>5 DEF GotFeed, Answered, GoodCall
  <2> PICK data, cat : data = call[c].data /\
        screen' = [screen EXCEPT !.open = data.open, !.filled = data.filled,
                     !.all = data.bilhetes, !.initialized = TRUE, !.cat = cat]
    BY <1>5 DEF GotFeed
  <2>2. BilhetesInv /\ screen.at = "bilhetes"
    BY <1>0, <1>5 DEF GotFeed, ScreenInv
  <2>3. BilhetesInv'
    BY <2>1, <2>2 DEF BilhetesInv, GoodAnswer, Matching
  <2> QED
    BY <1>0, <2>2, <2>3, QuietScreens DEF ScreenInv, Routes
<1>6. CASE NoFeed(c)
  <2>1. BilhetesInv /\ screen.at = "bilhetes"
    BY <1>0, <1>6 DEF NoFeed, ScreenInv
  <2>2. BilhetesInv'
    BY <1>6, <2>1 DEF NoFeed, BilhetesInv, Matching
  <2> QED
    BY <1>0, <2>1, <2>2, QuietScreens DEF ScreenInv, Routes
<1>7. CASE GotCurrentPlan(c)
  BY <1>0, <1>7, QuietScreens DEF GotCurrentPlan, PlanosScreen, ScreenInv
<1>8. CASE GotGreens(c)
  <2>1. screen.at = "greens" /\ Waits(screen.loading, {"historico"})
    BY <1>0, <1>8 DEF GotGreens, BusyInv
  <2>2. Doing({"historico"})' = {}
    BY <1>0, <1>8, <2>1, Heard, DoneWaits DEF GotGreens, Waits
  <2>3. ScreenInv' /\ ~screen'.loading
    BY <1>0, <1>8, <2>1 DEF GotGreens, ScreenInv
  <2>4. BusyInv'
    BY <1>0, <2>1, <2>2, <2>3 DEF BusyInv, On, Waits, AtMostOne
  <2> QED
    BY <2>3, <2>4
<1> QED
  BY <1>4, <1>5, <1>6, <1>7, <1>8

\* The category turns, at once or when the popup lets it.
LEMMA CatRuns ==
  ASSUME ClientInv, screen.at = "bilhetes", NEW c, setCat(c), held' = held \/ held' = {}
  PROVE  ClientInv'
<1>1. /\ CallInv /\ ScreenInv /\ HeldInv /\ BilhetesInv
      /\ screen' = [screen EXCEPT !.cat = c] /\ UNCHANGED call
  BY DEF ClientInv, ScreenInv, setCat
<1>2. screen'.at = screen.at /\ BilhetesInv'
  BY <1>1 DEF BilhetesInv, Matching
<1>3. ScreenInv'
  BY <1>2 DEF ScreenInv, Routes
<1>4. HeldInv'
  <2>1. CASE held' = held
    BY <1>1, <1>2, <2>1, HeldStays DEF On
  <2>2. CASE held' = {}
    BY <2>2 DEF HeldInv
  <2> QED
    BY <2>1, <2>2
<1>5. CallInv' /\ BusyInv'
  BY <1>1, <1>2, QuietScreens DEF CallInv
<1> QED
  BY <1>3, <1>4, <1>5 DEF ClientInv

\* What the member does on those screens.
LEMMA FeedActs ==
  ASSUME AppInv,
         \/ \E c \in Categories \cup {"all"} : openCard(c) \/ pickCat(c)
         \/ \E t \in (IF screen.at = "bilhetes" THEN screen.all ELSE {}) : addCoupon(t)
         \/ Revalidate \/ closeExplainer \/ buyApart \/ onInterest
  PROVE  AppInv'
<1>0. /\ ClientInv /\ CallInv /\ ScreenInv /\ HeldInv /\ BusyInv /\ BrowserInv
      /\ coupon \in Coupons
  BY DEF AppInv, ClientInv, BrowserInv
<1>1. ASSUME UNCHANGED <<call, held>>, screen.at \in {"home", "bilhetes"},
             screen' = [screen EXCEPT !.popup = screen'.popup], screen'.popup \subseteq Categories
      PROVE  ClientInv'
  <2>1. screen'.at = screen.at
    BY <1>0, <1>1 DEF ScreenInv, BilhetesInv
  <2>2. ScreenInv'
    BY <1>0, <1>1, <2>1 DEF ScreenInv, BilhetesInv, Matching
  <2>3. HeldInv'
    BY <1>0, <1>1, <2>1, HeldStays DEF On
  <2>4. CallInv'
    BY <1>0, <1>1 DEF CallInv
  <2>5. BusyInv'
    BY <1>1, <2>1, QuietScreens
  <2> QED
    BY <2>2, <2>3, <2>4, <2>5 DEF ClientInv
<1>2. ASSUME Go(PlanosScreen, {"me"}), held = {}, held' = held PROVE ClientInv'
  <2>1. Mounting(PlanosScreen, {"me"})
    BY DEF Mounting
  <2> QED
    BY <1>0, <1>2, <2>1, GoesFree
<1>3. ASSUME NEW c \in Categories \cup {"all"}, openCard(c) PROVE AppInv'
  <2>1. CASE ~Resolved(c)
    <3>1. ASSUME screen' = [screen EXCEPT !.popup = {c}], UNCHANGED call PROVE ClientInv'
      <4>1. screen' = [screen EXCEPT !.popup = screen'.popup] /\ screen'.popup \subseteq Categories
        BY <1>0, <1>3, <3>1 DEF openCard, Reachable, ScreenInv, LockedCards
      <4> QED
        BY <1>1, <1>3, <3>1, <4>1 DEF openCard, Reachable, browser
    <3>2. ASSUME Resolved(c) PROVE ClientInv'
      BY <2>1, <3>2
    <3> QED
      BY <1>0, <1>3, <3>1, <3>2, ClientOnly DEF openCard, browser
  <2>2. CASE Resolved(c)
    <3>1. Mounting(BilhetesScreen({c}), {"feed"}) /\ Go(BilhetesScreen({c}), {"feed"})
      BY <1>3, <2>2 DEF openCard, Mounting
    <3>2. ClientInv'
      BY <1>0, <1>3, <3>1, GoesFree DEF openCard, Reachable, browser
    <3> QED
      BY <1>0, <1>3, <3>2, ClientOnly DEF openCard, browser
  <2> QED
    BY <2>1, <2>2
<1>4. ASSUME NEW c \in Categories \cup {"all"}, pickCat(c) PROVE AppInv'
  <2>0. screen.at = "bilhetes" /\ held = {} /\ UNCHANGED <<account, locked>>
    BY <1>4 DEF pickCat, Reachable
  <2>1. ASSUME RequireUnlock("cat", c, setCat(c)) PROVE ClientInv' /\ coupon' = coupon
    <3>1. CASE setCat(c) /\ UNCHANGED held
      BY <1>0, <2>0, <3>1, CatRuns DEF setCat
    <3>2. CASE /\ held' = {[what |-> "cat", about |-> c, here |-> TRUE]}
               /\ UNCHANGED <<screen, call, coupon>>
      <4> PICK what : what = "cat"
        OBVIOUS
      <4>1. ClientInv'
        BY <1>0, <2>0, <3>2, HeldOne
      <4> QED
        BY <3>2, <4>1
    <3> QED
      BY <2>1, <3>1, <3>2 DEF RequireUnlock
  <2>2. ASSUME c \in Explained, screen' = [screen EXCEPT !.popup = {c}],
               UNCHANGED <<call, coupon, held>>
        PROVE  ClientInv'
    <3>1. screen' = [screen EXCEPT !.popup = screen'.popup] /\ screen'.popup \subseteq Categories
      BY <1>0, <2>0, <2>2 DEF ScreenInv, BilhetesInv, Explained
    <3> QED
      BY <1>1, <2>0, <2>2, <3>1
  <2>3. ASSUME Go(PlanosScreen, {"me"}), UNCHANGED <<coupon, held>> PROVE ClientInv'
    BY <1>2, <2>0, <2>3
  <2>4. ClientInv' /\ coupon' = coupon
    BY <1>4, <2>1, <2>2, <2>3 DEF pickCat
  <2> QED
    BY <1>0, <2>0, <2>4, ClientOnly
<1>5. ASSUME screen.at = "bilhetes", NEW t \in screen.all, addCoupon(t) PROVE AppInv'
  <2>0. held = {} /\ UNCHANGED <<account, locked>> /\ t \in GoodTickets
    BY <1>0, <1>5 DEF addCoupon, Reachable, ScreenInv, BilhetesInv
  <2>1. ASSUME RequireUnlock("coupon", t, setSportsbookUrl(t))
        PROVE  ClientInv' /\ coupon' \in Coupons
    <3>1. CASE setSportsbookUrl(t) /\ UNCHANGED held
      <4>1. t.coupon \in Coupons
        BY <2>0 DEF GoodTickets, TicketRow
      <4> QED
        BY <1>0, <3>1, <4>1, ClientStays DEF setSportsbookUrl
    <3>2. CASE /\ held' = {[what |-> "coupon", about |-> t, here |-> TRUE]}
               /\ UNCHANGED <<screen, call, coupon>>
      BY <1>0, <1>5, <2>0, <3>2, HeldOne
    <3> QED
      BY <2>1, <3>1, <3>2 DEF RequireUnlock
  <2>2. ClientInv' /\ coupon' \in Coupons
    BY <1>0, <1>2, <1>5, <2>0, <2>1 DEF addCoupon
  <2> QED
    BY <2>0, <2>2, ClientOnly
<1>6. CASE Revalidate
  <2>1. /\ Ask("feed", {}) /\ UNCHANGED <<screen, account, browser>>
        /\ screen.at = "bilhetes" /\ GoodRequest("feed", {})
    BY <1>6, PlainRequests DEF Revalidate, Plain, Reads
  <2>2. CallInv'
    BY <1>0, <2>1, AskEffect
  <2>3. ScreenInv' /\ HeldInv' /\ BusyInv'
    BY <1>0, <2>1, QuietScreens, HeldStays DEF browser, ScreenInv, BilhetesInv, Matching, On
  <2>4. ClientInv'
    BY <2>2, <2>3 DEF ClientInv
  <2> QED
    BY <1>0, <2>1, <2>4, ClientOnly DEF browser
<1>7. CASE closeExplainer
  <2>1. screen' = [screen EXCEPT !.popup = screen'.popup] /\ screen'.popup \subseteq Categories
    BY <1>0, <1>7 DEF closeExplainer, ScreenInv, BilhetesInv
  <2>2. ClientInv'
    BY <1>1, <1>7, <2>1 DEF closeExplainer, browser
  <2> QED
    BY <1>0, <1>7, <2>2, ClientOnly DEF closeExplainer, browser
<1>8. CASE buyApart
  <2>1. screen' = [screen EXCEPT !.popup = screen'.popup] /\ screen'.popup \subseteq Categories
    BY <1>0, <1>8 DEF buyApart, ScreenInv, BilhetesInv
  <2>2. ClientInv'
    BY <1>1, <1>8, <2>1 DEF buyApart, browser
  <2>3. AccountInv'
    <3>1. PICK c \in screen.popup \cap SoldApart : bought' = bought \cup {c}
      BY <1>8 DEF buyApart
    <3>2. c \in Categories
      BY <1>0, <1>8, <3>1 DEF buyApart, ScreenInv, BilhetesInv
    <3> QED
      BY <1>8, <3>1, <3>2, ClientAssumption DEF buyApart, AccountInv, AppInv
  <2> QED
    BY <1>0, <1>8, <2>2, <2>3 DEF buyApart, browser, AppInv, BrowserInv
<1>9. CASE onInterest
  <2>1. ClientInv'
    BY <1>2, <1>9 DEF onInterest, browser
  <2> QED
    BY <1>0, <1>9, <2>1, ClientOnly DEF onInterest, browser
<1> QED
  BY <1>3, <1>4, <1>5, <1>6, <1>7, <1>8, <1>9

-----------------------------------------------------------------------------
(* The IA Tipster's page.                                                  *)

\* Requests that come and go leave the others as they are.
LEMMA OthersStay ==
  ASSUME CallInv, NEW K,
         \/ UNCHANGED call
         \/ \E c \in Calls : Done(c) /\ c \notin Doing(K)
         \/ \E kind : Ask(kind, {}) /\ GoodRequest(kind, {}) /\ kind \notin K
  PROVE  CallInv' /\ Doing(K)' = Doing(K) /\ \A d \in Doing(K) : call'[d].about = call[d].about
<1>1. CASE UNCHANGED call
  BY <1>1 DEF CallInv, Doing, Live
<1>2. ASSUME NEW c \in Calls, Done(c), c \notin Doing(K)
      PROVE  CallInv' /\ Doing(K)' = Doing(K) /\ \A d \in Doing(K) : call'[d].about = call[d].about
  BY <1>2, DoneWaits, DoneEffect DEF Only1, Doing
<1>3. ASSUME NEW kind, Ask(kind, {}), GoodRequest(kind, {}), kind \notin K
      PROVE  CallInv' /\ Doing(K)' = Doing(K) /\ \A d \in Doing(K) : call'[d].about = call[d].about
  <2>1. PICK n \in Calls : ~Live(n) /\ Only1(n)
    BY <1>3, AskEffect
  <2> QED
    BY <1>3, <2>1, AskWaits DEF Only1, Doing
<1> QED
  BY <1>1, <1>2, <1>3

\* A step within a tab, by what it leaves of the tab's controls.
LEMMA TipsterKept ==
  ASSUME ScreenInv, screen.at = "tipster",
         DOMAIN screen' = DOMAIN screen, screen'.at = "tipster", screen'.tab = screen.tab,
         screen.tab \in {"chat", "aovivo"} => DOMAIN screen'.part = DOMAIN screen.part,
         CallInv', HeldInv',
         On("chat") =>
           screen'.part.busy \in BOOLEAN /\ Waits(screen.part.busy, {"search", "analyze"})',
         On("aovivo") =>
           /\ screen'.part.loading \in BOOLEAN /\ Waits(screen.part.loading, {"games"})'
           /\ \A g \in screen'.part.busyId : \E c \in Doing({"analyze"})' : call'[c].about = g
  PROVE  ClientInv'
<1>1. TipsterInv /\ (On("chat") <=> screen.tab = "chat") /\ (On("aovivo") <=> screen.tab = "aovivo")
  BY DEF ScreenInv, On
<1>2. TipsterInv'
  BY <1>1 DEF TipsterInv
<1>3. ScreenInv'
  BY <1>2 DEF ScreenInv, Routes
<1>4. BusyInv'
  BY <1>1 DEF BusyInv, On
<1> QED
  BY <1>3, <1>4 DEF ClientInv

\* A step that leaves the controls of the tab as they were.
LEMMA TipsterQuiet ==
  ASSUME ClientInv, screen.at = "tipster", held' = held,
         DOMAIN screen' = DOMAIN screen, screen'.at = "tipster", screen'.tab = screen.tab,
         screen.tab \in {"chat", "aovivo"} => DOMAIN screen'.part = DOMAIN screen.part,
         On("chat") => screen'.part.busy = screen.part.busy,
         On("aovivo") => /\ screen'.part.loading = screen.part.loading
                         /\ screen'.part.busyId = screen.part.busyId,
         \/ UNCHANGED call
         \/ \E c \in Calls, kind \in {"me", "late", "upcoming"} :
              Done(c) /\ (Answered(c, kind) \/ Failed(c, kind))
  PROVE  ClientInv'
<1>1. CallInv /\ ScreenInv /\ HeldInv /\ BusyInv /\ TipsterInv
  BY DEF ClientInv, ScreenInv
<1>2. ASSUME NEW K, K \cap {"me", "late", "upcoming"} = {}
      PROVE  CallInv' /\ Doing(K)' = Doing(K)
             /\ \A d \in Doing(K) : call'[d].about = call[d].about
  <2>1. CASE UNCHANGED call
    BY <1>1, <2>1, OthersStay
  <2>2. ASSUME NEW c \in Calls, NEW kind \in {"me", "late", "upcoming"},
               Done(c), Answered(c, kind) \/ Failed(c, kind)
        PROVE  \E d \in Calls : Done(d) /\ d \notin Doing(K)
    BY <1>1, <1>2, <2>2, Heard
  <2> QED
    BY <1>1, <2>1, <2>2, OthersStay
<1>3. HeldInv'
  BY <1>1, HeldStays
<1>4. /\ CallInv' /\ Doing({"search", "analyze"})' = Doing({"search", "analyze"})
      /\ Doing({"games"})' = Doing({"games"}) /\ Doing({"analyze"})' = Doing({"analyze"})
      /\ \A d \in Doing({"analyze"}) : call'[d].about = call[d].about
  <2>1. \A k \in {"search", "analyze", "games"} : k \notin {"me", "late", "upcoming"}
    OBVIOUS
  <2>2. /\ {"search", "analyze"} \cap {"me", "late", "upcoming"} = {}
        /\ {"games"} \cap {"me", "late", "upcoming"} = {}
        /\ {"analyze"} \cap {"me", "late", "upcoming"} = {}
    BY <2>1
  <2> QED
    BY <1>2, <2>2
<1>5. ASSUME On("chat")
      PROVE  screen'.part.busy \in BOOLEAN /\ Waits(screen.part.busy, {"search", "analyze"})'
  BY <1>1, <1>4, <1>5 DEF TipsterInv, On, BusyInv, Waits
<1>6. ASSUME On("aovivo")
      PROVE  /\ screen'.part.loading \in BOOLEAN /\ Waits(screen.part.loading, {"games"})'
             /\ \A g \in screen'.part.busyId : \E c \in Doing({"analyze"})' : call'[c].about = g
  BY <1>1, <1>4, <1>6 DEF TipsterInv, On, BusyInv, Waits
<1> QED
  BY <1>1, <1>3, <1>4, <1>5, <1>6, TipsterKept

LEMMA TipsterPlain ==
  ASSUME AppInv,
         \/ \E c \in Calls : GotCredits(c) \/ GotLate(c) \/ GotUpcoming(c)
         \/ openShop \/ \E from, to : turnShop(from, to)
         \/ (\E g \in Games : setFound(g)) \/ dismiss \/ resetChat \/ closeResult
  PROVE  AppInv'
<1>0. ClientInv /\ ScreenInv /\ coupon \in Coupons
  BY DEF AppInv, ClientInv, BrowserInv
<1>1. ASSUME UNCHANGED <<account, browser>>, ClientInv' PROVE AppInv'
  BY <1>0, <1>1, ClientOnly DEF browser
<1>2. ASSUME screen.at = "tipster"
      PROVE  /\ TipsterInv
             /\ On("chat") <=> screen.tab = "chat"
             /\ On("aovivo") <=> screen.tab = "aovivo"
  BY <1>0, <1>2 DEF ScreenInv, On
<1>3. ASSUME NEW c \in Calls, GotCredits(c) PROVE AppInv'
  <2> PICK credits : screen' = [screen EXCEPT !.credits = credits]
    BY <1>3 DEF GotCredits
  <2>1. /\ screen.at = "tipster" /\ Done(c) /\ (Answered(c, "me") \/ Failed(c, "me"))
        /\ UNCHANGED <<account, browser>>
    BY <1>3 DEF GotCredits
  <2> QED
    BY <1>0, <1>1, <1>2, <2>1, TipsterQuiet DEF TipsterInv, browser
<1>4. ASSUME NEW c \in Calls, GotLate(c) PROVE AppInv'
  <2>1. /\ screen.at = "tipster" /\ Done(c) /\ (Answered(c, "late") \/ Failed(c, "late"))
        /\ UNCHANGED <<account, browser>>
    BY <1>4 DEF GotLate
  <2> PICK credits : \/ screen' = [screen EXCEPT !.credits = credits]
                     \/ screen' = screen
    BY <1>4 DEF GotLate
  <2> QED
    BY <1>0, <1>1, <1>2, <2>1, TipsterQuiet DEF TipsterInv, browser
<1>5. ASSUME NEW c \in Calls, GotUpcoming(c) PROVE AppInv'
  <2>1. /\ On("chat") /\ Done(c) /\ (Answered(c, "upcoming") \/ Failed(c, "upcoming"))
        /\ screen.at = "tipster" /\ screen.tab = "chat"
        /\ UNCHANGED <<account, browser>>
    BY <1>5 DEF GotUpcoming, On
  <2> PICK games : \/ screen' = [screen EXCEPT !.part = [screen.part EXCEPT !.upcoming = games]]
                   \/ screen' = screen
    BY <1>5 DEF GotUpcoming, Part
  <2> QED
    BY <1>0, <1>1, <1>2, <2>1, TipsterQuiet DEF TipsterInv, browser
<1>6. ASSUME openShop \/ \E from, to : turnShop(from, to) PROVE AppInv'
  <2> PICK buy : screen' = [screen EXCEPT !.buy = buy]
    BY <1>6 DEF openShop, turnShop
  <2>1. screen.at = "tipster" /\ UNCHANGED <<call, account, browser>>
    BY <1>6 DEF openShop, turnShop
  <2> QED
    BY <1>0, <1>1, <1>2, <2>1, TipsterQuiet DEF TipsterInv, browser
<1>7. ASSUME (\E g \in Games : setFound(g)) \/ dismiss \/ resetChat PROVE AppInv'
  <2>1. /\ screen.at = "tipster" /\ screen.tab = "chat" /\ UNCHANGED <<call, account, browser>>
    BY <1>7 DEF setFound, dismiss, resetChat, Usable, On
  <2> PICK next : screen' = [screen EXCEPT !.part = next]
                  /\ DOMAIN next = DOMAIN screen.part /\ next.busy = screen.part.busy
    BY <1>2, <1>7, <2>1, ZenonT(60) DEF setFound, dismiss, resetChat, Part, TipsterInv
  <2> QED
    BY <1>0, <1>1, <1>2, <2>1, TipsterQuiet DEF TipsterInv, browser
<1>8. CASE closeResult
  <2>1. /\ screen.at = "tipster" /\ screen.tab = "aovivo" /\ UNCHANGED <<call, account, browser>>
    BY <1>8 DEF closeResult, Usable, On
  <2> PICK next : next = [screen.part EXCEPT !.result = {}]
    OBVIOUS
  <2>2. screen' = [screen EXCEPT !.part = next]
    BY <1>8 DEF closeResult, Part
  <2>3. /\ DOMAIN next = DOMAIN screen.part /\ next.busyId = screen.part.busyId
        /\ next.loading = screen.part.loading
    BY <1>2, <2>1 DEF TipsterInv
  <2> QED
    BY <1>0, <1>1, <1>2, <2>1, <2>2, <2>3, TipsterQuiet DEF TipsterInv, browser
<1> QED
  BY <1>3, <1>4, <1>5, <1>6, <1>7, <1>8

\* An analysis is asked for, in the chat, at once or when the popup lets it.
LEMMA ConfirmRuns ==
  ASSUME ClientInv, On("chat"), ~screen.part.busy, NEW g, onConfirm(g), held' = {}
  PROVE  ClientInv'
<1>1. /\ CallInv /\ ScreenInv /\ Waits(screen.part.busy, {"search", "analyze"})
      /\ screen.at = "tipster" /\ screen.tab = "chat" /\ TipsterInv /\ ~On("aovivo")
  BY DEF ClientInv, BusyInv, On, ScreenInv
<1> PICK next : next = [screen.part EXCEPT !.needCredits = FALSE, !.busy = TRUE,
                                           !.candidates = {}, !.last = "user"]
  OBVIOUS
<1>2. screen' = [screen EXCEPT !.part = next] /\ Ask("analyze", g)
  BY DEF onConfirm, Part
<1>3. /\ DOMAIN screen' = DOMAIN screen /\ screen'.at = "tipster" /\ screen'.tab = screen.tab
      /\ screen'.part = next /\ DOMAIN next = DOMAIN screen.part /\ next.busy = TRUE
  BY <1>1, <1>2 DEF TipsterInv
<1>4. GoodRequest("analyze", g)
  BY DEF GoodRequest
<1>5. /\ CallInv' /\ AtMostOne(Doing({"search", "analyze"})')
      /\ Doing({"search", "analyze"})' # {}
  BY <1>1, <1>2, <1>4, AskWaits DEF Waits
<1>6. Waits(screen.part.busy, {"search", "analyze"})'
  BY <1>3, <1>5 DEF Waits
<1>7. HeldInv'
  BY DEF HeldInv
<1> QED
  BY <1>1, <1>3, <1>5, <1>6, <1>7, TipsterKept

\* The chat: what sets busy, and what clears it.
LEMMA ChatKept ==
  ASSUME AppInv,
         \/ onSearch \/ \E g \in Games : confirm(g)
         \/ \E c \in Calls : GotMatches(c) \/ GotAnalysis(c)
  PROVE  AppInv'
<1> DEFINE K == {"search", "analyze"}
<1>0. ClientInv /\ CallInv /\ ScreenInv /\ HeldInv /\ coupon \in Coupons
  BY DEF AppInv, ClientInv, BrowserInv
<1>1. On("chat")
  BY DEF onSearch, confirm, GotMatches, GotAnalysis, Usable
<1>2. screen.at = "tipster" /\ screen.tab = "chat" /\ TipsterInv /\ ~On("aovivo")
      /\ Waits(screen.part.busy, K)
  BY <1>0, <1>1 DEF On, ScreenInv, ClientInv, BusyInv
<1>3. ASSUME NEW next, DOMAIN next = DOMAIN screen.part, next.busy \in BOOLEAN,
             DOMAIN screen' = DOMAIN screen, screen'.at = "tipster", screen'.tab = "chat",
             screen'.part = next, CallInv', AtMostOne(Doing(K)'), next.busy <=> Doing(K)' # {},
             held' = held, held = {} \/ ~next.busy
      PROVE  ClientInv'
  <2>1. HeldInv'
    BY <1>0, <1>2, <1>3, HeldStays
  <2>2. Waits(screen.part.busy, K)'
    BY <1>3 DEF Waits
  <2> QED
    BY <1>0, <1>2, <1>3, <2>1, <2>2, TipsterKept
<1>4. ASSUME NEW kind \in {"search", "analyze"}, NEW about, Ask(kind, about), ~screen.part.busy
      PROVE  CallInv' /\ AtMostOne(Doing(K)') /\ Doing(K)' # {}
  <2>1. GoodRequest(kind, about)
    BY <1>4 DEF GoodRequest
  <2> QED
    BY <1>0, <1>2, <1>4, <2>1, AskWaits DEF Waits
<1>5. ASSUME NEW c \in Calls, NEW kind \in {"search", "analyze"}, Done(c),
             Answered(c, kind) \/ Failed(c, kind)
      PROVE  CallInv' /\ Doing(K)' = {} /\ AtMostOne(Doing(K)')
  <2>1. c \in Doing(K)
    BY <1>0, <1>5, Heard
  <2>2. CallInv' /\ Doing(K)' = {}
    BY <1>0, <1>2, <1>5, <2>1, DoneWaits DEF Waits
  <2> QED
    BY <2>2 DEF AtMostOne
<1>6. ASSUME NEW next, NEW credits, screen' = [screen EXCEPT !.credits = credits, !.part = next]
      PROVE  /\ DOMAIN screen' = DOMAIN screen /\ screen'.at = "tipster"
             /\ screen'.tab = "chat" /\ screen'.part = next
  BY <1>2, <1>6 DEF TipsterInv
<1>7. ASSUME NEW next, Part(next)
      PROVE  /\ DOMAIN screen' = DOMAIN screen /\ screen'.at = "tipster"
             /\ screen'.tab = "chat" /\ screen'.part = next
  BY <1>2, <1>7 DEF Part, TipsterInv
<1> HIDE DEF K
<1>8. CASE onSearch
  <2> PICK next : next = [screen.part EXCEPT !.found = {}, !.candidates = {}, !.busy = TRUE]
    OBVIOUS
  <2>1. /\ Part(next) /\ Ask("search", {}) /\ ~screen.part.busy /\ held = {}
        /\ UNCHANGED <<account, browser>>
    BY <1>8 DEF onSearch, Usable
  <2>2. DOMAIN next = DOMAIN screen.part /\ next.busy = TRUE
    BY <1>2 DEF TipsterInv
  <2>3. ClientInv'
    BY <1>3, <1>4, <1>7, <2>1, <2>2 DEF browser
  <2> QED
    BY <1>0, <2>1, <2>3, ClientOnly DEF browser
<1>9. ASSUME NEW g \in Games, confirm(g) PROVE AppInv'
  <2>1. held = {} /\ ~screen.part.busy /\ UNCHANGED <<account, locked>>
    BY <1>9 DEF confirm, Usable
  <2>2. CASE onConfirm(g) /\ UNCHANGED held
    BY <1>0, <1>1, <2>1, <2>2, ConfirmRuns, ClientOnly DEF onConfirm
  <2>3. CASE /\ held' = {[what |-> "confirm", about |-> g, here |-> TRUE]}
             /\ UNCHANGED <<screen, call, coupon>>
    <3> PICK what : what = "confirm"
      OBVIOUS
    <3>0. /\ what \notin {"cat", "coupon", "tipster"} /\ what # "coupon" /\ what # "analyze"
          /\ held' = {[what |-> what, about |-> g, here |-> TRUE]}
          /\ UNCHANGED <<screen, call>>
      BY <2>3
    <3>1. ClientInv'
      BY <1>0, <1>1, <2>1, <3>0, HeldOne, SMTT(20)
    <3> QED
      BY <1>0, <2>1, <2>3, <3>1, ClientOnly
  <2> QED
    BY <1>9, <2>2, <2>3 DEF confirm, RequireUnlock
<1>10. ASSUME NEW c \in Calls, GotMatches(c) PROVE AppInv'
  <2>1. /\ Done(c) /\ (Answered(c, "search") \/ Failed(c, "search"))
        /\ UNCHANGED <<account, browser>>
    BY <1>10 DEF GotMatches
  <2> PICK next, games : \/ /\ next = [screen.part EXCEPT !.candidates = games, !.busy = FALSE]
                            /\ Part(next)
                         \/ next = [screen.part EXCEPT !.busy = FALSE] /\ Part(next)
    BY <1>10 DEF GotMatches
  <2>2. Part(next) /\ DOMAIN next = DOMAIN screen.part /\ next.busy = FALSE
    BY <1>2 DEF TipsterInv
  <2>3. ClientInv'
    BY <1>3, <1>5, <1>7, <2>1, <2>2 DEF browser
  <2> QED
    BY <1>0, <2>1, <2>3, ClientOnly DEF browser
<1>11. ASSUME NEW c \in Calls, GotAnalysis(c) PROVE AppInv'
  <2>1. /\ Done(c) /\ (Answered(c, "analyze") \/ Failed(c, "analyze"))
        /\ UNCHANGED <<account, browser>>
    BY <1>11 DEF GotAnalysis
  <2>2. \E next : /\ DOMAIN next = DOMAIN screen.part /\ next.busy = FALSE
                 /\ DOMAIN screen' = DOMAIN screen /\ screen'.at = "tipster"
                 /\ screen'.tab = "chat" /\ screen'.part = next
    <3>1. CASE Answered(c, "analyze")
      <4> PICK credits, next :
            /\ credits = {call[c].data}
            /\ next = [screen.part EXCEPT !.last = "assistant", !.found = {}, !.busy = FALSE]
        OBVIOUS
      <4>1. ~Failed(c, "analyze")
        BY <3>1 DEF Answered, Failed
      <4>2. screen' = [screen EXCEPT !.credits = credits,
                         !.part = [@ EXCEPT !.last = "assistant", !.found = {}, !.busy = FALSE]]
        BY <1>11, <4>1 DEF GotAnalysis
      <4>3. screen' = [screen EXCEPT !.credits = credits, !.part = next]
        BY <1>2, <4>2 DEF TipsterInv
      <4>4. DOMAIN next = DOMAIN screen.part /\ next.busy = FALSE
        BY <1>2 DEF TipsterInv
      <4> QED
        BY <1>6, <4>3, <4>4
    <3>2. CASE Failed(c, "analyze")
      <4> PICK need, next : next = [screen.part EXCEPT !.busy = FALSE, !.needCredits = need]
                            /\ Part(next)
        <5>1. ~Answered(c, "analyze")
          BY <3>2 DEF Answered, Failed
        <5> QED
          BY <1>11, <5>1 DEF GotAnalysis
      <4>1. DOMAIN next = DOMAIN screen.part /\ next.busy = FALSE
        BY <1>2 DEF TipsterInv
      <4> QED
        BY <1>7, <4>1
    <3> QED
      BY <2>1, <3>1, <3>2
  <2>3. ClientInv'
    BY <1>3, <1>5, <2>1, <2>2 DEF browser
  <2> QED
    BY <1>0, <2>1, <2>3, ClientOnly DEF browser
<1> QED
  BY <1>8, <1>9, <1>10, <1>11

\* An analysis is asked for, of a game in play, at once or when the popup lets it.
LEMMA AnalyzeRuns ==
  ASSUME ClientInv, On("aovivo"), NEW g, onAnalyze(g), held' = {}
  PROVE  ClientInv'
<1>1. /\ CallInv /\ ScreenInv /\ Waits(screen.part.loading, {"games"})
      /\ screen.at = "tipster" /\ screen.tab = "aovivo" /\ TipsterInv /\ ~On("chat")
  BY DEF ClientInv, BusyInv, On, ScreenInv
<1> PICK next : next = [screen.part EXCEPT !.busyId = {g}, !.needCredits = FALSE]
  OBVIOUS
<1>2. screen' = [screen EXCEPT !.part = next] /\ Ask("analyze", g)
  BY DEF onAnalyze, Part
<1>3. /\ DOMAIN screen' = DOMAIN screen /\ screen'.at = "tipster" /\ screen'.tab = screen.tab
      /\ screen'.part = next /\ DOMAIN next = DOMAIN screen.part
      /\ next.loading = screen.part.loading /\ next.busyId = {g}
      /\ screen.part.loading \in BOOLEAN
  BY <1>1, <1>2 DEF TipsterInv
<1>4. GoodRequest("analyze", g) /\ "analyze" \notin {"games"}
  BY DEF GoodRequest
<1>5. CallInv' /\ Doing({"games"})' = Doing({"games"})
  BY <1>1, <1>2, <1>4, AskWaits
<1>6. \E c \in Doing({"analyze"})' : call'[c].about = g
  <2>1. PICK n \in Calls : call'[n] = Request("analyze", g)
    BY <1>1, <1>2, <1>4, AskEffect
  <2> QED
    BY <2>1 DEF Doing, Live, Request
<1>7. Waits(screen.part.loading, {"games"})' /\ screen'.part.loading \in BOOLEAN
  BY <1>1, <1>3, <1>5 DEF Waits
<1>8. HeldInv'
  BY DEF HeldInv
<1> QED
  BY <1>1, <1>3, <1>5, <1>6, <1>7, <1>8, TipsterKept

\* The games in play: loading, and the game that is being analysed.
LEMMA LiveKept ==
  ASSUME AppInv,
         \/ refresh \/ \E g \in Games : analyze(g)
         \/ \E c \in Calls : GotGames(c) \/ GotResult(c)
  PROVE  AppInv'
<1>0. ClientInv /\ CallInv /\ ScreenInv /\ HeldInv /\ coupon \in Coupons
  BY DEF AppInv, ClientInv, BrowserInv
<1>1. On("aovivo")
  BY DEF refresh, analyze, GotGames, GotResult, Usable
<1>2. /\ screen.at = "tipster" /\ screen.tab = "aovivo" /\ TipsterInv /\ ~On("chat")
      /\ Waits(screen.part.loading, {"games"})
      /\ \A g \in screen.part.busyId : \E c \in Doing({"analyze"}) : call[c].about = g
  BY <1>0, <1>1 DEF On, ScreenInv, ClientInv, BusyInv
<1>3. ASSUME NEW next, DOMAIN next = DOMAIN screen.part, next.loading \in BOOLEAN,
             DOMAIN screen' = DOMAIN screen, screen'.at = "tipster", screen'.tab = "aovivo",
             screen'.part = next,
             CallInv', AtMostOne(Doing({"games"})'), next.loading <=> Doing({"games"})' # {},
             \A g \in next.busyId : \E c \in Doing({"analyze"})' : call'[c].about = g,
             held' = held
      PROVE  ClientInv'
  <2>1. HeldInv'
    BY <1>0, <1>2, <1>3, HeldStays
  <2>2. Waits(screen.part.loading, {"games"})'
    BY <1>3 DEF Waits
  <2> QED
    BY <1>0, <1>2, <1>3, <2>1, <2>2, TipsterKept
<1>4. ASSUME NEW next, Part(next)
      PROVE  /\ DOMAIN screen' = DOMAIN screen /\ screen'.at = "tipster"
             /\ screen'.tab = "aovivo" /\ screen'.part = next
  BY <1>2, <1>4 DEF Part, TipsterInv
<1>5. AtMostOne(Doing({"games"})) /\ (screen.part.loading <=> Doing({"games"}) # {})
      /\ AtMostOne({}) /\ "games" \notin {"analyze"} /\ "analyze" \notin {"games"}
  BY <1>2 DEF Waits, AtMostOne
<1>6. CASE refresh
  <2> PICK next : next = [screen.part EXCEPT !.loading = TRUE]
    OBVIOUS
  <2>1. /\ Part(next) /\ Ask("games", {}) /\ ~screen.part.loading
        /\ UNCHANGED <<account, browser>>
    BY <1>6 DEF refresh
  <2>2. /\ DOMAIN next = DOMAIN screen.part /\ next.loading = TRUE
        /\ next.busyId = screen.part.busyId
    BY <1>2 DEF TipsterInv
  <2>3. GoodRequest("games", {})
    BY DEF GoodRequest
  <2>4. CallInv' /\ AtMostOne(Doing({"games"})') /\ Doing({"games"})' # {}
    BY <1>0, <1>5, <2>1, <2>3, AskWaits
  <2>5. /\ Doing({"analyze"})' = Doing({"analyze"})
        /\ \A d \in Doing({"analyze"}) : call'[d].about = call[d].about
    BY <1>0, <1>5, <2>1, <2>3, OthersStay
  <2>6. \A g \in next.busyId : \E c \in Doing({"analyze"})' : call'[c].about = g
    BY <1>2, <2>2, <2>5
  <2>7. ClientInv'
    BY <1>3, <1>4, <2>1, <2>2, <2>4, <2>6 DEF browser
  <2> QED
    BY <1>0, <2>1, <2>7, ClientOnly DEF browser
<1>7. ASSUME NEW g \in Games, analyze(g) PROVE AppInv'
  <2>1. held = {} /\ UNCHANGED <<account, locked>>
    BY <1>7 DEF analyze, Usable
  <2>2. CASE onAnalyze(g) /\ UNCHANGED held
    BY <1>0, <1>1, <2>1, <2>2, AnalyzeRuns, ClientOnly DEF onAnalyze
  <2>3. CASE /\ held' = {[what |-> "analyze", about |-> g, here |-> TRUE]}
             /\ UNCHANGED <<screen, call, coupon>>
    <3> PICK what : what = "analyze"
      OBVIOUS
    <3>1. ClientInv'
      BY <1>0, <1>1, <2>3, HeldOne
    <3> QED
      BY <1>0, <2>1, <2>3, <3>1, ClientOnly
  <2> QED
    BY <1>7, <2>2, <2>3 DEF analyze, RequireUnlock
<1>8. ASSUME NEW c \in Calls, GotGames(c) PROVE AppInv'
  <2>1. /\ Done(c) /\ (Answered(c, "games") \/ Failed(c, "games"))
        /\ UNCHANGED <<account, browser>>
    BY <1>8 DEF GotGames
  <2> PICK next, live, up :
        \/ /\ next = [screen.part EXCEPT !.list = live, !.upcoming = up, !.loading = FALSE]
           /\ Part(next)
        \/ next = [screen.part EXCEPT !.loading = FALSE] /\ Part(next)
    BY <1>8 DEF GotGames
  <2>2. /\ Part(next) /\ DOMAIN next = DOMAIN screen.part /\ next.loading = FALSE
        /\ next.busyId = screen.part.busyId
    BY <1>2 DEF TipsterInv
  <2>3. c \in Doing({"games"}) /\ c \notin Doing({"analyze"})
    BY <1>0, <2>1, Heard
  <2>4. CallInv' /\ Doing({"games"})' = {}
    BY <1>0, <1>5, <2>1, <2>3, DoneWaits
  <2>5. /\ Doing({"analyze"})' = Doing({"analyze"})
        /\ \A d \in Doing({"analyze"}) : call'[d].about = call[d].about
    BY <1>0, <2>1, <2>3, OthersStay
  <2>6. \A g \in next.busyId : \E d \in Doing({"analyze"})' : call'[d].about = g
    BY <1>2, <2>2, <2>5
  <2>7. ClientInv'
    BY <1>3, <1>4, <1>5, <2>1, <2>2, <2>4, <2>6 DEF browser
  <2> QED
    BY <1>0, <2>1, <2>7, ClientOnly DEF browser
<1>9. ASSUME NEW c \in Calls, GotResult(c) PROVE AppInv'
  <2>1. /\ Done(c) /\ (Answered(c, "analyze") \/ Failed(c, "analyze"))
        /\ UNCHANGED <<account, browser>>
    BY <1>9 DEF GotResult
  <2>2. \E next : /\ DOMAIN next = DOMAIN screen.part /\ next.loading = screen.part.loading
                  /\ next.busyId = {}
                  /\ DOMAIN screen' = DOMAIN screen /\ screen'.at = "tipster"
                  /\ screen'.tab = "aovivo" /\ screen'.part = next
    <3>1. CASE Answered(c, "analyze")
      <4> PICK credits, about, next :
            /\ credits = {call[c].data} /\ about = {call[c].about}
            /\ next = [screen.part EXCEPT !.result = about, !.busyId = {}]
        OBVIOUS
      <4>1. ~Failed(c, "analyze")
        BY <3>1 DEF Answered, Failed
      <4>2. screen' = [screen EXCEPT !.credits = credits,
                         !.part = [@ EXCEPT !.result = about, !.busyId = {}]]
        BY <1>9, <4>1 DEF GotResult
      <4>3. /\ DOMAIN screen' = DOMAIN screen /\ screen'.at = "tipster"
            /\ screen'.tab = "aovivo" /\ screen'.part = next
        BY <1>2, <4>2 DEF TipsterInv
      <4>4. /\ DOMAIN next = DOMAIN screen.part /\ next.loading = screen.part.loading
            /\ next.busyId = {}
        BY <1>2 DEF TipsterInv
      <4> QED
        BY <4>3, <4>4
    <3>2. CASE Failed(c, "analyze")
      <4> PICK need, next : next = [screen.part EXCEPT !.busyId = {}, !.needCredits = need]
                            /\ Part(next)
        <5>1. ~Answered(c, "analyze")
          BY <3>2 DEF Answered, Failed
        <5> QED
          BY <1>9, <5>1 DEF GotResult
      <4>1. /\ DOMAIN next = DOMAIN screen.part /\ next.loading = screen.part.loading
            /\ next.busyId = {}
        BY <1>2 DEF TipsterInv
      <4> QED
        BY <1>4, <4>1
    <3> QED
      BY <2>1, <3>1, <3>2
  <2>3. c \notin Doing({"games"})
    BY <1>0, <2>1, <1>5, Heard
  <2>4. CallInv' /\ Doing({"games"})' = Doing({"games"})
    BY <1>0, <2>1, <2>3, DoneWaits
  <2>5. screen.part.loading \in BOOLEAN
    BY <1>2 DEF TipsterInv
  <2>6. ClientInv'
    BY <1>3, <1>5, <2>1, <2>2, <2>4, <2>5 DEF browser
  <2> QED
    BY <1>0, <2>1, <2>6, ClientOnly DEF browser
<1> QED
  BY <1>6, <1>7, <1>8, <1>9

\* Another tab: what the one before waited for is nobody's, but for the balances.
LEMMA TabKept ==
  ASSUME AppInv, NEW tab, setTab(tab)
  PROVE  AppInv'
<1>0. ClientInv /\ CallInv /\ ScreenInv /\ coupon \in Coupons
  BY DEF AppInv, ClientInv, BrowserInv
<1>1. /\ screen.at = "tipster" /\ held = {} /\ UNCHANGED <<account, browser>> /\ TipsterInv
  BY <1>0 DEF setTab, ScreenInv
<1>2. HeldInv'
  BY <1>1 DEF HeldInv, browser
<1>3. ASSUME NEW kinds \in SUBSET Plain, Asks(TabOrphans, kinds), NEW K, K \cap {"me", "late"} = {}
      PROVE  /\ CallInv'
             /\ kinds \cap K = {} => Doing(K)' = {}
             /\ \A k : kinds \cap K = {k} => AtMostOne(Doing(K)') /\ Doing(K)' # {}
  BY <1>0, <1>3, TabEffect
<1>4. ASSUME NEW kinds, NEW next, Asks(TabOrphans, kinds),
             screen' = [screen EXCEPT !.tab = tab, !.part = next],
             \/ tab = "chat" /\ kinds = {"upcoming"} /\ next = TipsterChat
             \/ tab = "aovivo" /\ kinds = {"games"} /\ next = TipsterLive
             \/ tab = "tutorial" /\ kinds = {}
      PROVE  ClientInv'
  <2>1. /\ DOMAIN screen' = DOMAIN screen /\ screen'.at = "tipster" /\ screen'.tab = tab
        /\ screen'.part = next
    BY <1>1, <1>4 DEF TipsterInv
  <2>2. TipsterInv'
    <3>0. DOMAIN screen' = {"at", "tab", "credits", "buy", "part"}
      BY <1>1, <2>1 DEF TipsterInv
    <3>1. CASE tab = "chat"
      <4>1. next = TipsterChat
        BY <1>4, <3>1
      <4> QED
        BY <2>1, <3>0, <3>1, <4>1 DEF TipsterInv, TipsterChat
    <3>2. CASE tab = "aovivo"
      <4>1. next = TipsterLive
        BY <1>4, <3>2
      <4> QED
        BY <2>1, <3>0, <3>2, <4>1 DEF TipsterInv, TipsterLive
    <3>3. CASE tab = "tutorial"
      BY <2>1, <3>0, <3>3 DEF TipsterInv
    <3> QED
      BY <1>4, <3>1, <3>2, <3>3
  <2>3. ScreenInv'
    BY <2>1, <2>2 DEF ScreenInv, Routes
  <2>4. kinds \in SUBSET Plain
    BY <1>4 DEF Plain, Reads
  <2>5. CallInv'
    <3>1. {} \cap {"me", "late"} = {}
      OBVIOUS
    <3> QED
      BY <1>3, <1>4, <2>4, <3>1
  <2>6. tab = "chat" => Waits(screen.part.busy, {"search", "analyze"})'
    <3>1. tab = "chat" => /\ kinds \cap {"search", "analyze"} = {} /\ next.busy = FALSE
      BY <1>4 DEF TipsterChat
    <3>2. {"search", "analyze"} \cap {"me", "late"} = {}
      OBVIOUS
    <3>3. tab = "chat" => Doing({"search", "analyze"})' = {}
      BY <1>3, <1>4, <2>4, <3>1, <3>2
    <3> QED
      BY <2>1, <3>1, <3>3 DEF Waits, AtMostOne
  <2>7. tab = "aovivo" => Waits(screen.part.loading, {"games"})' /\ screen'.part.busyId = {}
    <3>1. tab = "aovivo" => /\ kinds \cap {"games"} = {"games"} /\ next.loading = TRUE
                            /\ next.busyId = {}
      BY <1>4 DEF TipsterLive
    <3>2. {"games"} \cap {"me", "late"} = {}
      OBVIOUS
    <3>3. tab = "aovivo" => AtMostOne(Doing({"games"})') /\ Doing({"games"})' # {}
      BY <1>3, <1>4, <2>4, <3>1, <3>2
    <3> QED
      BY <2>1, <3>1, <3>3 DEF Waits
  <2>8. BusyInv'
    BY <2>1, <2>6, <2>7 DEF BusyInv, On
  <2> QED
    BY <1>2, <2>3, <2>5, <2>8 DEF ClientInv
<1>5. ClientInv'
  <2>1. \/ /\ tab = "chat" /\ screen' = [screen EXCEPT !.tab = tab, !.part = TipsterChat]
           /\ Asks(TabOrphans, {"upcoming"})
        \/ /\ tab = "aovivo" /\ screen' = [screen EXCEPT !.tab = tab, !.part = TipsterLive]
           /\ Asks(TabOrphans, {"games"})
        \/ /\ tab = "tutorial" /\ screen' = [screen EXCEPT !.tab = tab, !.part = {}]
           /\ Asks(TabOrphans, {})
    BY DEF setTab
  <2> HIDE DEF TabOrphans
  <2> QED
    BY <1>4, <2>1
<1> QED
  BY <1>0, <1>1, <1>5, ClientOnly DEF browser

-----------------------------------------------------------------------------
(* The profile.                                                            *)

\* A step on the profile, by what it leaves of saving.
LEMMA PerfilStep ==
  ASSUME AppInv, screen.at = "perfil", UNCHANGED <<account, browser>>,
         DOMAIN screen' = DOMAIN screen, screen'.at = "perfil", screen'.saving \in BOOLEAN,
         CallInv', Waits(screen.saving, {"profile"})'
  PROVE  AppInv'
<1>1. /\ ScreenInv /\ HeldInv /\ coupon \in Coupons
      /\ DOMAIN screen = {"at", "me", "gam", "detail", "picker", "editing", "saving"}
  BY DEF AppInv, ClientInv, ScreenInv, BrowserInv
<1>2. ScreenInv'
  BY <1>1 DEF ScreenInv, Routes
<1>3. HeldInv'
  BY <1>1, HeldStays DEF browser, On
<1>4. BusyInv'
  BY DEF BusyInv, On
<1>5. ClientInv'
  BY <1>2, <1>3, <1>4 DEF ClientInv
<1> QED
  BY <1>1, <1>5, ClientOnly DEF browser

LEMMA PerfilKept ==
  ASSUME AppInv,
         \/ \E c \in Calls : GotMe(c) \/ GotGamification(c) \/ Saved(c)
         \/ \E open \in BOOLEAN : setDetailOpen(open)
         \/ setAvatarPickerOpen \/ setEditingNickname
         \/ \E a \in Avatars : pickAvatar(a)
         \/ \E n \in Nicknames : saveNickname(n)
  PROVE  AppInv'
<1>0. CallInv /\ ScreenInv
  BY DEF AppInv, ClientInv
<1>1. screen.at = "perfil" /\ UNCHANGED <<account, browser>>
  BY DEF GotMe, GotGamification, Saved, setDetailOpen, setAvatarPickerOpen,
     setEditingNickname, pickAvatar, saveNickname, Loaded, Reachable
<1>2. /\ DOMAIN screen = {"at", "me", "gam", "detail", "picker", "editing", "saving"}
      /\ screen.saving \in BOOLEAN /\ Waits(screen.saving, {"profile"})
  BY <1>0, <1>1 DEF ScreenInv, AppInv, ClientInv, BusyInv
<1>3. ASSUME DOMAIN screen' = DOMAIN screen, screen'.at = "perfil",
             screen'.saving = screen.saving, CallInv', Doing({"profile"})' = Doing({"profile"})
      PROVE  AppInv'
  BY <1>1, <1>2, <1>3, PerfilStep DEF Waits
<1>4. ASSUME NEW c \in Calls, GotMe(c) \/ GotGamification(c) PROVE AppInv'
  <2>1. /\ Done(c)
        /\ \/ Answered(c, "me") \/ Failed(c, "me")
           \/ Answered(c, "gamification") \/ Failed(c, "gamification")
    BY <1>4 DEF GotMe, GotGamification
  <2>2. c \notin Doing({"profile"})
    <3>1. "me" \notin {"profile"} /\ "gamification" \notin {"profile"}
      OBVIOUS
    <3> QED
      BY <1>0, <2>1, <3>1, Heard
  <2>3. CallInv' /\ Doing({"profile"})' = Doing({"profile"})
    BY <1>0, <2>1, <2>2, DoneWaits
  <2> PICK me : \/ screen' = [screen EXCEPT !.me = me] \/ screen' = [screen EXCEPT !.gam = TRUE]
                \/ screen' = screen
    BY <1>4 DEF GotMe, GotGamification
  <2> QED
    BY <1>1, <1>2, <1>3, <2>3
<1>5. ASSUME \/ \E open \in BOOLEAN : setDetailOpen(open)
             \/ setAvatarPickerOpen \/ setEditingNickname
      PROVE  AppInv'
  <2>1. UNCHANGED call
    BY <1>5 DEF setDetailOpen, setAvatarPickerOpen, setEditingNickname
  <2>2. CallInv' /\ Doing({"profile"})' = Doing({"profile"})
    BY <1>0, <2>1 DEF CallInv, Doing, Live
  <2> PICK x : \/ screen' = [screen EXCEPT !.detail = x] \/ screen' = [screen EXCEPT !.picker = x]
               \/ screen' = [screen EXCEPT !.editing = x]
    BY <1>5 DEF setDetailOpen, setAvatarPickerOpen, setEditingNickname
  <2> QED
    BY <1>1, <1>2, <1>3, <2>2
<1>6. ASSUME NEW c \in Calls, Saved(c) PROVE AppInv'
  <2>1. Done(c) /\ (Answered(c, "profile") \/ Failed(c, "profile"))
    BY <1>6 DEF Saved
  <2>2. CallInv' /\ Doing({"profile"})' = {}
    BY <1>0, <1>2, <2>1, Heard, DoneWaits DEF Waits
  <2> PICK me, editing : screen' = [screen EXCEPT !.me = me, !.saving = FALSE, !.editing = editing]
    BY <1>6 DEF Saved
  <2>3. DOMAIN screen' = DOMAIN screen /\ screen'.at = "perfil" /\ screen'.saving = FALSE
    BY <1>1, <1>2
  <2>4. Waits(screen.saving, {"profile"})'
    BY <2>2, <2>3 DEF Waits, AtMostOne
  <2> QED
    BY <1>1, <2>2, <2>3, <2>4, PerfilStep
<1>7. ASSUME NEW patch, Ask("profile", patch), GoodRequest("profile", patch), ~screen.saving,
             DOMAIN screen' = DOMAIN screen, screen'.at = "perfil", screen'.saving = TRUE
      PROVE  AppInv'
  <2>1. CallInv' /\ AtMostOne(Doing({"profile"})') /\ Doing({"profile"})' # {}
    BY <1>0, <1>2, <1>7, AskWaits DEF Waits
  <2>2. Waits(screen.saving, {"profile"})'
    BY <1>7, <2>1 DEF Waits
  <2> QED
    BY <1>1, <1>7, <2>1, <2>2, PerfilStep
<1>8. ASSUME NEW a \in Avatars, pickAvatar(a) PROVE AppInv'
  <2> PICK patch : patch = [avatar |-> {a}, nickname |-> {}]
    OBVIOUS
  <2> PICK same \in BOOLEAN :
        /\ screen' = [screen EXCEPT !.picker = FALSE, !.saving = ~same]
        /\ IF same THEN UNCHANGED call ELSE Ask("profile", patch)
    BY <1>8, Zenon DEF pickAvatar
  <2>1. /\ DOMAIN screen' = DOMAIN screen /\ screen'.at = "perfil" /\ screen'.saving = ~same
        /\ ~screen.saving
    BY <1>1, <1>2, <1>8 DEF pickAvatar
  <2>2. CASE same
    <3>1. CallInv' /\ Doing({"profile"})' = Doing({"profile"})
      BY <1>0, <2>2 DEF CallInv, Doing, Live
    <3> QED
      BY <1>2, <1>3, <2>1, <2>2, <3>1
  <2>3. CASE ~same
    <3>1. GoodRequest("profile", patch)
      BY DEF GoodRequest, Options
    <3> QED
      BY <1>7, <2>1, <2>3, <3>1
  <2> QED
    BY <2>2, <2>3
<1>9. ASSUME NEW n \in Nicknames, saveNickname(n) PROVE AppInv'
  <2> PICK patch : patch = [avatar |-> {}, nickname |-> {n}]
    OBVIOUS
  <2>1. /\ DOMAIN screen' = DOMAIN screen /\ screen'.at = "perfil" /\ screen'.saving = TRUE
        /\ ~screen.saving /\ Ask("profile", patch)
    BY <1>1, <1>2, <1>9 DEF saveNickname
  <2>2. GoodRequest("profile", patch)
    BY DEF GoodRequest, Options
  <2> QED
    BY <1>7, <2>1, <2>2
<1> QED
  BY <1>4, <1>5, <1>6, <1>8, <1>9

-----------------------------------------------------------------------------
(* The backoffice.                                                         *)

LEMMA AdminStep ==
  ASSUME AppInv, screen.at = "admin", UNCHANGED <<account, browser>>,
         screen'.at = "admin", AdminInv', CallInv', Owed(screen.busy, BusyKinds)'
  PROVE  AppInv'
<1>1. HeldInv /\ coupon \in Coupons
  BY DEF AppInv, ClientInv, BrowserInv
<1>2. ScreenInv'
  BY DEF ScreenInv, Routes
<1>3. HeldInv'
  BY <1>1, HeldStays DEF browser, On
<1>4. BusyInv'
  BY DEF BusyInv, On
<1>5. ClientInv'
  BY <1>2, <1>3, <1>4 DEF ClientInv
<1> QED
  BY <1>1, <1>5, ClientOnly DEF browser

LEMMA AdminNow ==
  ASSUME AppInv, screen.at = "admin"
  PROVE  CallInv /\ AdminInv /\ Owed(screen.busy, BusyKinds)
  BY DEF AppInv, ClientInv, ScreenInv, BusyInv

\* What sets busy, whether or not it is set already.
LEMMA WorkKept ==
  ASSUME AppInv, screen.at = "admin", NEW kind \in BusyKinds, NEW about,
         GoodRequest(kind, about), Work(kind, about)
  PROVE  AppInv'
<1>1. CallInv /\ AdminInv
  BY AdminNow
<1>2. /\ screen' = [screen EXCEPT !.busy = TRUE] /\ Ask(kind, about)
      /\ UNCHANGED <<account, browser>>
  BY DEF Work
<1>3. AdminInv' /\ screen'.at = "admin"
  BY <1>1, <1>2 DEF AdminInv
<1>4. CallInv' /\ Doing(BusyKinds)' # {}
  BY <1>1, <1>2, AskWaits
<1> QED
  BY <1>2, <1>3, <1>4, AdminStep DEF Owed

LEMMA SubmitKept ==
  ASSUME AppInv, screen.at = "admin", NEW kind \in BusyKinds, NEW about,
         GoodRequest(kind, about), Submit(kind, about)
  PROVE  AppInv'
  BY WorkKept DEF Submit

\* What leaves busy alone.
LEMMA AdminQuiet ==
  ASSUME AppInv, screen.at = "admin", UNCHANGED <<account, browser>>,
         screen'.at = "admin", AdminInv', screen'.busy = screen.busy,
         CallInv', Doing(BusyKinds)' = Doing(BusyKinds)
  PROVE  AppInv'
<1>1. Owed(screen.busy, BusyKinds)'
  BY AdminNow DEF Owed
<1> QED
  BY <1>1, AdminStep

\* The form stays honest whatever is picked.
LEMMA FormKept ==
  ASSUME NEW f, FormInv(f)
  PROVE  /\ FormInv(EMPTY) /\ \A legs : FormInv([EMPTY EXCEPT !.legs = legs])
         /\ \A legs : FormInv([f EXCEPT !.byHand = TRUE, !.legs = legs])
         /\ \A pasted \in {{}, {OfficialCoupon}} : FormInv([f EXCEPT !.pasted = pasted])
         /\ \A o \in Odds :
              FormInv([f EXCEPT !.says = {<<s[1], o>> : s \in @}, !.oddId = {o}])
         /\ \A g \in Games, o \in Odds :
              FormInv([f EXCEPT !.event = {g}, !.oddId = {o}, !.says = {<<g, o>>}, !.byHand = FALSE])
<1>1. FormInv(EMPTY) /\ \A legs : FormInv([EMPTY EXCEPT !.legs = legs])
  BY DEF FormInv, EMPTY, Options
<1>2. ASSUME NEW legs PROVE FormInv([f EXCEPT !.byHand = TRUE, !.legs = legs])
  BY DEF FormInv
<1>5. ASSUME NEW pasted \in {{}, {OfficialCoupon}} PROVE FormInv([f EXCEPT !.pasted = pasted])
  BY DEF FormInv
<1>3. ASSUME NEW o \in Odds
      PROVE  FormInv([f EXCEPT !.says = {<<s[1], o>> : s \in @}, !.oddId = {o}])
  <2> PICK says : says = {<<s[1], o>> : s \in f.says}
    OBVIOUS
  <2>1. says \in SUBSET Selections /\ {o} \in Options(Odds)
    BY DEF FormInv, Selections, Options
  <2>2. ASSUME ~f.byHand, NEW g \in f.event PROVE says = {<<g, o>>}
    <3>1. PICK first \in Odds : f.says = {<<g, first>>}
      BY <2>2 DEF FormInv
    <3> PICK s : s = <<g, first>>
      OBVIOUS
    <3>2. f.says = {s} /\ s[1] = g
      BY <3>1
    <3>3. says = {<<s[1], o>>}
      BY <3>2
    <3> QED
      BY <3>2, <3>3
  <2> PICK n : n = [f EXCEPT !.says = says, !.oddId = {o}]
    OBVIOUS
  <2>3. FormInv(n)
    BY <2>1, <2>2 DEF FormInv
  <2>4. [f EXCEPT !.says = {<<s[1], o>> : s \in @}, !.oddId = {o}] = n
    BY DEF FormInv
  <2> QED
    BY <2>3, <2>4
<1>4. ASSUME NEW g \in Games, NEW o \in Odds
      PROVE  FormInv([f EXCEPT !.event = {g}, !.oddId = {o}, !.says = {<<g, o>>}, !.byHand = FALSE])
  <2>1. {g} \in Options(Games) /\ {o} \in Options(Odds) /\ {<<g, o>>} \in SUBSET Selections
    BY DEF Options, Selections
  <2> PICK n : n = [f EXCEPT !.event = {g}, !.oddId = {o}, !.says = {<<g, o>>}, !.byHand = FALSE]
    OBVIOUS
  <2>2. /\ DOMAIN n = DOMAIN f /\ n.event = {g} /\ n.oddId = {o} /\ n.says = {<<g, o>>}
        /\ n.byHand = FALSE
    BY DEF FormInv
  <2>3. FormInv(n)
    BY <2>1, <2>2 DEF FormInv
  <2> QED
    BY <2>3
<1> QED
  BY <1>1, <1>2, <1>3, <1>4, <1>5

LEMMA PickedKept ==
  ASSUME AdminInv, NEW g \in Games
  PROVE  FormInv(Picked(g))
<1>1. FirstSelection \in Odds
  BY BackofficeAssumption DEF FirstSelection
<1> PICK o : o = FirstSelection
  OBVIOUS
<1> QED
  BY <1>1, FormKept DEF AdminInv, Picked

\* What the section that makes tickets sends.
LEMMA CreateRequests ==
  ASSUME AppInv, NEW categoria \in Categories,
         \/ onCreateFromEvents(categoria) \/ onGenerateFromBasket(categoria)
         \/ onCreate(categoria) \/ onImportBetslip(categoria)
  PROVE  AppInv'
<1>0. screen.at = "admin"
  BY DEF onCreateFromEvents, onGenerateFromBasket, onCreate, onImportBetslip, Section, Reachable
<1>1. AdminInv /\ FormInv(screen.form)
  BY <1>0, AdminNow DEF AdminInv
<1>2. {"fromEvents", "create", "betslip"} \subseteq BusyKinds
  BY DEF BusyKinds
<1>3. CASE onCreateFromEvents(categoria)
  <2>1. PICK pick \in [screen.approved -> Odds] :
          Submit("fromEvents", [categoria |-> categoria,
                                picks |-> {<<g, pick[g]>> : g \in DOMAIN pick}])
    BY <1>3, Zenon DEF onCreateFromEvents
  <2> PICK picks : picks = {<<g, pick[g]>> : g \in DOMAIN pick}
    OBVIOUS
  <2>2. picks \subseteq Selections
    BY <1>1 DEF AdminInv, Selections
  <2> PICK dto : dto = [categoria |-> categoria, picks |-> picks]
    OBVIOUS
  <2>3. GoodRequest("fromEvents", dto)
    BY <2>2 DEF GoodRequest
  <2> QED
    BY <1>0, <1>2, <2>1, <2>3, SubmitKept
<1>4. CASE onImportBetslip(categoria)
  <2> PICK dto : dto = [categoria |-> categoria]
    OBVIOUS
  <2>1. GoodRequest("betslip", dto) /\ Submit("betslip", dto)
    BY <1>4 DEF onImportBetslip, GoodRequest
  <2> QED
    BY <1>0, <1>2, <2>1, SubmitKept
<1>5. ASSUME NEW dto, Submit("create", dto),
             dto.categoria \in Categories, dto.event \in Options(Games),
             dto.says \in SUBSET Selections, dto.byHand \in BOOLEAN,
             CouponOf(dto) \in Coupons, Honest(dto.byHand, dto.says, CouponOf(dto))
      PROVE  AppInv'
  <2>1. GoodRequest("create", dto)
    BY <1>5 DEF GoodRequest
  <2> QED
    BY <1>0, <1>2, <1>5, <2>1, SubmitKept
<1>6. CASE onGenerateFromBasket(categoria)
  <2> PICK legs : legs = screen.basket
    OBVIOUS
  <2> PICK event, picks :
        /\ event = IF Cardinality(legs) = 1 THEN {l[1] : l \in legs} ELSE {}
        /\ picks = {[event |-> {l[1]}, oddId |-> {l[2]}] : l \in legs}
    OBVIOUS
  <2> PICK dto : dto = [of |-> "basket", categoria |-> categoria, says |-> legs,
                        byHand |-> FALSE, pasted |-> {}, event |-> event, picks |-> picks]
    OBVIOUS
  <2>1. Submit("create", dto)
    BY <1>6 DEF onGenerateFromBasket
  <2>2. legs \subseteq Selections /\ IsFiniteSet(legs)
    BY <1>1 DEF AdminInv
  <2>3. event \in Options(Games)
    <3>1. CASE Cardinality(legs) = 1
      <4>1. PICK l : legs = {l}
        BY <2>2, <3>1, FS_Singleton
      <4>2. event = {l[1]} /\ l[1] \in Games
        BY <2>2, <3>1, <4>1 DEF Selections
      <4> QED
        BY <4>2 DEF Options
    <3>2. CASE Cardinality(legs) # 1
      BY <3>2 DEF Options
    <3> QED
      BY <3>1, <3>2
  <2>4. buildBilheteShareUrl(picks) = {legs}
    <3> DEFINE pick(l) == [event |-> {l[1]}, oddId |-> {l[2]}]
               bet(p) == <<Only(p.event), Only(p.oddId)>>
    <3>1. \A l \in legs : /\ pick(l).event # {} /\ pick(l).oddId # {} /\ bet(pick(l)) = l
      BY <2>2 DEF Selections, Only
    <3>2. picks = {pick(l) : l \in legs}
      OBVIOUS
    <3>3. \A p \in picks : p.event # {} /\ p.oddId # {}
      BY <3>1, <3>2
    <3>4. {bet(p) : p \in picks} = legs
      <4> HIDE DEF pick, bet
      <4> QED
        BY <3>1, <3>2
    <3> QED
      BY <3>3, <3>4 DEF buildBilheteShareUrl
  <2>5. CouponOf(dto) = {legs}
    BY <2>4 DEF CouponOf
  <2>6. {legs} \in Coupons /\ Honest(FALSE, legs, {legs})
    BY <2>2 DEF Coupons, Options, Honest
  <2> QED
    BY <1>5, <2>1, <2>2, <2>3, <2>5, <2>6
<1>7. CASE onCreate(categoria)
  <2> PICK form : form = screen.form
    OBVIOUS
  <2> PICK multiple \in BOOLEAN : multiple <=> categoria = "multiplas"
    OBVIOUS
  <2> PICK pick : pick = IF multiple THEN [event |-> {}, oddId |-> {}]
                         ELSE [event |-> form.event, oddId |-> form.oddId]
    OBVIOUS
  <2>1. Submit("create", [of |-> "form", categoria |-> categoria, says |-> form.says,
                          byHand |-> form.byHand \/ multiple,
                          pasted |-> form.pasted, event |-> form.event, picks |-> {pick}])
    BY <1>7 DEF onCreate
  <2> PICK byHand \in BOOLEAN : byHand = (form.byHand \/ multiple)
    OBVIOUS
  <2> PICK pasted \in {{}, {OfficialCoupon}} : pasted = form.pasted
    BY <1>1 DEF FormInv
  <2> PICK dto : dto = [of |-> "form", categoria |-> categoria, says |-> form.says,
                        byHand |-> byHand, pasted |-> pasted, event |-> form.event,
                        picks |-> {pick}]
    OBVIOUS
  <2>2. Submit("create", dto)
    BY <2>1
  <2>0. /\ dto.categoria = categoria /\ dto.event = form.event /\ dto.says = form.says
        /\ dto.byHand = byHand /\ form.event \in Options(Games) /\ form.says \in SUBSET Selections
    BY <1>1 DEF FormInv
  <2>5. ASSUME NEW bets \in Coupons, CouponOf(dto) = bets, Honest(byHand, form.says, bets)
        PROVE  AppInv'
    BY <1>5, <2>0, <2>2, <2>5
  <2>3. CASE pasted # {}
    <3>1. CouponOf(dto) = {OfficialCoupon}
      BY <2>3 DEF CouponOf
    <3>2. {OfficialCoupon} \in Coupons /\ Honest(byHand, form.says, {OfficialCoupon})
      BY DEF Coupons, Options, Honest, OfficialCoupon
    <3> QED
      BY <2>5, <3>1, <3>2
  <2>4. CASE pasted = {}
    <3>1. CouponOf(dto) = buildBilheteShareUrl({pick})
      BY <2>4 DEF CouponOf
    <3>2. CASE pick.event = {} \/ pick.oddId = {}
      <4>1. buildBilheteShareUrl({pick}) = {}
        BY <3>2 DEF buildBilheteShareUrl
      <4>2. {} \in Coupons /\ Honest(byHand, form.says, {})
        BY DEF Coupons, Options, Honest
      <4> QED
        BY <2>5, <3>1, <4>1, <4>2
    <3>3. CASE pick.event # {} /\ pick.oddId # {}
      <4>1. ~multiple /\ pick.event = form.event /\ pick.oddId = form.oddId
        BY <3>3
      <4>2. PICK g \in Games, o \in Odds : form.event = {g} /\ form.oddId = {o}
        BY <1>1, <3>3, <4>1 DEF FormInv, Options
      <4>3. Only(pick.event) = g /\ Only(pick.oddId) = o
        BY <4>1, <4>2 DEF Only
      <4> PICK bet : bet = {<<g, o>>}
        OBVIOUS
      <4>4. buildBilheteShareUrl({pick}) = {bet}
        <5>1. \A p \in {pick} : p.event # {} /\ p.oddId # {}
          BY <3>3
        <5> DEFINE leg(p) == <<Only(p.event), Only(p.oddId)>>
        <5>3. leg(pick) = <<g, o>>
          BY <4>3
        <5>2. {leg(p) : p \in {pick}} = bet
          <6> HIDE DEF leg
          <6> QED
            BY <5>3
        <5> QED
          BY <5>1, <5>2 DEF buildBilheteShareUrl
      <4>5. {bet} \in Coupons
        <5>1. bet \in SUBSET Selections
          BY DEF Selections
        <5> QED
          BY <5>1 DEF Coupons, Options
      <4>6. ~byHand => form.says = bet
        <5>1. ASSUME ~byHand PROVE form.says = bet
          <6>1. ~form.byHand /\ g \in form.event
            BY <4>2, <5>1
          <6>2. PICK x \in Odds : form.oddId = {x} /\ form.says = {<<g, x>>}
            BY <1>1, <6>1 DEF FormInv
          <6>3. x = o
            BY <4>2, <6>2
          <6> QED
            BY <6>2, <6>3
        <5> QED
          BY <5>1
      <4>7. Honest(byHand, form.says, {bet})
        BY <4>6 DEF Honest
      <4> QED
        BY <2>5, <3>1, <4>4, <4>5, <4>7
    <3> QED
      BY <3>2, <3>3
  <2> QED
    BY <2>3, <2>4
<1> QED
  BY <1>3, <1>4, <1>6, <1>7

\* What the section that makes tickets does besides.
LEMMA CreateKept ==
  ASSUME AppInv,
         \/ onSync("sync") \/ onSync("syncEvents") \/ onSync("generate")
         \/ \E kind \in {"shared", "preview"} : onPreviewLink(kind)
         \/ \E g \in Games : toggleApprovedEvent(g) \/ onPickEvent(g)
         \/ \E o \in Odds : onPickSelection(o)
         \/ \E s \in Selections : onToggleBasket(s)
         \/ typeOver \/ pasteShareUrl \/ clearBasket
  PROVE  AppInv'
<1>0. screen.at = "admin"
  BY DEF onSync, onPreviewLink, toggleApprovedEvent, onPickEvent, onPickSelection,
     onToggleBasket, typeOver, pasteShareUrl, clearBasket, Section, Reachable
<1>1. CallInv /\ AdminInv
  BY <1>0, AdminNow
<1>2. ASSUME NEW kind \in {"sync", "syncEvents", "generate", "shared", "preview"},
             Work(kind, {})
      PROVE  AppInv'
  <2>1. kind \in BusyKinds /\ GoodRequest(kind, {})
    BY DEF BusyKinds, GoodRequest
  <2> QED
    BY <1>0, <1>2, <2>1, WorkKept
<1>3. ASSUME onSync("sync") \/ onSync("syncEvents") \/ onSync("generate")
             \/ \E kind \in {"shared", "preview"} : onPreviewLink(kind)
      PROVE  AppInv'
  BY <1>2, <1>3 DEF onSync, onPreviewLink, Submit
<1>4. ASSUME UNCHANGED <<call, account, browser>>, AdminInv', screen'.at = "admin",
             screen'.busy = screen.busy
      PROVE  AppInv'
  <2>1. CallInv' /\ Doing(BusyKinds)' = Doing(BusyKinds)
    BY <1>1, <1>4 DEF CallInv, Doing, Live
  <2> QED
    BY <1>0, <1>4, <2>1, AdminQuiet
<1>5. ASSUME NEW g \in Games, toggleApprovedEvent(g) PROVE AppInv'
  <2> PICK approved \in SUBSET Games : screen' = [screen EXCEPT !.approved = approved]
    <3>1. PICK all : all = IF g \in screen.approved THEN screen.approved \ {g}
                           ELSE screen.approved \cup {g}
      OBVIOUS
    <3>2. all \in SUBSET Games
      BY <1>1, <3>1 DEF AdminInv
    <3>3. screen' = [screen EXCEPT !.approved = all]
      BY <1>1, <1>5, <3>1 DEF toggleApprovedEvent, AdminInv
    <3> QED
      BY <3>2, <3>3
  <2> QED
    BY <1>0, <1>1, <1>4, <1>5 DEF toggleApprovedEvent, AdminInv
<1>6. ASSUME NEW next, FormInv(next), Form(next), UNCHANGED <<call, account, browser>>
      PROVE  AppInv'
  <2>1. AdminInv' /\ screen'.at = "admin" /\ screen'.busy = screen.busy
    BY <1>0, <1>1, <1>6 DEF Form, AdminInv
  <2> QED
    BY <1>4, <1>6, <2>1
<1>7. ASSUME NEW g \in Games, onPickEvent(g) PROVE AppInv'
  <2>1. FormInv(Picked(g))
    BY <1>1, PickedKept
  <2> QED
    BY <1>6, <1>7, <2>1 DEF onPickEvent
<1>8. ASSUME NEW o \in Odds, onPickSelection(o) PROVE AppInv'
  <2> PICK next : next = [screen.form EXCEPT !.says = {<<s[1], o>> : s \in @}, !.oddId = {o}]
    OBVIOUS
  <2>1. FormInv(next)
    BY <1>1, FormKept DEF AdminInv
  <2> QED
    BY <1>6, <1>8, <2>1 DEF onPickSelection
<1>9. CASE typeOver
  <2>1. PICK legs \in BOOLEAN : Form([screen.form EXCEPT !.byHand = TRUE, !.legs = legs])
    BY <1>9 DEF typeOver
  <2>2. FormInv([screen.form EXCEPT !.byHand = TRUE, !.legs = legs])
    BY <1>1, FormKept DEF AdminInv
  <2> QED
    BY <1>6, <1>9, <2>1, <2>2 DEF typeOver
<1>13. CASE pasteShareUrl
  <2>1. PICK pasted \in {{}, {OfficialCoupon}} : Form([screen.form EXCEPT !.pasted = pasted])
    BY <1>13 DEF pasteShareUrl
  <2>2. FormInv([screen.form EXCEPT !.pasted = pasted])
    BY <1>1, FormKept DEF AdminInv
  <2> QED
    BY <1>6, <1>13, <2>1, <2>2 DEF pasteShareUrl
<1>10. ASSUME NEW basket \in SUBSET Selections, IsFiniteSet(basket),
              screen' = [screen EXCEPT !.basket = basket], UNCHANGED <<call, account, browser>>
       PROVE  AppInv'
  <2>1. AdminInv' /\ screen'.at = "admin" /\ screen'.busy = screen.busy
    BY <1>0, <1>1, <1>10 DEF AdminInv
  <2> QED
    BY <1>4, <1>10, <2>1
<1>11. ASSUME NEW s \in Selections, onToggleBasket(s) PROVE AppInv'
  <2> PICK others : others = {l \in screen.basket : l[1] # s[1] \/ MarketOf[l[2]] # MarketOf[s[2]]}
    OBVIOUS
  <2> PICK basket : basket = IF s \in screen.basket THEN screen.basket \ {s}
                             ELSE others \cup {s}
    OBVIOUS
  <2>1. screen.basket \subseteq Selections /\ IsFiniteSet(screen.basket)
    BY <1>1 DEF AdminInv
  <2>2. IsFiniteSet(others) /\ IsFiniteSet(screen.basket \ {s})
    BY <2>1, FS_Subset, FS_RemoveElement
  <2>3. basket \in SUBSET Selections /\ IsFiniteSet(basket)
    BY <2>1, <2>2, FS_AddElement
  <2>4. screen' = [screen EXCEPT !.basket = basket]
    BY <1>1, <1>11 DEF onToggleBasket, AdminInv
  <2> QED
    BY <1>10, <1>11, <2>3, <2>4 DEF onToggleBasket
<1>12. CASE clearBasket
  <2>1. {} \in SUBSET Selections /\ IsFiniteSet({})
    BY FS_EmptySet
  <2> QED
    BY <1>10, <1>12, <2>1 DEF clearBasket
<1> QED
  BY <1>3, <1>5, <1>7, <1>8, <1>9, <1>11, <1>12, <1>13

\* What the section that manages tickets does.
LEMMA ManageKept ==
  ASSUME AppInv,
         \/ \E section : setSection(section)
         \/ \E k \in Categories : onSaveEdit(k)
         \/ \E t \in (IF screen.at = "admin" THEN screen.items ELSE {}) :
              \/ onStartEdit(t)
              \/ onRow(t, "resultado", "green") \/ onRow(t, "resultado", "red")
              \/ onRow(t, "published", ~t.published) \/ onRow(t, "removed", TRUE)
  PROVE  AppInv'
<1>0. screen.at = "admin"
  BY DEF setSection, onSaveEdit, onStartEdit, onRow, Section, Reachable
<1>1. CallInv /\ AdminInv /\ ClientInv /\ HeldInv /\ coupon \in Coupons
  BY <1>0, AdminNow DEF AppInv, ClientInv, BrowserInv
<1>2. ASSUME NEW section, setSection(section) PROVE AppInv'
  <2> PICK next, kinds : next = AdminBilhetes(section) /\ kinds = {"lists"}
    OBVIOUS
  <2>1. Go(next, kinds) /\ UNCHANGED <<account, browser>> /\ Mounting(next, kinds)
    BY <1>2 DEF setSection, Mounting
  <2>2. CallInv' /\ ScreenInv' /\ BusyInv' /\ screen' = next
    BY <1>1, <2>1, MountKept
  <2>3. screen'.at = "admin"
    BY <2>2 DEF AdminBilhetes
  <2>4. HeldInv'
    BY <1>0, <1>1, <2>1, <2>3, HeldStays DEF browser, On
  <2>5. ClientInv'
    BY <2>2, <2>4 DEF ClientInv
  <2> QED
    BY <1>1, <2>1, <2>5, ClientOnly DEF browser
<1>3. ASSUME NEW categoria \in Categories, onSaveEdit(categoria) PROVE AppInv'
  <2>1. PICK e \in screen.edit, typed \in BOOLEAN : \E coupons \in {e.coupon, {}, {OfficialCoupon}} :
          Submit("edit", [id |-> e.id, categoria |-> categoria, coupon |-> coupons,
                          says |-> e.says, byHand |-> e.byHand \/ typed])
    BY <1>3 DEF onSaveEdit
  <2>2. PICK coupons \in {e.coupon, {}, {OfficialCoupon}} :
          Submit("edit", [id |-> e.id, categoria |-> categoria, coupon |-> coupons,
                          says |-> e.says, byHand |-> e.byHand \/ typed])
    BY <2>1
  <2>3. e \in GoodTickets
    BY <1>1 DEF AdminInv
  <2> PICK byHand \in BOOLEAN : byHand = (e.byHand \/ typed)
    BY <2>3 DEF GoodTickets, TicketRow
  <2> PICK dto : dto = [id |-> e.id, categoria |-> categoria, coupon |-> coupons,
                        says |-> e.says, byHand |-> byHand]
    OBVIOUS
  <2>4. coupons \in Coupons /\ e.says \in SUBSET Selections
    BY <2>3 DEF GoodTickets, TicketRow, Coupons, Options, OfficialCoupon
  <2>5. Honest(byHand, e.says, coupons)
    BY <2>3 DEF GoodTickets, Honest, TicketRow
  <2>6. GoodRequest("edit", dto)
    BY <2>4, <2>5 DEF GoodRequest
  <2>7. "edit" \in BusyKinds
    BY DEF BusyKinds
  <2> QED
    BY <1>0, <2>2, <2>6, <2>7, SubmitKept
<1>4. ASSUME NEW t \in screen.items, onStartEdit(t) PROVE AppInv'
  <2> PICK edit : edit = IF {e.id : e \in screen.edit} = {t.id} THEN {} ELSE {t}
    OBVIOUS
  <2>1. screen' = [screen EXCEPT !.edit = edit] /\ UNCHANGED <<call, account, browser>>
    BY <1>1, <1>4 DEF onStartEdit, AdminInv
  <2>2. edit \subseteq GoodTickets
    BY <1>1 DEF AdminInv
  <2>3. AdminInv' /\ screen'.at = "admin" /\ screen'.busy = screen.busy
    BY <1>0, <1>1, <2>1, <2>2 DEF AdminInv
  <2>4. CallInv' /\ Doing(BusyKinds)' = Doing(BusyKinds)
    BY <1>1, <2>1 DEF CallInv, Doing, Live
  <2> QED
    BY <1>0, <2>1, <2>3, <2>4, AdminQuiet
<1>5. ASSUME NEW t \in screen.items, NEW set, NEW to, onRow(t, set, to),
             \/ set = "resultado" /\ to \in {"green", "red"}
             \/ set = "published" /\ to \in BOOLEAN
             \/ set = "removed"
      PROVE  AppInv'
  <2> PICK dto : dto = [id |-> t.id, set |-> set, to |-> to]
    OBVIOUS
  <2>1. Ask("row", dto) /\ UNCHANGED <<screen, account, browser>>
    BY <1>5 DEF onRow
  <2>2. GoodRequest("row", dto) /\ "row" \notin BusyKinds
    BY <1>5 DEF GoodRequest, BusyKinds
  <2>3. CallInv' /\ Doing(BusyKinds)' = Doing(BusyKinds)
    BY <1>1, <2>1, <2>2, AskWaits
  <2>4. AdminInv' /\ screen'.at = "admin" /\ screen'.busy = screen.busy
    BY <1>0, <1>1, <2>1 DEF AdminInv, FormInv
  <2> QED
    BY <1>0, <2>1, <2>3, <2>4, AdminQuiet
<1>6. \A t \in screen.items : (~t.published) \in BOOLEAN
  BY <1>1 DEF AdminInv, GoodTickets, TicketRow
<1> QED
  BY <1>0, <1>2, <1>3, <1>4, <1>5, <1>6

\* What the backoffice hears.
LEMMA AdminHears ==
  ASSUME AppInv, NEW c \in Calls,
         GotLists(c) \/ Handled(c) \/ GotPreview(c) \/ GotRow(c)
  PROVE  AppInv'
<1>0. screen.at = "admin" /\ UNCHANGED <<account, browser>>
  BY DEF GotLists, Handled, GotPreview, GotRow
<1>1. CallInv /\ AdminInv /\ GoodCall(call[c])
  BY <1>0, AdminNow DEF CallInv
<1>2. GoodRequest("lists", {}) /\ GoodRequest("preview", {})
      /\ "lists" \notin BusyKinds /\ "row" \notin BusyKinds
      /\ "preview" \in BusyKinds /\ "shared" \in BusyKinds
  BY DEF GoodRequest, BusyKinds
\* An answer that leaves busy alone, and one that clears it.
<1>3. ASSUME AdminInv', screen'.at = "admin", screen'.busy = screen.busy,
             CallInv', Doing(BusyKinds)' = Doing(BusyKinds)
      PROVE  AppInv'
  BY <1>0, <1>3, AdminQuiet
<1>4. ASSUME AdminInv', screen'.at = "admin", screen'.busy = FALSE, CallInv'
      PROVE  AppInv'
  <2>1. Owed(screen.busy, BusyKinds)'
    BY <1>4 DEF Owed
  <2> QED
    BY <1>0, <1>4, <2>1, AdminStep
<1>5. CASE GotLists(c)
  <2>1. Done(c) /\ (Answered(c, "lists") \/ Failed(c, "lists"))
    BY <1>5 DEF GotLists
  <2>2. CallInv' /\ Doing(BusyKinds)' = Doing(BusyKinds)
    BY <1>1, <1>2, <2>1, Heard, DoneWaits
  <2>3. PICK items \in SUBSET GoodTickets, events \in SUBSET Games : Lists(items, events)
    <3>1. CASE Answered(c, "lists")
      <4>1. call[c].data.items \subseteq GoodTickets /\ call[c].data.events \subseteq Games
        BY <1>1, <3>1 DEF Answered, GoodCall, GoodAnswer
      <4>2. ~Failed(c, "lists")
        BY <3>1 DEF Answered, Failed
      <4> QED
        BY <1>5, <4>1, <4>2 DEF GotLists
    <3>2. CASE Failed(c, "lists")
      <4>1. ~Answered(c, "lists")
        BY <3>2 DEF Answered, Failed
      <4>2. Lists({}, {})
        BY <1>5, <4>1 DEF GotLists
      <4> QED
        BY <4>2
    <3> QED
      BY <2>1, <3>1, <3>2
  <2>4. AdminInv' /\ screen'.at = "admin" /\ screen'.busy = screen.busy
    BY <1>0, <1>1, <2>3 DEF Lists, AdminInv, FormInv
  <2> QED
    BY <1>3, <2>2, <2>4
<1>6. CASE Handled(c)
  <2>1. call[c].kind \in BusyKinds \ {"shared", "preview"} /\ call[c].at \in {"ok", "failed"}
    BY <1>6 DEF Handled
  <2>3. CASE call[c].at = "ok"
    <3>1. screen' = After(c) /\ Instead(c, "lists", {})
      BY <1>6, <2>3 DEF Handled
    <3>2. CallInv'
      BY <1>1, <1>2, <3>1, InsteadEffect
    <3> PICK idle : idle = [screen EXCEPT !.busy = FALSE]
      OBVIOUS
    <3> PICK cleared : cleared = [EMPTY EXCEPT !.legs = screen.form.legs]
      OBVIOUS
    <3>3. FormInv(EMPTY) /\ FormInv(cleared)
      BY <1>1, FormKept DEF AdminInv
    <3>4. \/ screen' = idle
          \/ screen' = [idle EXCEPT !.approved = {}]
          \/ screen' = [idle EXCEPT !.approved = {}, !.form = cleared]
          \/ screen' = [idle EXCEPT !.basket = {}]
          \/ screen' = [idle EXCEPT !.form = EMPTY]
          \/ screen' = [idle EXCEPT !.edit = {}]
      BY <2>1, <3>1 DEF After, BusyKinds
    <3>5. /\ DOMAIN idle = DOMAIN screen /\ idle.at = "admin" /\ idle.busy = FALSE
          /\ idle.items = screen.items /\ idle.events = screen.events /\ idle.form = screen.form
          /\ idle.basket = screen.basket /\ idle.approved = screen.approved
          /\ idle.edit = screen.edit
      BY <1>0, <1>1 DEF AdminInv
    <3>6. screen'.at = "admin" /\ screen'.busy = FALSE
          /\ DOMAIN screen' = DOMAIN screen
          /\ screen'.items = screen.items /\ screen'.events = screen.events
          /\ screen'.form \in {screen.form, EMPTY, cleared}
          /\ screen'.basket \in {screen.basket, {}} /\ screen'.approved \in {screen.approved, {}}
          /\ screen'.edit \in {screen.edit, {}}
      BY <1>1, <3>4, <3>5 DEF AdminInv
    <3>7. AdminInv'
      BY <1>1, <3>3, <3>6, FS_EmptySet DEF AdminInv
    <3> QED
      BY <1>4, <3>2, <3>6, <3>7
  <2>4. CASE call[c].at = "failed"
    <3>1. screen' = [screen EXCEPT !.busy = FALSE] /\ Done(c)
      BY <1>6, <2>4 DEF Handled
    <3>2. CallInv'
      BY <1>1, <3>1, DoneEffect
    <3>3. AdminInv' /\ screen'.at = "admin" /\ screen'.busy = FALSE
      BY <1>0, <1>1, <3>1 DEF AdminInv, FormInv
    <3> QED
      BY <1>4, <3>2, <3>3
  <2> QED
    BY <2>1, <2>3, <2>4
<1>7. CASE GotPreview(c)
  <2>1. call[c].kind \in {"shared", "preview"} /\ call[c].at \in {"ok", "failed", "402"}
    BY <1>7 DEF GotPreview, Failed
  <2>2. c \in Doing(BusyKinds)
    BY <1>1, <1>2, <2>1 DEF GoodCall, Doing, Live
  <2>3. ASSUME Done(c) PROVE CallInv'
    BY <1>1, <2>3, DoneEffect
  <2>4. ASSUME call[c].at = "ok", Done(c),
               screen' = [screen EXCEPT !.form = Picked(call[c].data), !.busy = FALSE]
        PROVE  AppInv'
    <3>1. call[c].data \in Games
      BY <1>1, <2>1, <2>4 DEF GoodCall, GoodAnswer
    <3> PICK picked : picked = Picked(call[c].data)
      OBVIOUS
    <3>2. FormInv(picked)
      BY <1>1, <3>1, PickedKept
    <3>3. AdminInv' /\ screen'.at = "admin" /\ screen'.busy = FALSE
      BY <1>0, <1>1, <2>4, <3>2 DEF AdminInv
    <3> QED
      BY <1>4, <2>3, <2>4, <3>3
  <2>5. ASSUME Instead(c, "preview", {}), UNCHANGED screen PROVE AppInv'
    <3>1. CallInv' /\ Doing(BusyKinds)' # {}
      BY <1>1, <1>2, <2>2, <2>5, InsteadWaits
    <3>2. AdminInv' /\ screen'.at = "admin" /\ Owed(screen.busy, BusyKinds)'
      BY <1>0, <1>1, <2>5, <3>1 DEF AdminInv, FormInv, Owed
    <3> QED
      BY <1>0, <3>1, <3>2, AdminStep
  <2>6. ASSUME Done(c), screen' = [screen EXCEPT !.busy = FALSE] PROVE AppInv'
    <3>1. AdminInv' /\ screen'.at = "admin" /\ screen'.busy = FALSE
      BY <1>0, <1>1, <2>6 DEF AdminInv, FormInv
    <3> QED
      BY <1>4, <2>3, <2>6, <3>1
  <2> QED
    BY <1>7, <2>4, <2>5, <2>6 DEF GotPreview
<1>8. CASE GotRow(c)
  <2>1. /\ UNCHANGED screen /\ (Answered(c, "row") \/ Failed(c, "row"))
        /\ Instead(c, "lists", {}) \/ Done(c)
    BY <1>8 DEF GotRow
  <2>2. c \notin Doing(BusyKinds)
    BY <1>1, <1>2, <2>1, Heard
  <2>3. CallInv' /\ Doing(BusyKinds)' = Doing(BusyKinds)
    BY <1>1, <1>2, <2>1, <2>2, DoneWaits, InsteadWaits
  <2>4. AdminInv' /\ screen'.at = "admin" /\ screen'.busy = screen.busy
    BY <1>0, <1>1, <2>1 DEF AdminInv, FormInv
  <2> QED
    BY <1>3, <2>3, <2>4
<1> QED
  BY <1>5, <1>6, <1>7, <1>8

-----------------------------------------------------------------------------
(* The shell.                                                              *)

\* Wherever the member goes, what is held is marked as another screen's.
LEMMA VisitKept ==
  ASSUME AppInv, NEW route \in Routes, Visit(route)
  PROVE  AppInv'
<1>1. CallInv /\ HeldInv /\ coupon \in Coupons /\ UNCHANGED <<account, coupon, locked>>
  BY DEF AppInv, ClientInv, BrowserInv, Visit
<1>2. CallInv' /\ ScreenInv' /\ BusyInv'
  <2>1. PICK next, kinds : Mounting(next, kinds) /\ Go(next, kinds)
    BY DEF Visit, Mounts, Mounting
  <2> QED
    BY <1>1, <2>1, MountKept
<1>3. HeldInv'
  <2>1. CASE held' = {}
    BY <2>1 DEF HeldInv
  <2>2. CASE held' = {[h EXCEPT !.here = FALSE] : h \in held}
    <3> DEFINE left(h) == [h EXCEPT !.here = FALSE]
    <3>1. ASSUME NEW h \in held
          PROVE  /\ left(h).here = FALSE /\ left(h).what = h.what /\ left(h).about = h.about
                 /\ DOMAIN left(h) = {"what", "about", "here"}
      BY <1>1 DEF HeldInv
    <3>2. held' = {left(h) : h \in held}
      BY <2>2
    <3> HIDE DEF left
    <3>3. \A h, k \in held' : h = k
      BY <1>1, <3>2 DEF HeldInv
    <3>4. ASSUME NEW k \in held'
          PROVE  /\ DOMAIN k = {"what", "about", "here"} /\ ~k.here
                 /\ k.what = "coupon" => k.about \in GoodTickets
      <4>1. PICK h \in held : k = left(h)
        BY <3>2
      <4> QED
        BY <1>1, <3>1, <4>1 DEF HeldInv
    <3> QED
      BY <3>3, <3>4 DEF HeldInv
  <2> QED
    BY <2>1, <2>2 DEF Visit
<1>4. ClientInv'
  BY <1>2, <1>3 DEF ClientInv
<1> QED
  BY <1>1, <1>4, ClientOnly

LEMMA OddsKept ==
  ASSUME AppInv, createOdds
  PROVE  AppInv'
<1>1. /\ ClientInv /\ coupon \in Coupons /\ screen.at = "bilhetes" /\ held = {}
      /\ UNCHANGED <<account, locked>>
  BY DEF AppInv, BrowserInv, createOdds, Reachable
<1> PICK next, kinds, what, about :
      next = TipsterPage /\ kinds = {"me", "upcoming"} /\ what = "tipster" /\ about = {}
  OBVIOUS
<1>2. CASE Go(next, kinds) /\ UNCHANGED <<coupon, held>>
  <2>1. Mounting(next, kinds)
    BY DEF Mounting
  <2>2. ClientInv'
    BY <1>1, <1>2, <2>1, GoesFree
  <2> QED
    BY <1>1, <1>2, <2>2, ClientOnly
<1>3. CASE held' = {[what |-> what, about |-> about, here |-> TRUE]}
           /\ UNCHANGED <<screen, call, coupon>>
  <2>0. what \notin {"coupon", "confirm", "analyze"}
    OBVIOUS
  <2>1. ClientInv'
    <3> HIDE DEF On
    <3> QED
      BY <1>1, <1>3, <2>0, HeldOne
  <2> QED
    BY <1>1, <1>3, <2>1, ClientOnly
<1> QED
  BY <1>2, <1>3 DEF createOdds, RequireUnlock

\* What was held runs on the screen it was asked on, or is heard of no more.
LEMMA ProceedKept ==
  ASSUME AppInv, proceed
  PROVE  AppInv'
<1>0. /\ ClientInv /\ CallInv /\ HeldInv /\ coupon \in Coupons
      /\ held' = {} /\ UNCHANGED <<account, locked>>
  BY DEF AppInv, ClientInv, BrowserInv, proceed
<1>1. PICK h \in held :
       \/ h.what = "tipster" /\ Go(TipsterPage, {"me", "upcoming"}) /\ UNCHANGED coupon
       \/ h.here /\ h.what = "cat" /\ setCat(h.about)
       \/ h.here /\ h.what = "coupon" /\ setSportsbookUrl(h.about)
       \/ h.here /\ h.what = "confirm" /\ onConfirm(h.about)
       \/ h.here /\ h.what = "analyze" /\ onAnalyze(h.about)
       \/ /\ ~h.here /\ h.what \in {"confirm", "analyze"}
          /\ AskUnheard("analyze", h.about) /\ UNCHANGED <<screen, coupon>>
       \/ ~h.here /\ h.what \in {"cat", "coupon"} /\ UNCHANGED <<screen, call, coupon>>
  BY Zenon DEF proceed
<1>2. ASSUME Go(TipsterPage, {"me", "upcoming"}) PROVE ClientInv'
  <2>1. Mounting(TipsterPage, {"me", "upcoming"})
    BY DEF Mounting
  <2> QED
    BY <1>0, <1>2, <2>1, GoesFree
<1>3. ASSUME h.here, h.what = "cat", setCat(h.about) PROVE ClientInv' /\ coupon' = coupon
  BY <1>0, <1>3, CatRuns DEF HeldInv, setCat
<1>4. ASSUME h.here, h.what = "coupon", setSportsbookUrl(h.about)
      PROVE  ClientInv' /\ coupon' \in Coupons
  <2>1. h.about.coupon \in Coupons
    BY <1>0, <1>4 DEF HeldInv, GoodTickets, TicketRow
  <2> QED
    BY <1>0, <1>4, <2>1, HeldNothing DEF setSportsbookUrl
<1>5. ASSUME h.here, h.what = "confirm", onConfirm(h.about) PROVE ClientInv' /\ coupon' = coupon
  BY <1>0, <1>5, ConfirmRuns DEF HeldInv, onConfirm
<1>6. ASSUME h.here, h.what = "analyze", onAnalyze(h.about) PROVE ClientInv' /\ coupon' = coupon
  BY <1>0, <1>6, AnalyzeRuns DEF HeldInv, onAnalyze
<1>7. ASSUME AskUnheard("analyze", h.about), UNCHANGED screen PROVE ClientInv'
  <2>1. GoodRequest("analyze", h.about)
    BY DEF GoodRequest
  <2> QED
    BY <1>0, <1>7, <2>1, UnheardWaits, StandStill
<1>8. ASSUME UNCHANGED <<screen, call>> PROVE ClientInv'
  BY <1>0, <1>8, HeldNothing
<1>9. ClientInv' /\ coupon' \in Coupons
  BY <1>0, <1>1, <1>2, <1>3, <1>4, <1>5, <1>6, <1>7, <1>8
<1> QED
  BY <1>0, <1>9, ClientOnly

-----------------------------------------------------------------------------
(* The whole of it.                                                        *)

LEMMA Start ==
  ASSUME AppInit
  PROVE  AppInv
<1>1. screen = HomeScreen /\ held = {} /\ coupon = {}
  BY DEF AppInit
<1>2. CallInv
  <2>1. GoodRequest("me", {})
    BY DEF GoodRequest
  <2> PICK first : first = Next1(Calls)
    OBVIOUS
  <2>2. call = [c \in Calls |-> IF c = first THEN Request("me", {}) ELSE Idle]
    BY DEF AppInit
  <2> QED
    BY <2>1, <2>2, NewCalls DEF CallInv
<1>3. ScreenInv
  <2>1. Mounting(screen, {"me"})
    BY <1>1 DEF Mounting
  <2> QED
    BY <2>1, FreshScreens
<1>4. HeldInv /\ BusyInv
  BY <1>1 DEF HeldInv, HomeScreen, BusyInv, On
<1>5. tickets \subseteq GoodTickets /\ \A t, u \in tickets : t = u
  <2> PICK first : first = Only(Uuids)
    OBVIOUS
  <2> DEFINE made == {Bilhete(first, k, {}, {s}, FALSE, {{s}}) : k \in Categories, s \in Selections}
                       \cup {Bilhete(first, k, {}, {}, FALSE, {}) : k \in Categories}
  <2>1. tickets \in Options(made)
    BY DEF AppInit
  <2>2. first \in Ids /\ {} \in Options(Games)
    BY BackofficeAssumption DEF Options, Only, Ids
  <2>3. ASSUME NEW k \in Categories, NEW says, NEW bets, says \in SUBSET Selections,
               bets \in Coupons, Honest(FALSE, says, bets)
        PROVE  Bilhete(first, k, {}, says, FALSE, bets) \in GoodTickets
    <3> PICK id, event, byHand : id = first /\ event = {} /\ byHand = FALSE
      OBVIOUS
    <3>1. Bilhete(id, k, event, says, byHand, bets) \in GoodTickets
      BY <2>2, <2>3, NewTicket
    <3> QED
      BY <3>1
  <2>4. ASSUME NEW k \in Categories, NEW s \in Selections
        PROVE  Bilhete(first, k, {}, {s}, FALSE, {{s}}) \in GoodTickets
    <3> PICK says, bets : says = {s} /\ bets = {{s}}
      OBVIOUS
    <3>1. says \in SUBSET Selections /\ bets \in Coupons /\ Honest(FALSE, says, bets)
      BY DEF Coupons, Options, Honest
    <3> QED
      BY <2>3, <3>1
  <2>5. ASSUME NEW k \in Categories PROVE Bilhete(first, k, {}, {}, FALSE, {}) \in GoodTickets
    <3>1. {} \in SUBSET Selections /\ {} \in Coupons /\ Honest(FALSE, {}, {})
      BY DEF Coupons, Options, Honest
    <3> QED
      BY <2>3, <3>1
  <2>6. made \subseteq GoodTickets
    <3> DEFINE one(k, s) == Bilhete(first, k, {}, {s}, FALSE, {{s}})
               none(k) == Bilhete(first, k, {}, {}, FALSE, {})
    <3>1. made = {one(k, s) : k \in Categories, s \in Selections} \cup {none(k) : k \in Categories}
      OBVIOUS
    <3>2. \A k \in Categories : none(k) \in GoodTickets
      BY <2>5
    <3>3. \A k \in Categories, s \in Selections : one(k, s) \in GoodTickets
      BY <2>4
    <3> HIDE DEF one, none, made
    <3> QED
      BY <3>1, <3>2, <3>3
  <2> HIDE DEF made
  <2> QED
    BY <2>1, <2>6 DEF Options
<1>6. AccountInv
  BY <1>5, ClientAssumption DEF AppInit, AccountInv, Members, Options
<1>7. BrowserInv
  BY <1>1 DEF AppInit, BrowserInv, Coupons, Options
<1> QED
  BY <1>2, <1>3, <1>4, <1>6, <1>7 DEF AppInv, ClientInv

LEMMA OneAtMost ==
  ASSUME NEW S, AtMostOne(S)
  PROVE  Cardinality(S) <= 1
<1>1. CASE S = {}
  <2>1. Cardinality(S) = 0
    BY <1>1, FS_EmptySet
  <2> QED
    BY <2>1
<1>2. CASE S # {}
  <2>1. PICK x : x \in S
    BY <1>2
  <2>2. S = {x}
    BY <2>1 DEF AtMostOne
  <2>3. Cardinality({x}) = 1
    BY FS_Singleton
  <2> QED
    BY <2>2, <2>3
<1> QED
  BY <1>1, <1>2

LEMMA Stutter ==
  ASSUME AppInv, UNCHANGED appVars
  PROVE  AppInv'
<1>1. UNCHANGED <<screen, call, held>> /\ UNCHANGED <<account, browser>>
  BY DEF appVars, browser
<1>2. ClientInv'
  BY <1>1, ClientStays DEF AppInv
<1> QED
  BY <1>1, <1>2, ClientOnly DEF AppInv, BrowserInv, browser

LEMMA Step ==
  ASSUME AppInv, AppNext
  PROVE  AppInv'
<1>1. CASE ServerNext
  BY <1>1, ReadingKept, ElsewhereKept DEF ServerNext, Reading
<1>2. CASE FeedNext
  BY <1>2, FeedHears, FeedActs, ElsewhereKept DEF FeedNext
<1>3. CASE TipsterNext
  BY <1>3, ReadingKept, WritingKept, TipsterPlain, ChatKept, LiveKept, TabKept
     DEF TipsterNext, Reading, Writing
<1>4. CASE PerfilNext
  BY <1>4, ReadingKept, WritingKept, PerfilKept DEF PerfilNext, Reading, Writing
<1>5. CASE BackofficeNext
  BY <1>5, ReadingKept, WritingKept, GeneratedKept, CreateRequests, CreateKept, ManageKept,
     AdminHears
     DEF BackofficeNext, Reading, Writing
<1>6. CASE ShellNext
  BY <1>6, OddsKept, GateKept, ProceedKept DEF ShellNext
<1>7. ASSUME NEW route \in Routes, Visit(route) PROVE AppInv'
  BY <1>7, VisitKept
<1> QED
  BY <1>1, <1>2, <1>3, <1>4, <1>5, <1>6, <1>7 DEF AppNext, ScreenNext

\* The invariant of the app (App.tsx, its screens and the services they call): what every
\* request, answer and screen can hold, and what every disabled control stands for.
THEOREM AppInvariant == AppSpec => []AppInv
<1>1. AppInit => AppInv
  BY Start
<1>2. AppInv /\ [AppNext]_appVars => AppInv'
  BY Step, Stutter
<1> QED
  BY <1>1, <1>2, PTL DEF AppSpec

\* The rows and requests keep their types, no two tickets share an id, and the popup of the
\* gate holds one action at most (TelegramGateProvider.tsx's pending ref).
THEOREM AppTypesHold == AppSpec => []AppTypeOK
<1>1. ASSUME AppInv PROVE AppTypeOK
  <2>1. Cardinality(held) <= 1
    <3>1. \A h, k \in held : h = k
      BY <1>1 DEF AppInv, ClientInv, HeldInv
    <3> QED
      BY <3>1, OneAtMost DEF AtMostOne
  <2>2. \A c \in Calls : call[c].at \in {"idle", "sent", "ok", "failed", "402"}
    BY <1>1 DEF AppInv, ClientInv, CallInv, GoodCall
  <2>3. screen.at \in Routes
    BY <1>1 DEF AppInv, ClientInv, ScreenInv
  <2> QED
    BY <1>1, <2>1, <2>2, <2>3
       DEF AppTypeOK, AppInv, AccountInv, BrowserInv, GoodTickets, TicketRow
<1> QED
  BY <1>1, AppInvariant, PTL

\* What the rail shows is of one piece (BilhetesScreen.tsx's loadFeed): an answer comes from
\* one reading of the rows, a screen keeps an answer whole, and a failed refresh changes
\* nothing that an answer brought.
THEOREM RailIsOfOnePiece == AppSpec => []ChipsMatchTickets
<1>1. AppInv => ChipsMatchTickets
  BY DEF AppInv, ClientInv, ScreenInv, BilhetesInv, Matching, ChipsMatchTickets
<1> QED
  BY <1>1, AppInvariant, PTL

\* What a screen disables while it works is never disabled for nothing, however many requests
\* the others left behind; and where no other control asks meanwhile it is disabled exactly as
\* long as its one request is on the way (TipsterChat.tsx, PerfilScreen.tsx,
\* UltimosGreensScreen.tsx, not AdminBilhetes.tsx and the games of TipsterLive.tsx).
THEOREM BusyMeansPending == AppSpec => []BusyIsPending
<1>1. ASSUME AppInv PROVE BusyIsPending
  <2>1. BusyInv
    BY <1>1 DEF AppInv, ClientInv
  <2>2. \A k : InFlight(k) = Doing({k})
    BY DEF InFlight, Doing, Live
  <2>4. InFlight("search") \cup InFlight("analyze") = Doing({"search", "analyze"})
    BY DEF InFlight, Doing, Live
  <2>5. UNION {InFlight(k) : k \in BusyKinds} = Doing(BusyKinds)
    BY DEF InFlight, Doing, Live
  <2>6. TipsterBusyIsPending
    BY <2>1, <2>2, <2>4, OneAtMost DEF BusyInv, Waits, TipsterBusyIsPending
  <2> QED
    BY <2>1, <2>2, <2>5, <2>6, OneAtMost DEF BusyInv, Waits, Owed, BusyIsPending
<1> QED
  BY <1>1, AppInvariant, PTL

\* Every coupon that the code builds bets exactly what its ticket says, where nobody typed the
\* words: through baskets, generated tickets, previews that overtake each other and edits of
\* rows that have changed meanwhile (AdminBilhetes.tsx, admin/bilhetes.service.ts,
\* auto-bilhetes.service.ts).  A coupon that was pasted may bet anything.
THEOREM CouponsAreTheTickets == AppSpec => []CouponIsTheTicket
<1>1. AppInv => CouponIsTheTicket
  BY DEF AppInv, AccountInv, GoodTickets, Honest, CouponIsTheTicket
<1> QED
  BY <1>1, AppInvariant, PTL
==================================================================================
