# Verification of the Arena FC app

TLA+ models of the server in `src/api` (NestJS, Prisma, PostgreSQL) and of the web client in
`src/web` (React), checked with TLC on small instances and, where the tools allow, proved with
TLAPS for every instance.

What makes this code hard is not any one function. On the server, several requests, webhook
deliveries, listeners and cron jobs run against the same rows at READ COMMITTED, money and access
are moved by them, and a request may die between any two statements: the models split each
operation at the statements other requests can come in between. In the browser, each screen goes
on with what it read before an await, while answers come back late, out of order, or not at all,
for a screen that may be gone: the models split each handler at its awaits.

## 1. Inventory

Paths are relative to `src/api/src/contexts/` unless they begin with `src/`.

| component | state | operations | interacts with | what makes it correct |
|---|---|---|---|---|
| Credit ledger `credits/` | `CreditTransaction` rows (`seq`, `amount`, `balanceAfter`), advisory lock per user (seed 0) | `getBalance`, `applyTransaction` | called inside the transactions of tips, tipster, billing | rows of a user form a chain, never negative, visible in `seq` order; no caller waits for ever |
| Billing `billing/`, `users/` | `WebhookEvent` (unique `externalId`), `User.iaUnlimitedUntil`, `UserCategoryAccess`, `Subscription` | `processWebhook`, four grants, `findOrCreateByEmail` | payment gateways (resend until 2xx), ledger | a sale is granted exactly once, a record never without its grant, retries succeed |
| Payment adapters `billing/adapters/` | none | signature check, payload mapping | billing | pure |
| Products `admin/products` | `Product.active` and the grant columns | admin CRUD | read by billing | - |
| Tips `tips/` | `EntradaUnlock` (unique user, entrada) | `unlockEntrada`, feed reads | ledger, emits `entrada.unlocked` | charged iff unlocked, once; one event per unlock |
| IA Tipster `tipster/` | `ChatSession`, `ChatMessage` | `analyze*` -> `runAnalysis` | ledger, pass, AI provider, sports feed | charged iff delivered, free only with a pass |
| Gamification `gamification/` | `User.xp/level/streaks/lastLoginAt`, `UserAchievement`, locks per user (seeds 1, 2) | `registerDailyLogin`, `handleEvent`, `evaluateAchievements` | listener of `entrada.unlocked`; called by `me`, by the admin's `setResult` | no XP lost, level fits XP, streaks and achievements earned, each day and bonus once |
| Entrada results `admin/entradas` | `Entrada.status` | `setResult`, CRUD | awards XP to each buyer | every buyer of a green awarded |
| Settlement `bilhetes/settle*` | `SportEvent` scores, `Bilhete.resultado` | `captureLiveScores` (3 min), `settlePending` (10 min), `settleBilhete` | live feed, admin edits | a result is what the bet pays on the stored score, and that score is final, as long as the match was not put off; what can be graded is graded |
| Sports feed `sports-feed/` | `SportEvent` rows, in-memory live cache | `sync`, prune, `fetchLive` | Altenar (whose kickoffs move), settlement, tipster | scores survive until graded |
| Automatic bilhetes `bilhetes/auto-bilhetes` | `Bilhete` rows with fixed ids, `running` flag | daily generation | feed, settlement, the admin's editor | one ticket per slot; a single's pick is rewritten only before its match; a coupon bets what its ticket says |
| Bilhetes feed, admin edits `bilhetes/bilhetes`, `admin/bilhetes` | `Bilhete`, legs | feed by plan rank and categories bought apart; create, create from fixtures, import, publish, setResult, update, remove | settlement, the screens | chips and tickets of one answer agree; a coupon the code builds bets what its ticket says |
| Auth `auth/`, `admin/admin-role.guard` | `RefreshToken`, access and admin tokens | `login`, `refresh` (find, delete, create), `issueAdminSession`, guards | every request | a login keeps one live refresh token |
| Web client session `src/web/src/shared/lib/{apiClient,authStorage,AuthContext}`, `features/admin/{adminApi,AdminPage}` | stored tokens, login state, the backoffice's gate | request, refresh and repeat, logout, admin session | auth, every screen | not left with a spent token; who logs out stays out; a refused call ends |
| Telegram gate `telegram-gate/`, `useTelegramGate`, `Onboarding`, `TelegramGate.tsx` | first click; two countdowns | `getState`, `recordClick`, the intervals, the popup | plan, every gated action | never opens early, never waits for ever |
| Member's screens `src/web/src/screens/` | what each has read, its popups, its selection | `GET /bilhetes`, `/me`, `/bilhetes/historico` on mount and focus; coupons | feed, gate | what is shown together was read together; nothing stays disabled |
| Tipster screens `TipsterPage`, `features/tipster/` | credits shown, chat, games in play, shop | search, confirm, analyse, buy | tipster, credits, gate | one analysis at a time, charged as shown |
| Profile `me/`, `PerfilScreen` | avatar, nickname | `getProfile`, `updateProfile` | gamification | a control waits exactly while its request does |
| Backoffice: tickets `AdminBilhetes` | lists, form, basket, approved fixtures, open edit | the admin's ticket operations, previews of coupons | admin bilhetes, automatic bilhetes, sports feed | the selection and its id stay together; what is disabled is awaited |
| App shell `App.tsx`, `TopBar`, `BottomNav` | route, the action held by the gate's popup | navigation, `createOdds`, `proceed` | every screen | an action held for a screen that is gone |
| Tutorial, teams, other tabs of the backoffice, admin CRUD | single rows | reads, single-row writes | - | - |
| Infrastructure | - | Prisma, filters, health, backup, containers | - | - |

Hard behaviours: statement interleavings of requests (ledger, unlocks, passes, XP), duplicate
and concurrent webhook deliveries, crashes between statements, values read before a lock, an AI
call or a transaction and used after it, in-memory events after a commit; in the browser, two
calls refreshing with one token, an answer older than the click it overwrites, a form filled by two
answers, an action held for a screen that is gone. `PROJECT.json` lists each at its line with the property that covers it.

## 2. Modules

| module | models | role |
|---|---|---|
| `Ledger` | what a ledger promises: one indivisible movement at a time | abstract |
| `CreditsLedger` | `CreditsService`, statement by statement | detailed, refines `Ledger` |
| `CreditsLedgerProofs` | - | inductive invariant, theorems |
| `Billing` | `BillingService.processWebhook` | extends `CreditsLedger` |
| `BillingProofs` | - | Billing is a client of the ledger; inductive invariant, theorems |
| `Shop` | buying as one step | abstract |
| `Wallet` | `unlockEntrada`, `runAnalysis`, purchases | extends `CreditsLedger`, refines `Shop` |
| `WalletProofs` | - | Wallet is a client of the ledger and implements `Shop` |
| `Gamification` | XP, levels, achievements, streak, `setResult` | independent |
| `GamificationProofs` | - | inductive invariant, theorems |
| `Settle` | `settleBilhete` and its helpers, the labels sold, and what a bet pays | operators |
| `Settlement` | `SettleService`, `fetchLive`, `sync`, `generateDaily`, the admin's edits | extends `Settle` |
| `SettlementProofs` | - | inductive invariant, theorems |
| `Session` | `AuthService`, the guards, `apiClient`, `adminApi`, `AuthContext`, `AdminPage` | independent |
| `SessionProofs` | - | inductive invariant, theorems |
| `TelegramGate` | `TelegramGateService`, `useTelegramGate` twice, `Onboarding`, the popup | independent |
| `TelegramGateProofs` | - | inductive invariant, theorems |
| `Client` | requests, answers, the account's rows, the gate's popup as the screens see it | base of the app |
| `Feed` | home, tickets, plans, last greens | extends `Client` |
| `Tipster` | the IA Tipster's page, chat, games in play, shop | extends `Client` |
| `Perfil` | the profile and `MeService` | extends `Client` |
| `Backoffice` | `AdminBilhetes` and `AdminBilhetesService` | extends `Client` |
| `App` | routes and shell | composes `Feed`, `Tipster`, `Perfil`, `Backoffice` |
| `AppProofs` | - | inductive invariant, theorems about all the screens together |
| `MCCreditsLedger`, `MCBilling`, `MCWallet`, `MCGamification`, `MCSettlement`, `MCSession`, `MCTelegramGate`, `MCApp` | - | instances and bounds for TLC |

### How the models read the code

* **Database transactions.** A member of `Txs` is a transaction (and the request running it).
  Reads see committed rows. What a transaction writes is added to the tables by its commit
  action; until then only its private record (`tx`, `hook`, `desk`, `task`) knows of it. An
  `UPDATE` holds its row lock until the commit, so applying it at the commit, with the values
  computed when the code computed them, gives the same results.
* **Advisory locks** (`lock`, `xpLock`, `streakLock`) are taken by one action and released by
  the commit or rollback, as `pg_advisory_xact_lock` is. `pg_advisory_xact_lock` blocks: the
  action is simply not enabled.
* **Unique keys.** An insert of a key that another open transaction has inserted waits (the
  guard `~Blocked(w)` of Billing); a committed one raises P2002, and the model follows what the
  code makes of it: a duplicate (2xx), or an error (500).
* **Failures.** `Fail` / `RollbackTx` stand for a crash, a database error, and Prisma's
  transaction timeout: private work disappears, locks are freed, committed rows stay, the
  request gets no answer.
* **Data.** Emails, payloads, texts and odds are left out. Events, entradas, products and users
  are model values; days are numbers; credits and XP are small integers. `int4` overflow is out
  of reach of the amounts the products carry and is not modelled.

`CreditsLedger`: `applyTransaction` (the call) -> `AcquireLock` -> `ReadLatest` -> `CreateRow`
or `RejectOverdraft` -> the caller's `CommitTx` or `RollbackTx`. The serial key is drawn at the
insert and never returned, so `nextSeq` also counts rolled back rows.

`Billing`: `Deliver` -> `FindWebhookEvent` -> `FindProduct` -> `CreateMarker`, or
`findOrCreateByEmail` -> `CreateWebhookEvent` -> one of `GrantCredits`, `grantPlan`,
`grantIaUnlimited`, `grantCategoryAccess`, `Throw` -> ledger statements -> `Commit` -> `Respond`.
`order` says what each event names, chosen once. `ToggleProduct` is the admin's switch.

`Wallet`: an unlock is `unlockEntrada` -> `FindUnlock` -> ledger statements -> `CreateUnlock` ->
`CommitUnlock` -> `EmitUnlocked`; an analysis is `runAnalysis` -> `ReadPass` -> `PreCheck` ->
`Answered` (the AI call lies before it) -> ledger statements or none -> `CommitSession`;
`Purchase` brings credits in. `PassChanges` is a pass bought or run out at any moment.

`Gamification`: a login is `registerDailyLogin` (takes the time) -> `LockStreak` -> `ReadStreak`
-> `CommitStreak`; an event is `ReadUser` -> `LockXp` -> `AwardEvent` -> `ReadOwned` -> `Measure`
-> `CreateAchievements` -> `LockXp` -> `AwardBonus`; `setResult` sets the status, finds the
buyers and runs the event once for each. `earned`, `rewarded` and `counted` are history variables.

`Settle`: a selection label is the set of what the code's tests find in it (a team's name, "casa",
"mais", ...), lines are doubled integers, `"pending"` is the code's null. `Payout` says what a bet
means without looking at its label: the scores that win it and those that refund it. `Labels` are
the kinds of label listed in the head of `settle.ts`, each with its bet, over any scores and lines.

`Settlement`: a poll is `AskProvider` or `ServeCached` -> `ProviderAnswers` -> `CacheAnswer` ->
one `CaptureScore` per listed match; `CacheAnswer(p, FALSE)` is a viewer's request, which fills the
same cache. A grading is `ReadPending` -> `ReadScores` -> `Skip` or `SetOutcome` per ticket ->
`MarkFinished`. A sync is `FetchUpcoming` -> `upsertEvent` per fixture -> `prunePastEvents`, and in
the daily job `SelectPicks` -> `upsertTicket` per ticket -> `EndDaily`. `create`, `update`,
`setResult`, `setPublished`, `remove` are the admin's. Every list a run holds is in its record
(`poll`, `grade`, `sync`) with the time the run began (`at`), because the code goes on with it
after the await. `byHand` is a history variable: tickets whose pick or result an admin has set.

A kickoff is kept in three places, which move apart. `kickoff` is the provider's: `Reschedule` puts a
match off or brings it forward before it begins. `SportEvent.startsAt` is rewritten by every `upsertEvent`.
A ticket's `startsAt` is the kickoff it was sold for, or whatever the admin's form said; no sync moves it,
the generator rewrites it only in tickets it generates again, and `settlePending` measures its window from it
(`Elapsed`). `postponed` is a history variable: the matches that were ever put off. Of the provider it is
assumed that a match moves only before it begins, that it leaves the live list before the window of a
ticket sold for its kickoff is over (`FullTime < MatchWindow`: no extra time beyond 135 minutes), and that
a match that is over has no outcomes on offer. An automatic multiple carries the fixture of one of its legs
but no market, so the engine looks at it in every run and never grades it; its fixture changes from one
generation of the day to the next (`Multiples`). A multiple
made from the basket carries no fixture and is never read. One typed into the form keeps the fixture and the
market that were picked there, and is graded on that pick alone: to this model, which leaves legs out as the
jobs do, it is a ticket made by hand on that pick.

`Session`: a call of the page is a record that goes through its requests: what the browser read
from the storage when it sent the request (`Send`), the server's statements (`FindRefreshToken` ->
`DeleteRefreshToken` -> `CreateRefreshToken` for a refresh), and the continuation after the answer
(`GotPage`, `GotRefresh`, `GotBackoffice`, ...), which works on the storage as it is by then. `stage`
is how often the call has been repeated; a login, a screen's call, a backoffice call and the opening
of the backoffice are `kind`s. A token is its number; `chain` and `lost` are history variables: the
login a token descends from, and the tokens whose exchange the browser never heard of. `Lose` is a
connection that breaks, `Reload` the page reloaded: what was on its way goes on without it. `left` is
who has logged out and not logged in again, unless a refresh or an admin session of theirs was under way
as they left: the code does not call those off, and their answers store tokens of somebody who is gone.

`TelegramGate`: `Second` is the clock, for the server and the page alike; `Tick(h)` is the interval
of hook `h` firing once in each second after the one it was set in. `refresh` -> `getState` ->
`Received` and `activate` -> `recordClick` -> `Received` are the requests, answered in any order;
`Break` and `NotReceived` are failures. `StartsOver` in `recordClick`'s service is not what the code
does: it upserts, and a second click leaves the first.

The app. `screen` is the record of the mounted screen, made anew at each mount; a request in flight
is a record with its kind, what it is about, its answer, and `mine`: whether the component that sent
it is still there (`Orphans` and `TabOrphans` clear it at an unmount: a read goes to nobody, a write
is served all the same). `Serve*` and the service's own actions (`create`, `update`, `setRow`, ...)
answer from the rows; `Break` fails a request before or after the server has acted. `Got*`, `Handled`
and `Saved` are the continuations. `RequireUnlock` runs an action, or holds it in the popup while the
gate is locked; what happens to the gate itself is `TelegramGate`'s, and here `GateChanges`. Names
follow the handlers of the code: `pickCat`, `setSportsbookUrl`, `addCoupon`, `onConfirm`, `onAnalyze`,
`pickAvatar`, `onPickSelection`, `onGenerateFromBasket`, `onStartEdit`, ... An optional value is a set
with at most one element.

The backoffice's tickets. All its buttons share one `busy`, and are disabled while it is set (`Submit`);
Enter in the link's field is not (`Work`, `AdminBilhetes.tsx:1121`). So previews may overtake each other
and whatever else is on its way, and the first answer enables every button while another request is still
out: a second press can then send the same ticket again. The coupon's field (`pasteShareUrl`) is part of
the form and is emptied only by a ticket that is made: picking another fixture or previewing another link
leaves what was pasted, and `create` prefers it. The generator writes at any time, one row after the other
(`upsertSingle`, `upsertMultiple`), whether its hour has come or an admin asked (`ServeGenerate`); its ids
are those of `Ids` that are no uuid, and today's multiple is one row (`Today`). The editor sends every field
it shows, and shows no legs, so that after an edit a multiple's coupon is only the admin's word for its legs
(`Multiple`, `update`). `importBetslip` makes one row after the other and may stop after any. A ticket with
no coupon sends the sportsbook's frame to its fixture (`BilhetesScreen.tsx:478`): with the provider's link
template (`altenar.provider.ts:40`) that link has neither a share code nor selections, so no coupon comes of it.

## 3. Runs

| run | instance | shows |
|---|---|---|
| `ledger` | 2 users, 3 transactions, amounts -1 and 2, 5 keys | `Chained`, `CommitsInSeqOrder`, `ImplementsLedger`, `CallsEnd` |
| `billing` | 2 sales of one buyer: credits or a pass, then any product of the catalogue; 2 workers; 1 failure; 2 days | `GrantedExactlyOnce`, `GrantsMatchRecords`, `AckedIsFinal`, `SalesAreGranted` |
| `wallet` | 1 user, 2 entradas, 2 workers, 6 keys, 2 free analyses, 1 failure | `ChargedIffUnlocked`, `ChargedIffDelivered`, `EmittedOnce`, `ImplementsShop`, `RequestsEnd` |
| `gamification` | 1 user, 1 entrada, 4 achievements, 2 tasks, 3 days, 1 result, 1 failure | `XpAccounted`, `StreakIsARun`, `AchievementsAreEarned`, `SameDayIsNoOp` |
| `settlement` | 1 match that may move, a generated and a hand-made ticket, 2 polls, 2 gradings, 1 sync | `SettlesAsSold`, `VerdictMatchesScore`, `NoStaleList`, `CapturedScoreIsFinal` |
| `grading` | 1 match that may move, a multiple of the day and a hand-made ticket, 1 run of each job, 1 edit, 1 failure | `DueTicketsAreGraded` |
| `session` | 2 admins and a member on one browser, 2 calls, 2 logins, 3 tokens, 2 expiries, 1 answer lost or reload | `OneTokenPerLogin`, `NeverLeftWithSpentToken`, `LoggedOutStaysOut`, `CallsAreShort`, `CheckingIsPending` |
| `gate` | a wait of 2 seconds, 2 requests, 1 screen of the tour before the last | `NeverEarly`, `WaitEnds` |
| `app` | tours of the screens, 2 requests in flight | `ChipsMatchTickets`, `BusyIsPending`, `CouponIsTheTicket` |
| `lifetime_lost` | lifetime then timed access, 1 worker | violated: `LifetimeAccessIsKept` |
| `score_pruned` | 1 match, 1 ticket, 1 sync | violated: `CapturedScoreIsKept` |
| `session_lost` | 1 member, 2 calls, 1 expiry | violated: `OnlyDeadSessionsAreCleared` |

The bounds. Locks are per user, so one user (two in the ledger run, to see that they do not
disturb each other) and two or three workers give every kind of race: holder, waiter, and one
that comes in between. Two events let a worker carry on to the next sale while the first is
replayed; the product `emptied` carries no amount of credits (`grantCredits ?? 0`), so that a sale
recorded without a movement occurs as well. One failure at any point, followed by a retry, is what the crash arguments need; the
liveness properties hold for any bounded number. Three days are the least for a streak of two,
a missed day and a restart. The ledger's bound is on keys drawn, rolled back ones included, so
that gaps in `seq` occur. `Quiet` in the MC modules only keeps a bounded model from looking
deadlocked; the service just waits for requests. In `MCGamification` the tasks are symmetric,
which is sound there because the run checks no liveness; so are the polls and the gradings in the
`settlement` run.

In `MCSettlement` a tick is the least a match lasts: it is listed live for one (`FullTime`) and the window
of a ticket is two (`MatchWindow`); only the order of the thresholds matters, and the proofs hold for any
two numbers in that order (eight and nine, with ticks of 15 minutes, are the code's). A kickoff is one of
two ticks, two apart, so that a ticket sold for the first has its window still open when a match put off to
the second begins, and over when that one is live; and a match brought forward is over long before its
tickets are due. What began in one tick ends in the next: `fetch` gives up on the provider after five
minutes, a job is a few statements. A cache entry (8 seconds) does not outlive its tick. One goal is enough
to tell 0-0, a win and a refund ("menos de 1"); the tickets are made on that pick and on one the engine
cannot grade. Runs that die are in `grading`; to the safety properties of `settlement` a run that dies is
one that takes no further step. Outside those the engine is compared with `Payout` on all scores up to 3-3
for every label of every kind the feed uses, with whole and half lines up to 2.5 goals (`MCLines`). `Poll`,
`Sync` and `Meets` leave out only steps that change nothing or do not meet a job: asking when no match
can be live any more, a sync with nothing to add or prune, an admin's edit before the ticket is due. In `grading` the fixture of a
ticket is not edited, which would make it another ticket.

In `MCSession` the user acts only while fewer than three tokens have been issued, which is enough
for a login, a rotation and an admin session, or two logins and a session; what is on its way ends
after that. Two calls are enough for every race over one token: the winner and the loser of a
rotation, or a rotation and a logout with another login. Only tokens somebody still holds run out,
since another's end is met by nobody. Calls are symmetric, and so are the admins; no liveness is
checked there. In `MCTelegramGate` two requests are an answer and the one that overtakes it, and a
wait of two seconds has a first, a middle and a last one; a longer wait only repeats the middle (and
`TelegramGateProofs` covers every wait).

`MCApp` cannot visit every screen in one behaviour: each behaviour is a tour of the home and one or
two other screens, chosen at its start. A screen is mounted anew each time, so what one leaves
behind for another is in the account, the requests still in flight, the coupon, and the popup; the
tours put together the screens that share these: tickets with the plans while the account changes,
tickets with the gate, tickets with the tipster (the popup carries an action from the one to the
other). The three categories have a plan's lock each, and two of them an explanation; two fixtures
with two outcomes make a multiple and a mistaken leg, and two legs stand for the three of the daily multiple
(`MultipleLegs`); one id for tickets made by hand (`Uuids`), one credit and one change of the account
suffice because no property relates two. In the `making` tour one request is in flight at a time and no
coupon is pasted; the `links` tour has the pasted coupons, and sends previews beside a ticket that is being
made, and a second ticket once the first answer has enabled the form; in the `managing` tours two requests
are in flight; in the `generated` one the generator writes over a ticket whose editor is open, and an older
copy of it is saved. The games in play come and go together. Of the lists asked for together only the one
the section shows may fail. That `addCoupon` meets a locked ticket does not occur, because
`ChipsMatchTickets` holds: the guard of the code for it is never needed.

What the violated runs mean. *Lifetime*: a null expiry counts as 0 in the maximum, so buying a
month after a lifetime shortens the access. *Pruning*: each sync, the daily one or an admin's,
deletes every fixture that has started together with the score captured for it; a ticket still
waiting for its result is then skipped by every later run. *Session*: two requests refused together
refresh with one token; the loser's refusal clears the storage, also when the winner has already
stored a valid pair, and the member is logged out of a session that is alive.

Weaknesses of the code the models show without a run, each with its property stated at the end of
the module and not checked: two passes bought together can add up to the shorter one
(`PassNeverShrinks`); the second tap on an unlock is refused for something already paid
(`UnlockIsIdempotent`; the money is safe); around midnight the older login can move `lastLoginAt`
back and a day counts twice (`DayCountedOnce`); two listeners may both pay an achievement's bonus
(`RewardedOnce`).

Others are shown by the models' steps, and the properties are stated so as to leave them out, which their
comments say:

* *A match put off.* A ticket keeps the kickoff it was sold for: its window is over before the match is, the
  grading run finds no score, or takes the one of the moment, and later polls change it. The comment
  "After this window a captured score is final" (`settle.service.ts:8`) does not hold of such a match.
  `VerdictMatchesScore` and `CapturedScoreIsFinal` are therefore claimed of matches that were never put off
  and of tickets sold for the kickoff or a later time (`OnTime`).
* *A logout during a refresh or an opening admin session.* Its answer stores the tokens of the one who left.
* *The shared `busy` of the backoffice.* After a preview's answer a ticket can be sent twice; and of the
  games in play only the one pressed last is disabled (`TipsterLive.tsx:209`), so that an analysis can be
  paid for twice. Of these two screens `BusyIsPending` says only that what is disabled is awaited.
* *A multiple typed into the form* gets the result of the one selection picked there (`settle.service.ts:100`).
* *A coupon that was pasted* is sold with another fixture's words, and an edited multiple may keep a coupon
  of legs that the generator has replaced. `CouponIsTheTicket` is about the coupons the code builds.
* *A failed save of the nickname* closes its field with the draft in it (`PerfilScreen.tsx:173`), although
  the comment at `:153` says "the control stays where it is so the user can retry"; the avatar's picker
  is closed before the request is sent (`:160`). `Perfil.Saved` does what the code does.

### Fairness

Strong fairness for the step of a worker that may wait for a lock: PostgreSQL queues lock
waiters, so one of them is not passed over for ever. Weak fairness for the other statements: the
database answers or the transaction ends. In Billing the gateway keeps delivering an event it has
seen no 2xx for, which is what `billing.service.ts:110-113` and `:91` assume of it; nothing forces
a worker to fail or not to, only the number of failures is bounded. In Settlement
`settlePending` is weakly fair: the scheduler starts it every ten minutes and a run, once started, goes
on by itself; `DueTicketsAreGraded` needs no poll, sync or admin to act. In TelegramGate the clock
(`Second`) and each interval that is set (`Tick`) go on; nothing forces a request to be answered, so
`WaitEnds` needs the page alone. Session states weak fairness of the server's answers and of the
browser's continuations; it gives a meaning to the counterexample of `session_lost`, whose system
does not simply stop. No fairness is assumed of users, of the admin, or of the clock elsewhere.

## 4. Proofs

`CreditsLedgerProofs` proves, for any `Users`, `Txs`, `Amounts` and `Refs` (assumed: amounts are
integers, `NoTx` is no transaction):

* `LedgerTypeOK`, `LedgerChained`, `LedgerCommitsInSeqOrder`, `LedgerRefinement`.

`Chained` is not inductive: a commit keeps it only because of what the transaction knew. The
inductive invariant `IInv` adds that (`LockInv`) a transaction past the lock holds it, (`ReadInv`)
the balance it read is still the balance, (`CreatedInv`) its key is above every committed key of
its user and its row is not negative, and (`SeqInv`) keys are unique per user and a non-empty
account has a last row, which gives meaning to the CHOOSE of `LatestIn`. The lock is what makes
`ReadInv` survive other transactions' commits, which is the argument of the code's own comment.
`CommitEffect` says what a commit does to the balance; refinement follows from it.

`BillingProofs` shows first that every step of `Billing` is a step of the ledger or leaves it alone
(`BillingDrivesLedger`); the invariant needed is only that a worker handles one of `Events`
(`HookInv`). So `BillingChained` and `BillingImplementsLedger` come from the ledger's theorems. For the
exactly-once properties (`SalesMoveCreditsOnce`, `GrantsAreRecorded`, `AcksAreFinal`, `BillingTypes`)
the inductive invariant `BillingInv` adds two things. `WorkInv`: a worker inside its transaction holds
the grant its event calls for and no other, its event has no record yet, and the row in its ledger
transaction is the one owed; so the commit, which makes record and grant visible together, keeps both
properties for its own event. `Alone`: no two workers are inside that transaction for one event, which
is what the unique key on `externalId` gives (`~Blocked`) and what keeps it for the others'. Nothing is
asked of the dedupe lookup: the theorem holds whatever it read, as the code's comment on P2002 expects.

Assumed of the constants (`BillingAssumption`, `NullAssumption`): event ids are among the ledger's refs,
what products and plans grant is among `Amounts`, a period is a number of days or null, and null is
neither a time nor a row. Periods of 0 days are allowed, and so are grants of 0 credits: these record a
sale that moves nothing, which is why `GrantedExactlyOnce` asks for a row only where the code makes one
(`MovesCredits`). TLC evaluates the assumptions in the runs.

`WalletProofs` does the same for unlocks, analyses and purchases (`WalletDrivesLedger`), and proves the
four invariants of the `wallet` run and `WalletImplementsShop`, the refinement of `Shop`, for any prices
and any number of requests. `ChargedIffUnlocked` needs to know why an unlock that found no row still
finds none when it commits: it holds the user's advisory lock from its debit on, and `WorkInv` keeps the
key free for whoever is past `CreateUnlock`, so another request with the same key would have to hold the
same lock (`LockInv` of the ledger). `EmitsAlone` says that only the request that committed an unlock
announces it. `ChargedIffDelivered` counts: a commit adds one debit and one paid session or neither,
which needs the set of rows to be finite. The refinement goes step by step over what a commit does to
`getBalance` (`CommitEffect` of the ledger); every other step of a request is a stutter of the shop.

`GamificationProofs` proves the four properties of the `gamification` run and its types, for any
thresholds, achievements, rewards, tasks and days. Three arguments meet in `GameInv`. XP: an award
reads and writes the row under the XP lock, and adds to it what it adds to the books. The
streak: between `ReadStreak` and `CommitStreak` the lock keeps what was read true, and a login counts the
day it writes, so that the run grows by the day after its last or starts again at 1. Achievements are
measured outside any lock; they are earned all the same because unlocks, level and best streak only
grow (`LevelGrows`: more XP is never a lower level). Assumed of the constants: what
`gamification.constants.ts` has, i.e. finitely many achievements with natural rewards and thresholds,
level 1 at 0 XP and every later level above 0. `Bonus`, the sum of the rewards unlocked together, is the
number of points in their disjoint union, since a fold over a set is out of the provers' reach.

`SettlementProofs` proves `SettlementInvariant`, and from it `VerdictsMatchScores`,
`CapturedScoresAreFinal` and `NoStaleLists`, for any matches, kickoffs, tickets and numbers of overlapping
runs. `VerdictMatchesScore` alone is not inductive, because a grading works from what it read two
awaits ago, and the kickoff may have moved in three places since. The argument is one of time. A kickoff
that has passed stays where it is, and another moves to a time still to come (`Moves`, `WorldMoves`): so
what was read of a ticket's kickoff while its window was over is still so (`MovesKeep`). Every run is at
most one tick old (`Recent`) and a list of live matches held by a poll or the cache was asked for while its
matches were live (`LiveList`), so no poll writes the score of a match past its window, whatever a sync
makes of its row (`Steady`, `RowsAreSteady`). A generation makes tickets only of matches that were not
over when it began, and for the kickoff of that moment or an earlier read of one put off since (`SyncInv`,
`Heeded`), so it does not touch the singles of a match past its window (`HandsOff`, `HandsAreOff`); what it
does to multiples is harmless, since they are never graded (`Made`, `LeftToAdmin`). A grading holds only
what was due (`InHand`, `ReadTrue`), so what it read is still so when it writes, unless an admin came in
between or the match was put off (`StillSo`, `Agrees`). Assumed of the constants
(`SettlementAssumption`): the provider drops a match before its window is over, tickets are made on
labels of the catalogue, kickoffs and goals are natural numbers. That a run ends within the tick after
the one it began in is part of the model (`Tick`). `LabelsArePaid` is about the engine itself: for every
kind of label, any line, whole or half, and any numbers of goals, `settleBilhete` gives what the bet
pays, lemma by lemma for the markets on the result, the totals and the others. The labels are those of
teams neither of whose names contains the other or one of the words the engine looks for; what happens
otherwise is a hazard in `PROJECT.json`.

`TelegramGateProofs` proves `GateTypeOK` and `NeverEarly` for any wait, any tour and any number of
requests in flight. `NeverEarly` relates a countdown to the server's clock, and says nothing yet of an
answer on its way. The inductive invariant adds (`CallInv`) that no answer on its way shows more of the
wait as passed than has passed on the server, and (`HookInv`) that a hook is at most one second ahead,
and not ahead at all while its interval has still to fire in this second. An old answer is behind, never
ahead: that is why answers may overtake each other.

`SessionProofs` proves all six properties of the `session` run for any users, any admins, any number of
calls in flight, of failures and of tokens. None but `CheckingIsPending` is inductive. A login's token
is either a row or in the hands of the one call that has deleted the row and not yet created the next
(`OneInv`; the delete by primary key is what makes it one). A token in the storage that has no row any
more is being exchanged by a call whose answer will replace it, and the token in that answer is known
to nobody else until then (`TokenInv`), so that no late answer puts a spent one back. For
`LoggedOutStaysOut`, `OutInv` follows what will be stored next: the tokens that a refresh or an opening
admin session is about, at the server or in an answer, are of nobody who has left, so no continuation can
bring one back; a refused call reads the storage when its answer comes, which is where a version that
remembers the token it was sent with fails (`SendCaptured`). `ShortInv` counts
the requests a call has made by where it stands. `MoveOn` is the step of a call in the browser, of
which every continuation and every beginning is an instance.

`AppProofs` proves the four properties of the `app` run (`AppTypesHold`, `RailIsOfOnePiece`,
`BusyMeansPending`, `CouponsAreTheTickets`) for any of the feed's categories, any fixtures, outcomes,
names and number of requests in flight, and for every order of screens, where the run has tours. The argument
follows a value from where it is made to where it is used. A request carries only what its screen could
hold (`GoodRequest`), an answer what the server read at one moment (`GoodAnswer`: chips and tickets of one
answer match, `Matching`), a screen what such answers brought (`ScreenInv`), and the popup what the screen
under it asked for (`HeldInv`): an action held for a screen that is gone is marked so, which is what lets
`proceed` run it safely. For the coupon, `FormInv` says that a form nobody has typed in has the fixture,
the outcome and the words of one pick, although they are filled by different handlers; `Honest` carries
this to the request and to the row. It is kept beside the generator because each of its rows is written whole
(`UpsertKept`), and in the editor because words and coupon of a single selection travel together. `BusyInv` says for each screen which requests a disabled control
stands for (`Waits`): at most one, and one exactly while the control is disabled; of the backoffice, where a
second request may be on its way, only that there is one while `busy` is set (`Owed`): the first answer clears
it, and no answer sets it. An unmount and a change
of tab drop the control and orphan the request in one step, so that a late answer finds no control to
release. Assumed: `ClientAssumption` and `BackofficeAssumption` (a fixture on offer has an outcome to
bet on; those whose markets are all closed are left out of the model).

What stays with TLC. Liveness (`CallsEnd`, `SalesAreGranted`, `RequestsEnd`, `DueTicketsAreGraded`,
`WaitEnds`), which speaks of fairness and ENABLED and is out of the proof system's reach. The three
violated runs: what is false has no proof. Every invariant and every action property the passing runs
check is a theorem.

## 5. Plan

1. Proofs: what the liveness properties rest on, as far as it is safety: a lock that is held is held by
   a transaction that can take a step, a ticket passed over is met again.
2. `selectAutomaticPicks` and the normalisers of `altenar.normalize.ts` as operators.
3. `TeamsService`'s synchronisation under its in-process flag; the tutorial's versions.

## 6. Not modelled, and why

* Payment adapters: payload parsing and signatures, a pure function of each request.
* Tutorial, teams, and the other tabs of the backoffice: reads and writes of single rows, one at a
  time; teams' logos are I/O.
* Building candidates for the AI, the model itself, reading a betslip's image or a shared coupon:
  the provider's answer, here any of its outcomes.
* On the screens: the free odd's popup and the greens' filter by period, which only choose what is
  drawn; the wording and layout of everything; crests.
* Health, containers, backups, exception filters, Prisma's plumbing: I/O without a protocol.
* Several tabs of one browser: the storage is shared, the page's state is not. A second tab is a
  further set of calls in `Session`, but its login state would be a variable of its own.
