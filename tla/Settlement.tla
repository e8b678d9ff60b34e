------------------------------ MODULE Settlement ------------------------------
(***************************************************************************)
(* How a ticket (bilhete) gets its result: SettleService's two cron jobs,  *)
(* the live feed they read through SportsFeedService's cache, the sync     *)
(* that fills and prunes the SportEvent table, the daily generation of     *)
(* tickets, and the admin who works on the same rows by hand.  Every await *)
(* of a job is a boundary between steps, and jobs overlap: the scheduler   *)
(* does not wait for the last run of a job to end.                         *)
(*                                                                         *)
(* A kickoff is kept in three places: the provider's own, which moves when *)
(* a match is put off or brought forward; startsAt of the SportEvent row,  *)
(* rewritten by every sync; and startsAt of a ticket, the kickoff it was   *)
(* sold for, which no sync moves and which settlePending goes by.          *)
(***************************************************************************)
EXTENDS Settle, FiniteSets

CONSTANTS
  Scorelines,       \* the scores the engine is checked on
  Lines,            \* and the lines of totals, doubled
  Events, Tickets,
  Generated,        \* the tickets with an id of the generator's
  Multiples,        \* of these, the multiples of the day, whose fixtures may change
  FixtureOf,        \* a generated single, whose id holds its fixture's -> that fixture
  Times,            \* the kickoffs that occur, in ticks
  Picks,            \* the picks of the catalogue that tickets are made on
  MatchWindow,      \* MATCH_WINDOW_MS, in ticks
  FullTime,         \* how long the provider lists a match as live, in ticks
  Pollers, Graders, Syncs,   \* runs that may be under way at once
  MaxGoals,   \* bound on the goals of one match
  Horizon, MaxEdits, MaxFailures,   \* bounds on the clock, the admin's edits, the runs that die
  NoRow, NoScore

VARIABLES
  now,        \* the clock; everything of one tick happens within it
  kickoff,    \* when a match starts, at the provider
  score,      \* the real match, at the provider
  sportEvent, \* the SportEvent table: score, startsAt, finishedAt set or not
  bilhete,    \* the Bilhete table
  liveCache,  \* SportsFeedService.liveCache: when it was asked, what it holds
  poll, grade, sync,   \* the runs under way
  byHand,     \* history: tickets an admin has changed or removed by hand
  postponed,  \* history: events whose kickoff was ever put off
  edits, failures

world == <<now, kickoff, score, postponed>>
settlementVars == <<world, sportEvent, bilhete, liveCache, poll, grade, sync,
                    byHand, edits, failures>>

Scores == {s \in [home : 0..MaxGoals, away : 0..MaxGoals] : s.home + s.away <= MaxGoals}

EventRow == [score : Scores \cup {NoScore}, startsAt : Times, finished : BOOLEAN]
Ticket == [event : Events, startsAt : Times, pick : Picks, published : BOOLEAN,
           resultado : {"pending", "green", "red"}]

\* Every pick on offer, with the bet it stands for.
Catalogue == Labels(Scorelines, Lines)

\* The provider drops a match well before its window is over.
ASSUME SettlementAssumption ==
  /\ Generated \subseteq Tickets /\ Multiples \subseteq Generated
  /\ FixtureOf \in [Generated -> Events]
  /\ Scorelines \subseteq [home : Nat, away : Nat] /\ Lines \subseteq Nat
  /\ Picks \subseteq Catalogue /\ Scores \subseteq Scorelines
  /\ ByAdmin(Scorelines) \in Picks
  /\ Times \subseteq Nat /\ Times # {}
  /\ MatchWindow \in Nat /\ FullTime \in Nat /\ FullTime < MatchWindow
  /\ MaxGoals \in Nat /\ Horizon \in Nat
  /\ NoRow \notin Ticket

Goalless == [home |-> 0, away |-> 0]

InPlay(e) == kickoff[e] <= now /\ now < kickoff[e] + FullTime
Upcoming == {e \in Events : kickoff[e] > now}

\* A row of SportEvent, and one of Bilhete as it is made.
Row(s, startsAt, finished) == [score |-> s, startsAt |-> startsAt, finished |-> finished]
Slip(event, startsAt, pick, published, resultado) ==
  [event |-> event, startsAt |-> startsAt, pick |-> pick, published |-> published,
   resultado |-> resultado]

Stored(e) == sportEvent[e] # NoRow /\ sportEvent[e].score # NoScore
Exists(t) == bilhete[t] # NoRow

\* Mutant: the cutoff is now, not now less the window.
Elapsed_NoWindow(t) == bilhete[t].startsAt < now

\* The window is measured from the ticket's own startsAt.
Elapsed(t) == bilhete[t].startsAt < now - MatchWindow

Due(t) ==
  Exists(t) /\ bilhete[t].published /\ bilhete[t].resultado = "pending" /\ Elapsed(t)

\* Where a run stands: nowhere, or at a step, with the time it began.
Rest == [pc |-> "idle"]
Asking(at) == [pc |-> "ask", at |-> at]
Answered(at, data) == [pc |-> "answer", at |-> at, data |-> data]
Writing(at, data) == [pc |-> "write", at |-> at, data |-> data]
Reading(at, ids, todo) == [pc |-> "scores", at |-> at, ids |-> ids, todo |-> todo]
Grading(at, ids, todo, byExt, settled) ==
  [pc |-> "loop", at |-> at, ids |-> ids, todo |-> todo, byExt |-> byExt, settled |-> settled]
Upserting(at, daily, todo) == [pc |-> "upsert", at |-> at, daily |-> daily, todo |-> todo]
Selecting(at) == [pc |-> "select", at |-> at]
Ticketing(at, todo) == [pc |-> "tickets", at |-> at, todo |-> todo]

SettlementInit ==
  /\ now = 0
  /\ kickoff \in [Events -> Times]
  /\ postponed = {}
  /\ score = [e \in Events |-> Goalless]
  /\ sportEvent = [e \in Events |-> NoRow]
  /\ bilhete = [t \in Tickets |-> NoRow]
  /\ liveCache = NoRow
  /\ poll = [p \in Pollers |-> Rest]
  /\ grade = [g \in Graders |-> Rest]
  /\ sync = [y \in Syncs |-> Rest]
  /\ byHand = {}
  /\ edits = 0
  /\ failures = 0

------------------------------------------------------------------------------
\* The world.  A request or a run that began in one tick has ended by the end of
\* the next: the HTTP client gives up after five minutes, a tick is longer.  A cache
\* entry has expired long before the tick ends, and an expired one is as good as none.
Began == {poll[p].at : p \in {q \in Pollers : poll[q].pc # "idle"}}
         \cup {grade[g].at : g \in {h \in Graders : grade[h].pc # "idle"}}
         \cup {sync[y].at : y \in {z \in Syncs : sync[z].pc # "idle"}}

Tick ==
  /\ now < Horizon
  /\ \A at \in Began : at = now
  /\ now' = now + 1
  /\ liveCache' = NoRow
  /\ UNCHANGED <<kickoff, score, postponed, sportEvent, bilhete, poll, grade, sync,
                 byHand, edits, failures>>

\* A match that has not begun is put off or brought forward.
Reschedule(e, at) ==
  /\ now < kickoff[e] /\ now < at
  /\ kickoff' = [kickoff EXCEPT ![e] = at]
  /\ postponed' = IF kickoff[e] < at THEN postponed \cup {e} ELSE postponed
  /\ UNCHANGED <<now, score, sportEvent, bilhete, liveCache, poll, grade, sync,
                 byHand, edits, failures>>

Goal(e, side) ==
  /\ InPlay(e) /\ score[e].home + score[e].away < MaxGoals
  /\ score' = [score EXCEPT ![e][side] = @ + 1]
  /\ UNCHANGED <<now, kickoff, postponed, sportEvent, bilhete, liveCache, poll, grade, sync,
                 byHand, edits, failures>>

------------------------------------------------------------------------------
\* SportsFeedService.fetchLive, for the poller and for a viewer's request.
PollStays == UNCHANGED <<world, bilhete, grade, sync, byHand, edits, failures>>

\* LIVE_FEED_TTL_MS is 8 seconds: within the tick it was asked in, at most.
Fresh(cache) == cache # NoRow /\ cache.at = now

\* A hit; the write loop of an empty list ends at once.
ServeCached(p) ==
  /\ poll[p].pc = "idle"
  /\ Fresh(liveCache) /\ DOMAIN liveCache.data # {}
  /\ poll' = [poll EXCEPT ![p] = Writing(now, liveCache.data)]
  /\ UNCHANGED <<sportEvent, liveCache>> /\ PollStays

\* A miss: the TTL may have run out within the tick.  `at` is taken here.
AskProvider(p) ==
  /\ poll[p].pc = "idle"
  /\ poll' = [poll EXCEPT ![p] = Asking(now)]
  /\ UNCHANGED <<sportEvent, liveCache>> /\ PollStays

\* The live list as the provider has it at this moment; an entry without a score
\* is read as 0-0 (normalizeAltenarLive).
ProviderAnswers(p, blank) ==
  /\ poll[p].pc = "ask"
  /\ LET live == {e \in Events : InPlay(e)}
     IN /\ blank \subseteq live
        /\ poll' = [poll EXCEPT ![p] =
             Answered(poll[p].at, [e \in live |-> IF e \in blank THEN Goalless ELSE score[e]])]
  /\ UNCHANGED <<sportEvent, liveCache>> /\ PollStays

\* Mutant: an entry is as old as its answer.
CacheAnswer_StampedLate(p, writes) ==
  /\ poll[p].pc = "answer"
  /\ liveCache' = [at |-> now, data |-> poll[p].data]
  /\ poll' = [poll EXCEPT ![p] =
       IF writes /\ DOMAIN poll[p].data # {}
       THEN Writing(poll[p].at, poll[p].data) ELSE Rest]
  /\ UNCHANGED sportEvent /\ PollStays

\* An entry is as old as its question, however late its answer.  The poller goes on
\* to write the list, a viewer (a tipster page, an admin's crest sync) does not.
CacheAnswer(p, writes) ==
  /\ poll[p].pc = "answer"
  /\ liveCache' = [at |-> poll[p].at, data |-> poll[p].data]
  /\ poll' = [poll EXCEPT ![p] =
       IF writes /\ DOMAIN poll[p].data # {}
       THEN Writing(poll[p].at, poll[p].data) ELSE Rest]
  /\ UNCHANGED sportEvent /\ PollStays

\* One updateMany of captureLiveScores' loop; it touches no row if there is none.
CaptureScore(p, e) ==
  /\ poll[p].pc = "write" /\ e \in DOMAIN poll[p].data
  /\ sportEvent' = IF sportEvent[e] = NoRow THEN sportEvent
                   ELSE [sportEvent EXCEPT ![e] = Row(poll[p].data[e], @.startsAt, @.finished)]
  /\ LET left == DOMAIN poll[p].data \ {e}
     IN poll' = [poll EXCEPT ![p] =
          IF left = {} THEN Rest ELSE Writing(poll[p].at, Restrict(poll[p].data, left))]
  /\ UNCHANGED liveCache /\ PollStays

\* The provider, or the database, throws: the job logs and gives up.
PollFails(p) ==
  /\ poll[p].pc # "idle" /\ failures < MaxFailures
  /\ poll' = [poll EXCEPT ![p] = Rest]
  /\ failures' = failures + 1
  /\ UNCHANGED <<world, sportEvent, bilhete, liveCache, grade, sync, byHand, edits>>

captureLiveScores(p) ==
  \/ AskProvider(p) \/ ServeCached(p)
  \/ \E blank \in SUBSET Events : ProviderAnswers(p, blank)
  \/ \E writes \in BOOLEAN : CacheAnswer(p, writes)
  \/ \E e \in Events : CaptureScore(p, e)

------------------------------------------------------------------------------
\* SettleService.settlePending.
GradeStays == UNCHANGED <<world, liveCache, poll, sync, byHand, edits, failures>>

\* Mutant: a ticket is due once its match has begun.
ReadPending_Early(g) ==
  LET pending == {t \in Tickets : /\ Exists(t) /\ bilhete[t].published
                                  /\ bilhete[t].resultado = "pending"
                                  /\ bilhete[t].startsAt < now}
  IN /\ grade[g].pc = "idle" /\ pending # {}
     /\ grade' = [grade EXCEPT ![g] =
          Reading(now, {bilhete[t].event : t \in pending}, Restrict(bilhete, pending))]
     /\ UNCHANGED <<sportEvent, bilhete>> /\ GradeStays

\* bilhete.findMany: the rows of the tickets that are due, and the events they name;
\* nothing pending ends the run.
ReadPending(g) ==
  LET pending == {t \in Tickets : Due(t)}
  IN /\ grade[g].pc = "idle" /\ pending # {}
     /\ grade' = [grade EXCEPT ![g] =
          Reading(now, {bilhete[t].event : t \in pending}, Restrict(bilhete, pending))]
     /\ UNCHANGED <<sportEvent, bilhete>> /\ GradeStays

\* sportEvent.findMany: byExt.
ReadScores(g) ==
  /\ grade[g].pc = "scores"
  /\ grade' = [grade EXCEPT ![g] =
       Grading(grade[g].at, grade[g].ids, grade[g].todo,
               [e \in {x \in grade[g].ids : Stored(x)} |-> sportEvent[e].score], FALSE)]
  /\ UNCHANGED <<sportEvent, bilhete>> /\ GradeStays

OutcomeOf(g, t) ==
  LET b == grade[g].todo[t]
  IN IF b.event \notin DOMAIN grade[g].byExt THEN "pending"
     ELSE settleBilhete(grade[g].byExt[b.event], b.pick)

Passed(g, t, settled) ==
  [grade EXCEPT ![g] = Grading(grade[g].at, grade[g].ids,
     Restrict(grade[g].todo, DOMAIN grade[g].todo \ {t}), grade[g].byExt, settled)]

\* Mutant: the loop returns, instead of going on, at a ticket it cannot grade.
Skip_Returns(g, t) ==
  /\ grade[g].pc = "loop" /\ t \in DOMAIN grade[g].todo
  /\ OutcomeOf(g, t) = "pending"
  /\ grade' = [grade EXCEPT ![g] = Rest]
  /\ UNCHANGED <<sportEvent, bilhete>> /\ GradeStays

Skip(g, t) ==
  /\ grade[g].pc = "loop" /\ t \in DOMAIN grade[g].todo
  /\ OutcomeOf(g, t) = "pending"
  /\ grade' = Passed(g, t, grade[g].settled)
  /\ UNCHANGED <<sportEvent, bilhete>> /\ GradeStays

\* bilhete.update looks at the id alone; it throws, and ends the run, when the
\* ticket is gone.
SetOutcome(g, t) ==
  /\ grade[g].pc = "loop" /\ t \in DOMAIN grade[g].todo
  /\ OutcomeOf(g, t) # "pending"
  /\ IF Exists(t)
     THEN /\ bilhete' = [bilhete EXCEPT ![t] = [@ EXCEPT !.resultado = OutcomeOf(g, t)]]
          /\ grade' = Passed(g, t, TRUE)
     ELSE grade' = [grade EXCEPT ![g] = Rest] /\ UNCHANGED bilhete
  /\ UNCHANGED sportEvent /\ GradeStays

\* finishedAt, on every event a ticket of the run names.
MarkFinished(g) ==
  /\ grade[g].pc = "loop" /\ DOMAIN grade[g].todo = {}
  /\ sportEvent' = [e \in Events |->
       IF grade[g].settled /\ e \in grade[g].ids /\ sportEvent[e] # NoRow
       THEN Row(sportEvent[e].score, sportEvent[e].startsAt, TRUE) ELSE sportEvent[e]]
  /\ grade' = [grade EXCEPT ![g] = Rest]
  /\ UNCHANGED bilhete /\ GradeStays

GradeFails(g) ==
  /\ grade[g].pc # "idle" /\ failures < MaxFailures
  /\ grade' = [grade EXCEPT ![g] = Rest]
  /\ failures' = failures + 1
  /\ UNCHANGED <<world, sportEvent, bilhete, liveCache, poll, sync, byHand, edits>>

settlePending(g) ==
  \/ ReadPending(g) \/ ReadScores(g) \/ MarkFinished(g)
  \/ \E t \in Tickets : Skip(g, t) \/ SetOutcome(g, t)

------------------------------------------------------------------------------
\* SportsFeedService.sync, on its own (an admin) or at the head of generateDaily.
SyncStays == UNCHANGED <<world, liveCache, poll, grade, byHand, edits>>

FetchUpcoming(y, daily) ==
  /\ sync[y].pc = "idle"
  /\ sync' = [sync EXCEPT ![y] = Upserting(now, daily, Restrict(kickoff, Upcoming))]
  /\ UNCHANGED <<sportEvent, bilhete, failures>> /\ SyncStays

\* A batch runs in any order; an update rewrites the kickoff and leaves the captured
\* score and finishedAt alone.
upsertEvent(y, e) ==
  /\ sync[y].pc = "upsert" /\ e \in DOMAIN sync[y].todo
  /\ sportEvent' = [sportEvent EXCEPT ![e] =
       IF @ = NoRow THEN Row(NoScore, sync[y].todo[e], FALSE)
       ELSE Row(@.score, sync[y].todo[e], @.finished)]
  /\ sync' = [sync EXCEPT ![y] =
       Upserting(@.at, @.daily, Restrict(@.todo, DOMAIN @.todo \ {e}))]
  /\ UNCHANGED <<bilhete, failures>> /\ SyncStays

\* Every row whose startsAt has passed goes, in play or not, graded or not.
prunePastEvents(y) ==
  /\ sync[y].pc = "upsert" /\ DOMAIN sync[y].todo = {}
  /\ sportEvent' = [e \in Events |->
       IF sportEvent[e] # NoRow /\ sportEvent[e].startsAt <= now THEN NoRow ELSE sportEvent[e]]
  /\ sync' = [sync EXCEPT ![y] =
       IF sync[y].daily THEN Selecting(sync[y].at) ELSE Rest]
  /\ UNCHANGED <<bilhete, failures>> /\ SyncStays

\* The fixtures whose row says they are to come, and which still have outcomes on offer:
\* a match that is over has none.
Offered == {e \in Events : /\ sportEvent[e] # NoRow /\ sportEvent[e].startsAt > now
                           /\ now < kickoff[e] + FullTime}

\* What a ticket will be made for: its fixture, at the provider's kickoff of this moment;
\* a multiple takes the fixture of one leg, and the kickoff of the earliest.
SlotsOf(t) ==
  IF t \in Multiples
  THEN {[event |-> l[1], startsAt |-> kickoff[l[2]]] :
          l \in {x \in Offered \X Offered : kickoff[x[2]] <= kickoff[x[1]]}}
  ELSE {[event |-> e, startsAt |-> kickoff[e]] : e \in Offered \cap {FixtureOf[t]}}

\* generateDaily's reads and previews; any preview may fail or offer no pick.
SelectPicks(y, chosen) ==
  /\ sync[y].pc = "select"
  /\ \E slot \in [chosen -> UNION {SlotsOf(t) : t \in chosen}] :
       /\ \A t \in chosen : slot[t] \in SlotsOf(t)
       /\ sync' = [sync EXCEPT ![y] = Ticketing(@.at, slot)]
  /\ UNCHANGED <<sportEvent, bilhete, failures>> /\ SyncStays

\* upsertSingle, upsertMultiple: an update rewrites fixture, kickoff and pick and publishes
\* again, and leaves resultado alone.  A multiple has no market of its own.
upsertTicket(y, t, pick) ==
  /\ sync[y].pc = "tickets" /\ t \in DOMAIN sync[y].todo
  /\ t \in Multiples => pick = ByAdmin(Scorelines)
  /\ bilhete' = [bilhete EXCEPT ![t] =
       Slip(sync[y].todo[t].event, sync[y].todo[t].startsAt, pick, TRUE,
            IF Exists(t) THEN @.resultado ELSE "pending")]
  /\ sync' = [sync EXCEPT ![y] =
       Ticketing(@.at, Restrict(@.todo, DOMAIN @.todo \ {t}))]
  /\ UNCHANGED <<sportEvent, failures>> /\ SyncStays

EndDaily(y) ==
  /\ sync[y].pc = "tickets" /\ DOMAIN sync[y].todo = {}
  /\ sync' = [sync EXCEPT ![y] = Rest]
  /\ UNCHANGED <<sportEvent, bilhete, failures>> /\ SyncStays

\* Also the update of an event's markets that finds its row pruned.
SyncFails(y) ==
  /\ sync[y].pc # "idle" /\ failures < MaxFailures
  /\ sync' = [sync EXCEPT ![y] = Rest]
  /\ failures' = failures + 1
  /\ UNCHANGED <<sportEvent, bilhete>> /\ SyncStays

generateDaily(y) ==
  \/ \E daily \in BOOLEAN : FetchUpcoming(y, daily)
  \/ \E e \in Events : upsertEvent(y, e)
  \/ prunePastEvents(y)
  \/ \E chosen \in SUBSET Generated : SelectPicks(y, chosen)
  \/ \E t \in Generated, pick \in Picks : upsertTicket(y, t, pick)
  \/ EndDaily(y)

------------------------------------------------------------------------------
\* AdminBilhetesService.  Ids of the tickets an admin makes are never drawn twice.
AdminStays == UNCHANGED <<world, sportEvent, liveCache, poll, grade, sync, failures>>

\* create, createFromEvents and importBetslip, a row at a time.  The kickoff is what the
\* form, the fixture's row or the slip says: any.
create(t, row) ==
  /\ t \notin Generated /\ ~Exists(t) /\ t \notin byHand
  /\ row.resultado = "pending"
  /\ bilhete' = [bilhete EXCEPT ![t] = row]
  /\ UNCHANGED <<byHand, edits>> /\ AdminStays

Edit(t, row, hand) ==
  /\ Exists(t) /\ edits < MaxEdits
  /\ bilhete' = [bilhete EXCEPT ![t] = row]
  /\ byHand' = byHand \cup hand
  /\ edits' = edits + 1
  /\ AdminStays

update(t, row) ==
  /\ Exists(t) /\ row.published = bilhete[t].published /\ row.resultado = bilhete[t].resultado
  /\ Edit(t, row, {t})
setResult(t, resultado) == Edit(t, [bilhete[t] EXCEPT !.resultado = resultado], {t})
setPublished(t, published) == Edit(t, [bilhete[t] EXCEPT !.published = published], {})
remove(t) == Edit(t, NoRow, {t})

Admin(t) ==
  \/ \E row \in Ticket : create(t, row) \/ update(t, row)
  \/ \E resultado \in {"pending", "green", "red"} : setResult(t, resultado)
  \/ \E published \in BOOLEAN : setPublished(t, published)
  \/ remove(t)

------------------------------------------------------------------------------
World ==
  \/ Tick
  \/ \E e \in Events, at \in Times : Reschedule(e, at)
  \/ \E e \in Events, side \in {"home", "away"} : Goal(e, side)
Failing == \/ \E p \in Pollers : PollFails(p)
           \/ \E g \in Graders : GradeFails(g)
           \/ \E y \in Syncs : SyncFails(y)

SettlementNext ==
  \/ World \/ Failing
  \/ \E p \in Pollers : captureLiveScores(p)
  \/ \E g \in Graders : settlePending(g)
  \/ \E y \in Syncs : generateDaily(y)
  \/ \E t \in Tickets : Admin(t)

\* The scheduler starts settleJob every ten minutes and a run goes on by itself.
SettlementFairness == \A g \in Graders : WF_settlementVars(settlePending(g))

SettlementSpec == SettlementInit /\ [][SettlementNext]_settlementVars /\ SettlementFairness

------------------------------------------------------------------------------
\* What the two tables, the cache's age and the runs' positions can be.
SettlementTypeOK ==
  /\ now \in 0..Horizon
  /\ kickoff \in [Events -> Times] /\ score \in [Events -> Scores]
  /\ sportEvent \in [Events -> EventRow \cup {NoRow}]
  /\ bilhete \in [Tickets -> Ticket \cup {NoRow}]
  /\ \A p \in Pollers : poll[p].pc \in {"idle", "ask", "answer", "write"}
  /\ \A g \in Graders : grade[g].pc \in {"idle", "scores", "loop"}
  /\ \A y \in Syncs : sync[y].pc \in {"idle", "upsert", "select", "tickets"}
  /\ byHand \subseteq Tickets /\ postponed \subseteq Events

\* Every pick on offer before a kickoff is one the engine pays as the bet it stands
\* for, whatever the score will be: wins are green, refunds stay pending, the rest is
\* red (settle.ts and the labels its header lists).
PaidAsSold ==
  {b \in Catalogue : \A s \in Scorelines : settleBilhete(s, b) = Payout(s, b.bet)}
SettlesAsSold == Upcoming # {} => Catalogue \subseteq PaidAsSold

\* A verdict no admin had a hand in is what the ticket's bet pays on the score its
\* event's row holds: overlapping runs, polls that end late, matches brought forward and
\* regenerated tickets never leave the two tables at odds (settlePending, upsertSingle).
\* It is said of tickets sold for the match's kickoff or a later one, and of matches that
\* were never put off: a ticket that keeps the kickoff a match was put off from is graded
\* while the match is still to come, or on a score that moves on.
OnTime(event, startsAt) == event \notin postponed /\ kickoff[event] <= startsAt
VerdictMatchesScore ==
  \A t \in Tickets :
    (/\ Exists(t) /\ t \notin byHand /\ OnTime(bilhete[t].event, bilhete[t].startsAt)
     /\ bilhete[t].resultado # "pending" /\ Stored(bilhete[t].event))
    => bilhete[t].resultado =
         Payout(sportEvent[bilhete[t].event].score, bilhete[t].pick.bet)

\* "After this window a captured score is final": once the window of a ticket is over
\* that was sold for the match's kickoff or a later one, the score of its event's row
\* never changes, whatever poll or sync is still under way.
CapturedScoreIsFinal ==
  [][\A t \in Tickets :
       LET e == bilhete[t].event
       IN Exists(t) /\ Elapsed(t) /\ kickoff[e] <= bilhete[t].startsAt
            /\ sportEvent[e] # NoRow /\ sportEvent'[e] # NoRow
          => sportEvent'[e].score = sportEvent[e].score]_settlementVars

\* A poll writes the score only of matches that were still live when it began: the
\* cache never hands it a list from before its question (fetchLive).
NoStaleList ==
  \A p \in Pollers : poll[p].pc = "write" =>
    \A e \in DOMAIN poll[p].data : poll[p].at < kickoff[e] + FullTime

\* A ticket that is due and can be graded on its event's score is graded in the end,
\* whatever other tickets its runs meet, unless it or its event goes (settlePending).
Gradable(t) ==
  /\ Due(t) /\ Stored(bilhete[t].event)
  /\ settleBilhete(sportEvent[bilhete[t].event].score, bilhete[t].pick) # "pending"
DueTicketsAreGraded == \A t \in Tickets : Gradable(t) ~> ~Gradable(t)

\* "We freeze the last seen score": the score captured for a ticket that still waits
\* for its result is kept until then.  sync's pruning does not (prunePastEvents).
Waiting(t) == Exists(t) /\ bilhete[t].published /\ bilhete[t].resultado = "pending"
CapturedScoreIsKept ==
  [][\A t \in Tickets, e \in Events :
       Waiting(t) /\ bilhete[t].event = e /\ Stored(e)
         => Stored(e)' \/ ~Waiting(t)']_settlementVars

===============================================================================
