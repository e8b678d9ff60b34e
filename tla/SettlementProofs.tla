--------------------------- MODULE SettlementProofs ---------------------------
(***************************************************************************)
(* Why verdicts and stored scores stay in agreement, for any tickets,      *)
(* events, kickoffs and numbers of overlapping runs.                       *)
(*                                                                         *)
(* The argument is one of time.  A kickoff moves only before the match     *)
(* begins, and then only to a time still to come (Moves).  A list of live  *)
(* matches is at most one tick older than its use (LiveList, Recent), so   *)
(* no poll writes the score of a match whose window is over, counted from  *)
(* its kickoff (Steady), and no generation rewrites a ticket on it         *)
(* (HandsOff).  A ticket sold for its match's kickoff or a later one is    *)
(* read only after that window, so what a grading run read of it is still  *)
(* true when it writes; only an admin's hand can come in between, which    *)
(* byHand records.                                                         *)
(***************************************************************************)
EXTENDS Settlement, TLAPS

Recent(at) == at \in Nat /\ at <= now /\ now <= at + 1
Past(e) == kickoff[e] + MatchWindow < now

\* The kickoff of a match that was never put off does not go beyond a time it was read at.
Heeded(event, startsAt) == event \in postponed \/ kickoff[event] <= startsAt

\* A match on a live list has begun, and was not over when the list was asked for.
LiveList(at, data) ==
  \A e \in DOMAIN data : /\ e \in Events /\ data[e] \in Scores
                         /\ kickoff[e] <= now /\ at < kickoff[e] + FullTime

PollInv ==
  /\ DOMAIN poll = Pollers
  /\ \A p \in Pollers :
       /\ poll[p].pc \in {"idle", "ask", "answer", "write"}
       /\ poll[p].pc # "idle" => Recent(poll[p].at)
       /\ poll[p].pc \in {"answer", "write"} => LiveList(poll[p].at, poll[p].data)

CacheInv ==
  liveCache # NoRow => liveCache.at \in Nat /\ LiveList(liveCache.at, liveCache.data)

WorldInv ==
  /\ now \in Nat
  /\ kickoff \in [Events -> Times] /\ postponed \subseteq Events
  /\ score \in [Events -> Scores]

\* A score is of a match that has begun.
RowInv ==
  /\ sportEvent \in [Events -> EventRow \cup {NoRow}]
  /\ \A e \in Events : Stored(e) => kickoff[e] <= now

\* What a ticket's row holds as long as no admin writes it: a single is on the fixture of
\* its id, a multiple has no market.
Made(t, row) ==
  IF t \in Multiples THEN row.pick = ByAdmin(Scorelines)
  ELSE t \in Generated => row.event = FixtureOf[t] /\ Heeded(row.event, row.startsAt)

TicketInv ==
  /\ bilhete \in [Tickets -> Ticket \cup {NoRow}]
  /\ \A t \in Tickets : Exists(t) /\ t \notin byHand => Made(t, bilhete[t])

\* What a generation is about to make a ticket for was not over when it began.
Slots(at, todo) ==
  \A t \in DOMAIN todo :
    /\ t \in Generated /\ todo[t].event \in Events /\ todo[t].startsAt \in Times
    /\ at < kickoff[todo[t].event] + FullTime
    /\ t \notin Multiples =>
         todo[t].event = FixtureOf[t] /\ Heeded(todo[t].event, todo[t].startsAt)

SyncInv ==
  /\ DOMAIN sync = Syncs
  /\ \A y \in Syncs :
       /\ sync[y].pc \in {"idle", "upsert", "select", "tickets"}
       /\ sync[y].pc # "idle" => Recent(sync[y].at)
       /\ sync[y].pc = "upsert" =>
            \A e \in DOMAIN sync[y].todo : e \in Events /\ sync[y].todo[e] \in Times
       /\ sync[y].pc = "tickets" => Slots(sync[y].at, sync[y].todo)

\* What a grading run read of a ticket sold in time is still so, unless an admin has been at it.
StillSo(t, read) ==
  /\ Exists(t) /\ Made(t, read)
  /\ t \notin Multiples =>
       /\ bilhete[t].event = read.event
       /\ t \notin Generated \/ OnTime(read.event, read.startsAt) =>
            bilhete[t].pick = read.pick /\ bilhete[t].startsAt = read.startsAt

InHand(at, todo) ==
  \A t \in DOMAIN todo :
    /\ t \in Tickets /\ todo[t] \in Ticket /\ todo[t].startsAt + MatchWindow < at
    /\ t \notin byHand => StillSo(t, todo[t])

\* A score that was read is of a match that had begun, and the row's if its window was over.
ReadTrue(at, byExt) ==
  \A e \in DOMAIN byExt :
    /\ e \in Events /\ kickoff[e] <= now
    /\ kickoff[e] + MatchWindow < at => (Stored(e) => sportEvent[e].score = byExt[e])

GradeInv ==
  /\ DOMAIN grade = Graders
  /\ \A g \in Graders :
       /\ grade[g].pc \in {"idle", "scores", "loop"}
       /\ grade[g].pc # "idle" => Recent(grade[g].at) /\ grade[g].ids \subseteq Events
                                  /\ InHand(grade[g].at, grade[g].todo)
       /\ grade[g].pc = "loop" => ReadTrue(grade[g].at, grade[g].byExt)

Agrees(t) ==
  /\ t \notin Multiples
  /\ kickoff[bilhete[t].event] <= now
  /\ OnTime(bilhete[t].event, bilhete[t].startsAt) =>
       /\ Past(bilhete[t].event)
       /\ Stored(bilhete[t].event) => bilhete[t].resultado =
            settleBilhete(sportEvent[bilhete[t].event].score, bilhete[t].pick)

VerdictInv ==
  \A t \in Tickets :
    Exists(t) /\ t \notin byHand /\ bilhete[t].resultado # "pending" => Agrees(t)

SettlementInv ==
  /\ PollInv /\ CacheInv /\ WorldInv /\ RowInv
  /\ TicketInv /\ SyncInv /\ GradeInv /\ VerdictInv

------------------------------------------------------------------------------
\* The steps by who takes them.
PollStep(p) == captureLiveScores(p) \/ PollFails(p)
GradeStep(g) == settlePending(g) \/ GradeFails(g)
SyncStep(y) == generateDaily(y) \/ SyncFails(y)
Turn == \/ Tick
        \/ \E e \in Events, at \in Times : Reschedule(e, at)
        \/ \E e \in Events, side \in {"home", "away"} : Goal(e, side)

\* Time goes forward; a kickoff that has passed stays, another moves to one to come, and
\* beyond what it was only if the match is put off.
Moves ==
  /\ now \in Nat /\ now' \in Nat /\ now <= now'
  /\ kickoff \in [Events -> Nat] /\ kickoff' \in [Events -> Nat]
  /\ postponed \subseteq postponed'
  /\ \A e \in Events :
       \/ kickoff'[e] = kickoff[e]
       \/ /\ now < kickoff[e] /\ now < kickoff'[e]
          /\ e \in postponed' \/ kickoff'[e] <= kickoff[e]

\* A match whose window is over keeps its score, and gets none.
Steady ==
  \A e \in Events : Past(e) /\ sportEvent'[e] # NoRow =>
    sportEvent'[e].score = IF sportEvent[e] = NoRow THEN NoScore ELSE sportEvent[e].score

\* Unless an admin has been at it a single keeps its match, and once the window of that is
\* over its pick and kickoff too.
HandsOff ==
  /\ byHand \subseteq byHand'
  /\ \A t \in Tickets : Exists(t) /\ t \notin byHand' =>
       /\ bilhete'[t] # NoRow
       /\ t \notin Multiples =>
            /\ bilhete'[t].event = bilhete[t].event
            /\ t \notin Generated \/ Past(bilhete[t].event) =>
                 bilhete'[t].pick = bilhete[t].pick /\ bilhete'[t].startsAt = bilhete[t].startsAt

\* The steps, sorted by what they can change.
LEMMA StepCases ==
  ASSUME [SettlementNext]_settlementVars
  PROVE  \/ UNCHANGED settlementVars
         \/ Turn
         \/ \E p \in Pollers : PollStep(p)
         \/ \E g \in Graders : GradeStep(g)
         \/ \E y \in Syncs : SyncStep(y)
         \/ \E t \in Tickets : Admin(t)
  BY DEF SettlementNext, World, Failing, PollStep, GradeStep, SyncStep, Turn

\* settleBilhete gives a result or leaves the ticket pending, whatever the label.
LEMMA Outcomes ==
  ASSUME NEW s, NEW b
  PROVE  settleBilhete(s, b) \in {"pending", "green", "red"}
<1>1. ASSUME NEW won PROVE hit(won) \in {"green", "red"}
  BY Zenon DEF hit
<1>2. ASSUME NEW total, NEW line, NEW sel
      PROVE overUnder(total, line, sel) \in {"pending", "green", "red"}
  <2>1. overUnder(total, line, sel)
          \in {"pending", hit(IF "mais" \in sel THEN total > line ELSE total < line)}
    BY Zenon DEF overUnder
  <2> QED
    BY <1>1, <2>1
<1>3. CASE b.mercado = "1x2"
  BY <1>1, <1>3, Zenon DEF settleBilhete
<1>4. CASE b.mercado = "over_under"
  BY <1>2, <1>4, Zenon DEF settleBilhete
<1>5. CASE b.mercado = "btts"
  BY <1>1, <1>5, Zenon DEF settleBilhete
<1> QED
  BY <1>1, <1>2, <1>3, <1>4, <1>5, Zenon DEF settleBilhete

\* A ticket without a market is never graded.
LEMMA LeftToAdmin ==
  ASSUME NEW s, NEW S
  PROVE  settleBilhete(s, ByAdmin(S)) = "pending"
<1>1. ByAdmin(S).mercado = "correct_score"
  BY DEF ByAdmin, Offer
<1> QED
  BY <1>1 DEF settleBilhete

\* One column of a ticket rewritten.
LEMMA PublishEdit ==
  ASSUME NEW r \in Ticket, NEW pub \in BOOLEAN
  PROVE  /\ [r EXCEPT !.published = pub] \in Ticket
         /\ [r EXCEPT !.published = pub] # NoRow
         /\ [r EXCEPT !.published = pub].event = r.event
         /\ [r EXCEPT !.published = pub].pick = r.pick
         /\ [r EXCEPT !.published = pub].startsAt = r.startsAt
         /\ [r EXCEPT !.published = pub].resultado = r.resultado
  BY SettlementAssumption DEF Ticket

\* What each group of steps leaves alone.
LEMMA TurnFrame ==
  ASSUME Turn
  PROVE  UNCHANGED <<sportEvent, bilhete, poll, grade, sync, byHand>>
  BY DEF Turn, Tick, Reschedule, Goal

LEMMA PollFrame ==
  ASSUME NEW p \in Pollers, PollStep(p)
  PROVE  UNCHANGED <<now, kickoff, postponed, score, bilhete, grade, sync, byHand>>
  BY DEF PollStep, captureLiveScores, AskProvider, ServeCached, ProviderAnswers,
         CacheAnswer, CaptureScore, PollFails, PollStays, world

LEMMA GradeFrame ==
  ASSUME NEW g \in Graders, GradeStep(g)
  PROVE  UNCHANGED <<now, kickoff, postponed, score, liveCache, poll, sync, byHand>>
  BY DEF GradeStep, settlePending, ReadPending, ReadScores, Skip, SetOutcome,
         MarkFinished, GradeFails, GradeStays, world

LEMMA SyncFrame ==
  ASSUME NEW y \in Syncs, SyncStep(y)
  PROVE  UNCHANGED <<now, kickoff, postponed, score, liveCache, poll, grade, byHand>>
  BY DEF SyncStep, generateDaily, FetchUpcoming, upsertEvent, prunePastEvents,
         SelectPicks, upsertTicket, EndDaily, SyncFails, SyncStays, world

LEMMA AdminFrame ==
  ASSUME NEW t \in Tickets, Admin(t)
  PROVE  UNCHANGED <<now, kickoff, postponed, score, sportEvent, liveCache, poll, grade, sync>>
  BY DEF Admin, create, update, setResult, setPublished, remove, Edit, AdminStays, world

\* The world's own variables, and how they move.
LEMMA WorldMoves ==
  ASSUME WorldInv, [SettlementNext]_settlementVars
  PROVE  WorldInv' /\ Moves
<1> USE SettlementAssumption
<1>0. now \in Nat /\ kickoff \in [Events -> Times] /\ kickoff \in [Events -> Nat]
  BY DEF WorldInv
<1>1. CASE UNCHANGED <<now, kickoff, postponed, score>>
  BY <1>0, <1>1 DEF WorldInv, Moves
<1>2. CASE Tick
  BY <1>0, <1>2 DEF Tick, WorldInv, Moves
<1>3. ASSUME NEW e \in Events, NEW at \in Times, Reschedule(e, at) PROVE WorldInv' /\ Moves
  <2>1. /\ now' = now /\ score' = score
        /\ kickoff' = [kickoff EXCEPT ![e] = at] /\ now < kickoff[e] /\ now < at
        /\ postponed' = IF kickoff[e] < at THEN postponed \cup {e} ELSE postponed
    BY <1>3 DEF Reschedule
  <2>2. kickoff' \in [Events -> Times] /\ kickoff' \in [Events -> Nat] /\ at \in Nat
    BY <1>0, <2>1
  <2>3. WorldInv'
    BY <2>1, <2>2 DEF WorldInv
  <2>4. Moves
    BY <1>0, <2>1, <2>2 DEF Moves
  <2> QED
    BY <2>3, <2>4
<1>4. ASSUME NEW e \in Events, NEW side \in {"home", "away"}, Goal(e, side)
      PROVE  WorldInv' /\ Moves
  <2>1. score[e] \in Scores /\ score[e].home + score[e].away < MaxGoals
    BY <1>4 DEF WorldInv, Goal
  <2>2. /\ score[e] = [home |-> score[e].home, away |-> score[e].away]
        /\ score[e].home \in 0..MaxGoals /\ score[e].away \in 0..MaxGoals
    BY <2>1 DEF Scores
  <2>3. [score[e] EXCEPT ![side] = @ + 1] \in Scores
    <3>1. CASE side = "home"
      <4>1. [score[e] EXCEPT ![side] = @ + 1]
              = [home |-> score[e].home + 1, away |-> score[e].away]
        BY <2>2, <3>1
      <4> QED
        BY <2>1, <2>2, <4>1 DEF Scores
    <3>2. CASE side = "away"
      <4>1. [score[e] EXCEPT ![side] = @ + 1]
              = [home |-> score[e].home, away |-> score[e].away + 1]
        BY <2>2, <3>2
      <4> QED
        BY <2>1, <2>2, <4>1 DEF Scores
    <3> QED
      BY <3>1, <3>2
  <2>4. score' = [score EXCEPT ![e] = [score[e] EXCEPT ![side] = @ + 1]]
    BY <1>4 DEF Goal
  <2>5. UNCHANGED <<now, kickoff, postponed>>
    BY <1>4 DEF Goal
  <2>6. score' \in [Events -> Scores]
    <3> HIDE DEF Scores
    <3> QED
      BY <2>3, <2>4 DEF WorldInv
  <2> QED
    BY <1>0, <2>5, <2>6 DEF WorldInv, Moves
<1> QED
  BY <1>1, <1>2, <1>3, <1>4, StepCases, PollFrame, GradeFrame, SyncFrame, AdminFrame
     DEF Turn, settlementVars, world

\* What was so of a kickoff is still so.
LEMMA MovesKeep ==
  ASSUME Moves, WorldInv
  PROVE  /\ \A e \in Events : Past(e) => Past(e)'
         /\ \A e \in Events, s \in Nat : Heeded(e, s) => Heeded(e, s)'
         /\ \A e \in Events, s \in Nat : OnTime(e, s)' /\ s <= now =>
              OnTime(e, s) /\ kickoff'[e] = kickoff[e]
         /\ \A e \in Events : kickoff[e] <= now => kickoff'[e] = kickoff[e] /\ kickoff'[e] <= now'
<1> USE SettlementAssumption
<1>1. \A e \in Events : Past(e) => Past(e)'
  BY DEF Moves, Past
<1>2. \A e \in Events, s \in Nat : Heeded(e, s) => Heeded(e, s)'
  BY DEF Moves, Heeded
<1>3. \A e \in Events, s \in Nat : OnTime(e, s)' /\ s <= now =>
        OnTime(e, s) /\ kickoff'[e] = kickoff[e]
  BY DEF Moves, OnTime
<1> QED
  BY <1>1, <1>2, <1>3 DEF Moves

------------------------------------------------------------------------------
\* No step moves the score of a match whose window is over, or gives it one.
LEMMA RowsAreSteady ==
  ASSUME SettlementInv, [SettlementNext]_settlementVars
  PROVE  Steady
<1> USE SettlementAssumption
<1>1. SUFFICES ASSUME NEW e \in Events, Past(e), sportEvent'[e] # sportEvent[e],
                      sportEvent'[e] # NoRow
               PROVE  sportEvent'[e].score =
                        IF sportEvent[e] = NoRow THEN NoScore ELSE sportEvent[e].score
  BY DEF Steady
<1>0. DOMAIN sportEvent = Events /\ now \in Nat /\ kickoff \in [Events -> Nat]
  BY DEF SettlementInv, RowInv, WorldInv
<1>2. ASSUME NEW p \in Pollers, PollStep(p) PROVE FALSE
  <2>1. PICK f \in Events : CaptureScore(p, f)
    BY <1>1, <1>2 DEF PollStep, captureLiveScores, AskProvider, ServeCached,
       ProviderAnswers, CacheAnswer, PollFails
  <2>2. Recent(poll[p].at) /\ poll[p].at < kickoff[f] + FullTime
    BY <2>1 DEF CaptureScore, SettlementInv, PollInv, LiveList
  <2>3. ~Past(f)
    BY <1>0, <2>2 DEF Recent, Past
  <2> QED
    BY <1>0, <1>1, <2>1, <2>3 DEF CaptureScore
<1>3. ASSUME NEW g \in Graders, GradeStep(g)
      PROVE sportEvent[e] # NoRow /\ sportEvent'[e].score = sportEvent[e].score
  <2>1. MarkFinished(g)
    BY <1>1, <1>3 DEF GradeStep, settlePending, ReadPending, ReadScores, Skip, SetOutcome,
       GradeFails
  <2> QED
    BY <1>1, <2>1 DEF MarkFinished, Row
<1>4. ASSUME NEW y \in Syncs, SyncStep(y)
      PROVE  sportEvent'[e].score =
               IF sportEvent[e] = NoRow THEN NoScore ELSE sportEvent[e].score
  <2>1. ~prunePastEvents(y)
    BY <1>1 DEF prunePastEvents
  <2>2. PICK f \in Events : upsertEvent(y, f)
    BY <1>1, <1>4, <2>1 DEF SyncStep, generateDaily, FetchUpcoming, SelectPicks,
       upsertTicket, EndDaily, SyncFails
  <2> QED
    BY <1>0, <1>1, <2>2 DEF upsertEvent, Row
<1>5. ASSUME NEW t \in Tickets, Admin(t) PROVE FALSE
  BY <1>1, <1>5, AdminFrame
<1>6. CASE UNCHANGED settlementVars \/ Turn
  BY <1>1, <1>6, TurnFrame DEF settlementVars
<1> QED
  BY <1>2, <1>3, <1>4, <1>5, <1>6, StepCases

\* No step but an admin's changes a ticket on a match whose window is over.
LEMMA HandsAreOff ==
  ASSUME SettlementInv, [SettlementNext]_settlementVars
  PROVE  HandsOff
<1> USE SettlementAssumption
<1>1. DOMAIN bilhete = Tickets /\ \A t \in Tickets : Exists(t) => bilhete[t] \in Ticket
  BY DEF SettlementInv, TicketInv, Exists
<1>0. now \in Nat /\ kickoff \in [Events -> Nat]
  BY DEF SettlementInv, WorldInv
<1>2. CASE UNCHANGED <<bilhete, byHand>>
  BY <1>2 DEF HandsOff, Exists
\* A step that rewrites columns a ticket is not graded by.
<1>3. ASSUME NEW u \in Tickets, NEW row, Exists(u), bilhete' = [bilhete EXCEPT ![u] = row],
             byHand' = byHand, row # NoRow, row.event = bilhete[u].event,
             row.pick = bilhete[u].pick, row.startsAt = bilhete[u].startsAt
      PROVE  HandsOff
  BY <1>1, <1>3 DEF HandsOff, Exists
<1>4. ASSUME NEW g \in Graders, GradeStep(g) PROVE HandsOff
  <2>1. byHand' = byHand
    BY <1>4, GradeFrame
  <2>2. ASSUME NEW u \in Tickets, SetOutcome(g, u), bilhete' # bilhete PROVE HandsOff
    <3>1. Exists(u) /\ bilhete[u] \in Ticket
      BY <1>1, <2>2 DEF SetOutcome
    <3>2. OutcomeOf(g, u) \in {"pending", "green", "red"}
      BY Outcomes DEF OutcomeOf
    <3> PICK res \in {"pending", "green", "red"} : res = OutcomeOf(g, u)
      BY <3>2
    <3> DEFINE row == [bilhete[u] EXCEPT !.resultado = res]
    <3>3. bilhete' = [bilhete EXCEPT ![u] = row]
      BY <3>1, <2>2 DEF SetOutcome
    <3>4. /\ row # NoRow /\ row.event = bilhete[u].event
          /\ row.pick = bilhete[u].pick /\ row.startsAt = bilhete[u].startsAt
      BY <3>1 DEF Ticket
    <3> HIDE DEF row
    <3> QED
      BY <1>3, <2>1, <3>1, <3>3, <3>4
  <2> QED
    BY <1>2, <1>4, <2>1, <2>2 DEF GradeStep, settlePending, ReadPending, ReadScores, Skip,
       MarkFinished, GradeFails
<1>5. ASSUME NEW y \in Syncs, SyncStep(y) PROVE HandsOff
  <2>1. byHand' = byHand
    BY <1>5, SyncFrame
  <2>2. ASSUME NEW u \in Generated, NEW pick \in Picks, upsertTicket(y, u, pick)
        PROVE HandsOff
    <3> DEFINE s == sync[y].todo[u]
               row == Slip(s.event, s.startsAt, pick, TRUE,
                           IF Exists(u) THEN bilhete[u].resultado ELSE "pending")
    <3>1. u \in Tickets /\ Recent(sync[y].at) /\ s.event \in Events /\ s.startsAt \in Times
          /\ sync[y].at < kickoff[s.event] + FullTime
          /\ (u \notin Multiples => s.event = FixtureOf[u])
      BY <2>2 DEF upsertTicket, SettlementInv, SyncInv, Slots
    <3>2. ~Past(s.event)
      BY <1>0, <3>1 DEF Recent, Past
    <3>3. bilhete' = [bilhete EXCEPT ![u] = row]
      BY <2>2 DEF upsertTicket
    <3>4. row # NoRow /\ row.event = s.event
      <4>1. Exists(u) => bilhete[u].resultado \in {"pending", "green", "red"}
        BY <1>1, <3>1 DEF Ticket
      <4>2. row \in Ticket
        BY <3>1, <4>1 DEF Slip, Ticket
      <4> QED
        BY <4>2 DEF Slip
    <3>5. Exists(u) /\ u \notin byHand /\ u \notin Multiples => bilhete[u].event = FixtureOf[u]
      BY <3>1 DEF SettlementInv, TicketInv, Made
    <3> HIDE DEF row, s
    <3> QED
      BY <1>1, <2>1, <3>1, <3>2, <3>3, <3>4, <3>5 DEF HandsOff, Exists
  <2> QED
    BY <1>2, <1>5, <2>1, <2>2 DEF SyncStep, generateDaily, FetchUpcoming, upsertEvent,
       prunePastEvents, SelectPicks, EndDaily, SyncFails
<1>6. ASSUME NEW t \in Tickets, Admin(t) PROVE HandsOff
  <2>1. ASSUME NEW row \in Ticket, create(t, row) PROVE HandsOff
    BY <1>1, <2>1 DEF create, HandsOff, Exists
  <2>2. ASSUME NEW row, Edit(t, row, {t}) PROVE HandsOff
    BY <1>1, <2>2 DEF Edit, HandsOff, Exists
  <2>3. ASSUME NEW published \in BOOLEAN, setPublished(t, published) PROVE HandsOff
    <3>1. Exists(t) /\ bilhete[t] \in Ticket
      BY <1>1, <2>3 DEF setPublished, Edit
    <3> DEFINE row == [bilhete[t] EXCEPT !.published = published]
    <3>2. byHand' = byHand /\ bilhete' = [bilhete EXCEPT ![t] = row]
      BY <2>3 DEF setPublished, Edit
    <3>3. /\ row # NoRow /\ row.event = bilhete[t].event
          /\ row.pick = bilhete[t].pick /\ row.startsAt = bilhete[t].startsAt
      BY <3>1, PublishEdit
    <3> HIDE DEF row
    <3> QED
      BY <1>3, <3>1, <3>2, <3>3
  <2> QED
    BY <1>6, <2>1, <2>2, <2>3 DEF Admin, update, setResult, remove
<1>7. CASE UNCHANGED settlementVars \/ Turn
  BY <1>2, <1>7, TurnFrame DEF settlementVars
<1>8. ASSUME NEW p \in Pollers, PollStep(p) PROVE HandsOff
  BY <1>2, <1>8, PollFrame
<1> QED
  BY <1>4, <1>5, <1>6, <1>7, <1>8, StepCases

------------------------------------------------------------------------------
\* A list stays recent enough: the clock waits for the runs of the tick before.
LEMMA PollKept ==
  ASSUME SettlementInv, [SettlementNext]_settlementVars
  PROVE  PollInv' /\ CacheInv'
<1> USE SettlementAssumption
<1>1. /\ now \in Nat /\ score \in [Events -> Scores] /\ Goalless \in Scores
      /\ PollInv /\ CacheInv
  BY DEF SettlementInv, WorldInv, Goalless, Scores
<1>0. \A e \in Events : kickoff[e] <= now => kickoff'[e] = kickoff[e] /\ kickoff'[e] <= now'
  BY WorldMoves, MovesKeep DEF SettlementInv
<1>2. CASE UNCHANGED <<now, poll, liveCache>>
  BY <1>0, <1>1, <1>2 DEF PollInv, CacheInv, Recent, LiveList
<1>3. CASE Tick
  <2>1. \A p \in Pollers : poll[p].pc # "idle" => poll[p].at = now
    BY <1>3 DEF Tick, Began
  <2> QED
    BY <1>0, <1>1, <1>3, <2>1 DEF Tick, PollInv, CacheInv, Recent, LiveList
<1>4. ASSUME NEW p \in Pollers, PollStep(p) PROVE PollInv' /\ CacheInv'
  <2>1. now' = now /\ kickoff' = kickoff
    BY <1>4, PollFrame
  <2>2. CASE ServeCached(p)
    <3>1. Recent(now) /\ LiveList(now, liveCache.data)
      BY <1>1, <2>2 DEF ServeCached, Fresh, CacheInv, Recent
    <3> QED
      BY <1>1, <2>1, <2>2, <3>1 DEF ServeCached, Writing, PollInv, CacheInv, Recent, LiveList
  <2>3. CASE AskProvider(p)
    BY <1>1, <2>1, <2>3 DEF AskProvider, Asking, PollInv, CacheInv, Recent, LiveList
  <2>4. ASSUME NEW blank \in SUBSET Events, ProviderAnswers(p, blank)
        PROVE  PollInv' /\ CacheInv'
    <3> DEFINE live == {e \in Events : InPlay(e)}
               data == [e \in live |-> IF e \in blank THEN Goalless ELSE score[e]]
    <3>1. /\ poll[p].pc = "ask" /\ liveCache' = liveCache
          /\ poll' = [poll EXCEPT ![p] = Answered(poll[p].at, data)]
      BY <2>4 DEF ProviderAnswers
    <3>2. Recent(poll[p].at)
      BY <1>1, <3>1 DEF PollInv
    <3>3. LiveList(poll[p].at, data)
      <4>1. \A e \in Events : kickoff[e] \in Nat
        BY DEF SettlementInv, WorldInv
      <4>2. \A e \in live : kickoff[e] <= now /\ poll[p].at < kickoff[e] + FullTime
        BY <1>1, <3>2, <4>1 DEF Recent, InPlay
      <4>3. \A e \in live : data[e] \in Scores
        BY <1>1
      <4> QED
        BY <4>2, <4>3 DEF LiveList
    <3> HIDE DEF data
    <3> QED
      BY <1>1, <2>1, <3>1, <3>2, <3>3 DEF Answered, PollInv, CacheInv, Recent, LiveList
  <2>5. ASSUME NEW writes \in BOOLEAN, CacheAnswer(p, writes)
        PROVE  PollInv' /\ CacheInv'
    BY <1>1, <2>1, <2>5 DEF CacheAnswer, Writing, Rest, PollInv, CacheInv, Recent, LiveList
  <2>6. ASSUME NEW e \in Events, CaptureScore(p, e) PROVE PollInv' /\ CacheInv'
    <3> DEFINE left == DOMAIN poll[p].data \ {e}
    <3>1. /\ poll[p].pc = "write" /\ liveCache' = liveCache
          /\ poll' = [poll EXCEPT ![p] =
               IF left = {} THEN Rest ELSE Writing(poll[p].at, Restrict(poll[p].data, left))]
      BY <2>6 DEF CaptureScore
    <3>2. Recent(poll[p].at) /\ LiveList(poll[p].at, Restrict(poll[p].data, left))
      BY <1>1, <3>1 DEF PollInv, LiveList, Restrict
    <3> HIDE DEF left
    <3> QED
      BY <1>1, <2>1, <3>1, <3>2 DEF Writing, Rest, PollInv, CacheInv, Recent, LiveList
  <2>7. CASE PollFails(p)
    BY <1>1, <2>1, <2>7 DEF PollFails, Rest, PollInv, CacheInv, Recent, LiveList
  <2> QED
    BY <1>4, <2>2, <2>3, <2>4, <2>5, <2>6, <2>7 DEF PollStep, captureLiveScores
<1>5. CASE UNCHANGED settlementVars
  BY <1>2, <1>5 DEF settlementVars, world
<1>6. CASE Turn
  BY <1>2, <1>3, <1>6 DEF Turn, Reschedule, Goal
<1>7. ASSUME NEW g \in Graders, GradeStep(g) PROVE PollInv' /\ CacheInv'
  BY <1>2, <1>7, GradeFrame
<1>8. ASSUME NEW y \in Syncs, SyncStep(y) PROVE PollInv' /\ CacheInv'
  BY <1>2, <1>8, SyncFrame
<1>9. ASSUME NEW t \in Tickets, Admin(t) PROVE PollInv' /\ CacheInv'
  BY <1>2, <1>9, AdminFrame
<1> QED
  BY <1>3, <1>4, <1>5, <1>6, <1>7, <1>8, <1>9, StepCases

\* A sync writes only kickoffs that occur; what a generation makes tickets for was not
\* over when it began.
LEMMA SyncKept ==
  ASSUME SettlementInv, [SettlementNext]_settlementVars
  PROVE  SyncInv'
<1> USE SettlementAssumption
<1>1. /\ now \in Nat /\ kickoff \in [Events -> Times] /\ kickoff \in [Events -> Nat]
      /\ SyncInv /\ Moves
  BY WorldMoves DEF SettlementInv, WorldInv
<1>0. \A at, todo : at \in Nat /\ at <= now /\ Slots(at, todo) => Slots(at, todo)'
  <2>1. \A e \in Events, s \in Times : Heeded(e, s) => Heeded(e, s)'
    BY WorldMoves, MovesKeep DEF SettlementInv
  <2>2. \A e \in Events, at \in Nat : at <= now /\ at < kickoff[e] + FullTime
                                       => at < kickoff'[e] + FullTime
    BY <1>1 DEF Moves
  <2> SUFFICES ASSUME NEW at \in Nat, NEW todo, at <= now, Slots(at, todo), NEW t \in DOMAIN todo
               PROVE  /\ at < kickoff'[todo[t].event] + FullTime
                      /\ t \notin Multiples => Heeded(todo[t].event, todo[t].startsAt)'
    BY DEF Slots, Heeded
  <2> QED
    BY <2>1, <2>2 DEF Slots
<1>2. CASE UNCHANGED <<now, sync>>
  <2> SUFFICES ASSUME NEW y \in Syncs, sync[y].pc = "tickets"
               PROVE  Slots(sync[y].at, sync[y].todo)'
    BY <1>1, <1>2 DEF SyncInv, Recent
  <2> PICK at, todo : at = sync[y].at /\ todo = sync[y].todo
    OBVIOUS
  <2>1. Slots(at, todo)'
    BY <1>0, <1>1 DEF SyncInv, Recent
  <2> QED
    BY <1>2, <2>1 DEF Slots, Heeded
<1>3. CASE Tick
  <2>1. \A y \in Syncs : sync[y].pc # "idle" => sync[y].at = now
    BY <1>3 DEF Tick, Began
  <2> QED
    BY <1>1, <1>3, <2>1 DEF Tick, SyncInv, Recent, Slots, Heeded
<1>4. ASSUME NEW y \in Syncs, SyncStep(y) PROVE SyncInv'
  <2>1. now' = now /\ kickoff' = kickoff /\ postponed' = postponed
    BY <1>4, SyncFrame
\* It is enough that the run's own record is sound.
  <2> DEFINE Sound(r) ==
        /\ r.pc \in {"idle", "upsert", "select", "tickets"}
        /\ r.pc # "idle" => Recent(r.at)
        /\ r.pc = "upsert" => \A e \in DOMAIN r.todo : e \in Events /\ r.todo[e] \in Times
        /\ r.pc = "tickets" => Slots(r.at, r.todo)
  <2>0. \A z \in Syncs : Sound(sync[z])
    BY <1>1 DEF SyncInv
  <2>8. ASSUME NEW r, Sound(r), sync' = [sync EXCEPT ![y] = r] PROVE SyncInv'
    <3>1. \A z \in Syncs : sync'[z] = IF z = y THEN r ELSE sync[z]
      BY <1>1, <2>8 DEF SyncInv
    <3>2. \A z \in Syncs : Sound(sync'[z])
      <4> HIDE DEF Sound
      <4> QED
        BY <2>0, <2>8, <3>1
    <3>3. DOMAIN sync' = Syncs
      BY <1>1, <2>8 DEF SyncInv
    <3> QED
      BY <2>1, <3>2, <3>3 DEF SyncInv, Recent, Slots, Heeded
  <2>2. ASSUME NEW daily \in BOOLEAN, FetchUpcoming(y, daily) PROVE SyncInv'
    <3> DEFINE todo == Restrict(kickoff, Upcoming)
               r == Upserting(now, daily, todo)
    <3>1. \A e \in DOMAIN todo : e \in Events /\ todo[e] \in Times
      BY <1>1 DEF Restrict, Upcoming
    <3>2. sync' = [sync EXCEPT ![y] = r]
      BY <2>2 DEF FetchUpcoming
    <3> HIDE DEF todo
    <3>3. Sound(r)
      BY <1>1, <3>1 DEF Upserting, Recent
    <3> HIDE DEF r, Sound
    <3> QED
      BY <2>8, <3>2, <3>3
  <2>3. ASSUME NEW e \in Events, upsertEvent(y, e) PROVE SyncInv'
    <3> DEFINE left == Restrict(sync[y].todo, DOMAIN sync[y].todo \ {e})
               r == Upserting(sync[y].at, sync[y].daily, left)
    <3>1. sync[y].pc = "upsert" /\ sync' = [sync EXCEPT ![y] = r]
      BY <2>3 DEF upsertEvent
    <3>2. \A f \in DOMAIN left : f \in Events /\ left[f] \in Times
      BY <2>0, <3>1 DEF Restrict
    <3> HIDE DEF left
    <3>3. Sound(r)
      BY <2>0, <3>1, <3>2 DEF Upserting
    <3> HIDE DEF r, Sound
    <3> QED
      BY <2>8, <3>1, <3>3
  <2>4. CASE prunePastEvents(y)
    <3>1. /\ sync[y].pc = "upsert"
          /\ \/ sync' = [sync EXCEPT ![y] = Selecting(sync[y].at)]
             \/ sync' = [sync EXCEPT ![y] = Rest]
      BY <2>4 DEF prunePastEvents
    <3>2. Sound(Selecting(sync[y].at)) /\ Sound(Rest)
      BY <2>0, <3>1 DEF Selecting, Rest
    <3> HIDE DEF Sound
    <3> QED
      BY <2>8, <3>1, <3>2
  <2>5. ASSUME NEW chosen \in SUBSET Generated, SelectPicks(y, chosen) PROVE SyncInv'
    <3>1. PICK slot \in [chosen -> UNION {SlotsOf(t) : t \in chosen}] :
            /\ \A t \in chosen : slot[t] \in SlotsOf(t)
            /\ sync' = [sync EXCEPT ![y] = Ticketing(sync[y].at, slot)]
      BY <2>5 DEF SelectPicks
    <3>2. sync[y].pc = "select" /\ Recent(sync[y].at)
      BY <2>0, <2>5 DEF SelectPicks
    <3>3. \A e \in Offered : e \in Events /\ sync[y].at < kickoff[e] + FullTime
      BY <1>1, <3>2 DEF Offered, Recent
    <3>4. ASSUME NEW t \in chosen
          PROVE  /\ slot[t].event \in Offered /\ slot[t].startsAt \in Times
                 /\ t \notin Multiples => slot[t].event = FixtureOf[t]
                                          /\ kickoff[slot[t].event] <= slot[t].startsAt
      <4>1. slot[t] \in SlotsOf(t)
        BY <3>1
      <4>2. CASE t \in Multiples
        <5>1. PICK l \in Offered \X Offered :
                slot[t] = [event |-> l[1], startsAt |-> kickoff[l[2]]]
          BY <4>1, <4>2 DEF SlotsOf
        <5> QED
          BY <1>1, <3>3, <4>2, <5>1
      <4>3. CASE t \notin Multiples
        <5>1. PICK e \in Offered \cap {FixtureOf[t]} :
                slot[t] = [event |-> e, startsAt |-> kickoff[e]]
          BY <4>1, <4>3 DEF SlotsOf
        <5> QED
          BY <1>1, <3>3, <5>1
      <4> QED
        BY <4>2, <4>3
    <3>5. Slots(sync[y].at, slot)
      BY <3>3, <3>4 DEF Slots, Heeded
    <3>6. Sound(Ticketing(sync[y].at, slot))
      BY <3>2, <3>5 DEF Ticketing
    <3> HIDE DEF Sound
    <3> QED
      BY <2>8, <3>1, <3>6
  <2>6. ASSUME NEW t \in Generated, NEW pick \in Picks, upsertTicket(y, t, pick)
        PROVE  SyncInv'
    <3> DEFINE left == Restrict(sync[y].todo, DOMAIN sync[y].todo \ {t})
               r == Ticketing(sync[y].at, left)
    <3>1. sync[y].pc = "tickets" /\ sync' = [sync EXCEPT ![y] = r]
      BY <2>6 DEF upsertTicket
    <3>2. Slots(sync[y].at, left)
      BY <2>0, <3>1 DEF Slots, Restrict
    <3> HIDE DEF left
    <3>3. Sound(r)
      BY <2>0, <3>1, <3>2 DEF Ticketing
    <3> HIDE DEF r, Sound
    <3> QED
      BY <2>8, <3>1, <3>3
  <2>7. CASE EndDaily(y) \/ SyncFails(y)
    <3>1. Sound(Rest)
      BY DEF Rest
    <3> HIDE DEF Sound
    <3> QED
      BY <2>7, <2>8, <3>1 DEF EndDaily, SyncFails
  <2> QED
    BY <1>4, <2>2, <2>3, <2>4, <2>5, <2>6, <2>7 DEF SyncStep, generateDaily
<1>5. CASE UNCHANGED settlementVars
  BY <1>2, <1>5 DEF settlementVars, world
<1>6. CASE Turn
  BY <1>2, <1>3, <1>6 DEF Turn, Reschedule, Goal
<1>7. ASSUME NEW p \in Pollers, PollStep(p) PROVE SyncInv'
  BY <1>2, <1>7, PollFrame
<1>8. ASSUME NEW g \in Graders, GradeStep(g) PROVE SyncInv'
  BY <1>2, <1>8, GradeFrame
<1>9. ASSUME NEW t \in Tickets, Admin(t) PROVE SyncInv'
  BY <1>2, <1>9, AdminFrame
<1> QED
  BY <1>4, <1>5, <1>6, <1>7, <1>8, <1>9, StepCases

\* Rows keep their type, and a score comes only once the match has begun.
LEMMA RowKept ==
  ASSUME SettlementInv, [SettlementNext]_settlementVars
  PROVE  RowInv'
<1> USE SettlementAssumption
<1>1. RowInv /\ PollInv /\ SyncInv
  BY DEF SettlementInv
<1>0. \A e \in Events : kickoff[e] <= now => kickoff'[e] = kickoff[e] /\ kickoff'[e] <= now'
  BY WorldMoves, MovesKeep DEF SettlementInv
<1>2. CASE UNCHANGED sportEvent
  BY <1>0, <1>1, <1>2 DEF RowInv, Stored
\* A step that rewrites rows by rows of the type, with a score only where the match has begun.
<1>3. ASSUME DOMAIN sportEvent' = Events,
             \A e \in Events :
               \/ sportEvent'[e] = NoRow
               \/ /\ sportEvent'[e] \in EventRow
                  /\ \/ sportEvent'[e].score = NoScore
                     \/ Stored(e) \/ kickoff[e] <= now,
             sportEvent' = [e \in Events |-> sportEvent'[e]]
      PROVE  RowInv'
  <2>1. sportEvent' \in [Events -> EventRow \cup {NoRow}]
    BY <1>3
  <2>2. \A e \in Events : Stored(e)' => kickoff[e] <= now
    BY <1>1, <1>3 DEF RowInv, Stored
  <2> QED
    BY <1>0, <2>1, <2>2 DEF RowInv
<1>5. ASSUME NEW p \in Pollers, PollStep(p) PROVE RowInv'
  <2>1. ASSUME NEW e \in Events, CaptureScore(p, e), sportEvent' # sportEvent PROVE RowInv'
    <3> DEFINE row == Row(poll[p].data[e], sportEvent[e].startsAt, sportEvent[e].finished)
    <3>1. /\ sportEvent[e] # NoRow /\ sportEvent[e] \in EventRow
          /\ sportEvent' = [sportEvent EXCEPT ![e] = row]
      BY <1>1, <2>1 DEF CaptureScore, RowInv
    <3>2. poll[p].data[e] \in Scores /\ kickoff[e] <= now
      BY <1>1, <2>1 DEF CaptureScore, PollInv, LiveList
    <3>3. row \in EventRow
      BY <3>1, <3>2 DEF Row, EventRow
    <3> HIDE DEF row
    <3> QED
      BY <1>1, <1>3, <3>1, <3>2, <3>3 DEF RowInv, Stored
  <2> QED
    BY <1>2, <1>5, <2>1 DEF PollStep, captureLiveScores, AskProvider, ServeCached,
       ProviderAnswers, CacheAnswer, PollFails
<1>6. ASSUME NEW g \in Graders, GradeStep(g) PROVE RowInv'
  <2>1. CASE MarkFinished(g)
    <3>1. \A e \in Events : sportEvent[e] # NoRow =>
            /\ Row(sportEvent[e].score, sportEvent[e].startsAt, TRUE) \in EventRow
            /\ Row(sportEvent[e].score, sportEvent[e].startsAt, TRUE).score = sportEvent[e].score
      BY <1>1 DEF RowInv, Row, EventRow
    <3>2. sportEvent' = [e \in Events |->
            IF grade[g].settled /\ e \in grade[g].ids /\ sportEvent[e] # NoRow
            THEN Row(sportEvent[e].score, sportEvent[e].startsAt, TRUE) ELSE sportEvent[e]]
      BY <2>1 DEF MarkFinished
    <3> QED
      BY <1>1, <1>3, <3>1, <3>2 DEF RowInv, Stored
  <2> QED
    BY <1>2, <1>6, <2>1 DEF GradeStep, settlePending, ReadPending, ReadScores, Skip,
       SetOutcome, GradeFails
<1>7. ASSUME NEW y \in Syncs, SyncStep(y) PROVE RowInv'
  <2>1. ASSUME NEW e \in Events, upsertEvent(y, e) PROVE RowInv'
    <3> DEFINE row == IF sportEvent[e] = NoRow THEN Row(NoScore, sync[y].todo[e], FALSE)
                      ELSE Row(sportEvent[e].score, sync[y].todo[e], sportEvent[e].finished)
    <3>1. sportEvent' = [sportEvent EXCEPT ![e] = row]
      BY <1>1, <2>1 DEF upsertEvent, RowInv
    <3>2. sync[y].todo[e] \in Times
      BY <1>1, <2>1 DEF upsertEvent, SyncInv
    <3>3. row \in EventRow
      BY <1>1, <3>2 DEF RowInv, Row, EventRow
    <3>4. row.score = IF sportEvent[e] = NoRow THEN NoScore ELSE sportEvent[e].score
      BY DEF Row
    <3> HIDE DEF row
    <3> QED
      BY <1>1, <1>3, <3>1, <3>3, <3>4 DEF RowInv, Stored
  <2>2. CASE prunePastEvents(y)
    BY <1>1, <1>3, <2>2 DEF prunePastEvents, RowInv, Stored
  <2> QED
    BY <1>2, <1>7, <2>1, <2>2 DEF SyncStep, generateDaily, FetchUpcoming, SelectPicks,
       upsertTicket, EndDaily, SyncFails
<1>8. ASSUME NEW t \in Tickets, Admin(t) PROVE RowInv'
  BY <1>2, <1>8, AdminFrame
<1>9. CASE UNCHANGED settlementVars \/ Turn
  BY <1>2, <1>9, TurnFrame DEF settlementVars
<1> QED
  BY <1>5, <1>6, <1>7, <1>8, <1>9, StepCases

\* Tickets keep their type: the engine's answers are all values of the column; and the
\* generator makes a ticket for the fixture of its id, at a kickoff it has just read.
LEMMA TicketKept ==
  ASSUME SettlementInv, [SettlementNext]_settlementVars
  PROVE  TicketInv'
<1> USE SettlementAssumption
<1>1. TicketInv /\ SyncInv /\ HandsOff
      /\ \A t \in Tickets : Exists(t) => bilhete[t] \in Ticket
  BY HandsAreOff DEF SettlementInv, TicketInv, Exists
<1>0. \A t \in Tickets, row \in Ticket : Made(t, row) => Made(t, row)'
  <2>1. \A e \in Events, s \in Times : Heeded(e, s) => Heeded(e, s)'
    BY WorldMoves, MovesKeep DEF SettlementInv
  <2>2. \A row \in Ticket : row.event \in Events /\ row.startsAt \in Times
    BY DEF Ticket
  <2> QED
    BY <2>1, <2>2 DEF Made, Heeded
<1>2. CASE UNCHANGED <<bilhete, byHand>>
  BY <1>0, <1>1, <1>2 DEF TicketInv, Exists
<1>3. ASSUME NEW t \in Tickets, NEW row \in Ticket \cup {NoRow},
             bilhete' = [bilhete EXCEPT ![t] = row],
             row # NoRow /\ t \notin byHand' => Made(t, row)
      PROVE  TicketInv'
  <2>1. bilhete' \in [Tickets -> Ticket \cup {NoRow}]
    BY <1>1, <1>3 DEF TicketInv
  <2>2. ASSUME NEW u \in Tickets, bilhete'[u] # NoRow, u \notin byHand'
        PROVE  bilhete'[u] \in Ticket /\ Made(u, bilhete'[u])
    BY <1>1, <1>3, <2>1, <2>2 DEF TicketInv, Exists, HandsOff
  <2>3. ASSUME NEW u \in Tickets, bilhete'[u] # NoRow, u \notin byHand'
        PROVE  Made(u, bilhete[u])'
    <3> PICK made : made = bilhete'[u]
      OBVIOUS
    <3>1. Made(u, made)'
      BY <1>0, <2>2, <2>3
    <3> QED
      BY <3>1 DEF Made, Heeded
  <2> QED
    BY <2>1, <2>3 DEF TicketInv, Exists
<1>4. ASSUME NEW g \in Graders, GradeStep(g) PROVE TicketInv'
  <2>1. ASSUME NEW t \in Tickets, SetOutcome(g, t), bilhete' # bilhete PROVE TicketInv'
    <3>1. Exists(t) /\ bilhete[t] \in Ticket
      BY <1>1, <2>1 DEF SetOutcome
    <3>2. OutcomeOf(g, t) \in {"pending", "green", "red"}
      BY Outcomes DEF OutcomeOf
    <3> DEFINE row == [bilhete[t] EXCEPT !.resultado = OutcomeOf(g, t)]
    <3>3. bilhete' = [bilhete EXCEPT ![t] = row] /\ byHand' = byHand
      BY <2>1, <3>1, <1>4, GradeFrame DEF SetOutcome
    <3>4. /\ row \in Ticket /\ row.event = bilhete[t].event
          /\ row.pick = bilhete[t].pick /\ row.startsAt = bilhete[t].startsAt
      BY <3>1, <3>2 DEF Ticket
    <3> HIDE DEF row
    <3>5. t \notin byHand => Made(t, row)
      BY <1>1, <3>1, <3>4 DEF TicketInv, Made
    <3> QED
      BY <1>3, <3>3, <3>4, <3>5
  <2> QED
    BY <1>2, <1>4, <2>1, GradeFrame DEF GradeStep, settlePending, ReadPending, ReadScores, Skip,
       MarkFinished, GradeFails
<1>5. ASSUME NEW y \in Syncs, SyncStep(y) PROVE TicketInv'
  <2>1. ASSUME NEW t \in Generated, NEW pick \in Picks, upsertTicket(y, t, pick)
        PROVE  TicketInv'
    <3> DEFINE s == sync[y].todo[t]
               row == Slip(s.event, s.startsAt, pick, TRUE,
                           IF Exists(t) THEN bilhete[t].resultado ELSE "pending")
    <3>1. /\ t \in Tickets /\ s.event \in Events /\ s.startsAt \in Times
          /\ t \notin Multiples => s.event = FixtureOf[t] /\ Heeded(s.event, s.startsAt)
          /\ t \in Multiples => pick = ByAdmin(Scorelines)
      BY <1>1, <2>1 DEF upsertTicket, SyncInv, Slots
    <3>2. bilhete' = [bilhete EXCEPT ![t] = row]
      BY <2>1 DEF upsertTicket
    <3>3. Exists(t) => bilhete[t].resultado \in {"pending", "green", "red"}
      BY <1>1, <3>1 DEF Ticket
    <3>4. row \in Ticket /\ row.event = s.event /\ row.pick = pick /\ row.startsAt = s.startsAt
      BY <3>1, <3>3 DEF Slip, Ticket
    <3> HIDE DEF s, row
    <3>5. Made(t, row)
      BY <3>1, <3>4 DEF Made
    <3> QED
      BY <1>3, <3>1, <3>2, <3>4, <3>5
  <2> QED
    BY <1>2, <1>5, <2>1, SyncFrame DEF SyncStep, generateDaily, FetchUpcoming, upsertEvent,
       prunePastEvents, SelectPicks, EndDaily, SyncFails
<1>6. ASSUME NEW t \in Tickets, Admin(t) PROVE TicketInv'
  <2>1. ASSUME NEW row \in Ticket, create(t, row) PROVE TicketInv'
    BY <1>3, <2>1 DEF create, Made
  <2>2. ASSUME NEW row \in Ticket \cup {NoRow}, Edit(t, row, {t}) PROVE TicketInv'
    BY <1>3, <2>2 DEF Edit
  <2>3. ASSUME NEW row \in Ticket, update(t, row) PROVE TicketInv'
    BY <2>2, <2>3 DEF update
  <2>4. ASSUME NEW r \in {"pending", "green", "red"}, setResult(t, r) PROVE TicketInv'
    <3>1. Exists(t) /\ bilhete[t] \in Ticket
      BY <1>1, <2>4 DEF setResult, Edit
    <3>2. [bilhete[t] EXCEPT !.resultado = r] \in Ticket
      BY <3>1 DEF Ticket
    <3> QED
      BY <2>2, <2>4, <3>2 DEF setResult
  <2>5. ASSUME NEW published \in BOOLEAN, setPublished(t, published) PROVE TicketInv'
    <3> DEFINE row == [bilhete[t] EXCEPT !.published = published]
    <3>1. /\ Exists(t) /\ bilhete[t] \in Ticket /\ byHand' = byHand
          /\ bilhete' = [bilhete EXCEPT ![t] = row]
      BY <1>1, <2>5 DEF setPublished, Edit
    <3>2. /\ row \in Ticket /\ row.event = bilhete[t].event
          /\ row.pick = bilhete[t].pick /\ row.startsAt = bilhete[t].startsAt
      BY <3>1 DEF Ticket
    <3> HIDE DEF row
    <3>3. t \notin byHand => Made(t, row)
      BY <1>1, <3>1, <3>2 DEF TicketInv, Made
    <3> QED
      BY <1>3, <3>1, <3>2, <3>3
  <2>6. CASE remove(t)
    BY <2>2, <2>6 DEF remove
  <2> QED
    BY <1>6, <2>1, <2>3, <2>4, <2>5, <2>6 DEF Admin
<1>7. CASE UNCHANGED settlementVars \/ Turn
  BY <1>2, <1>7, TurnFrame DEF settlementVars
<1>8. ASSUME NEW p \in Pollers, PollStep(p) PROVE TicketInv'
  BY <1>2, <1>8, PollFrame
<1> QED
  BY <1>4, <1>5, <1>6, <1>7, <1>8, StepCases

------------------------------------------------------------------------------
\* Whatever a run read, the next step leaves true.
LEMMA ReadsStayTrue ==
  ASSUME SettlementInv, [SettlementNext]_settlementVars
  PROVE  /\ Moves
         /\ \A at, todo : at \in Nat /\ at <= now /\ InHand(at, todo) => InHand(at, todo)'
         /\ \A at, byExt : at \in Nat /\ at <= now /\ ReadTrue(at, byExt) => ReadTrue(at, byExt)'
<1> USE SettlementAssumption
<1>1. Steady /\ HandsOff /\ Moves /\ WorldInv
  BY RowsAreSteady, HandsAreOff, WorldMoves DEF SettlementInv
<1>2. now \in Nat /\ kickoff \in [Events -> Nat]
  BY <1>1 DEF Moves
<1>3. ASSUME NEW at \in Nat, NEW read \in Ticket, NEW t \in Tickets, at <= now,
             read.startsAt + MatchWindow < at, t \notin byHand', StillSo(t, read)
      PROVE  StillSo(t, read)'
  <2>1. read.event \in Events /\ read.startsAt \in Nat
    BY DEF Ticket
  <2>2. t \notin byHand /\ Exists(t) /\ Exists(t)'
    BY <1>1, <1>3 DEF HandsOff, StillSo, Exists
  <2>3. Made(t, read)'
    BY <1>1, <1>3, <2>1, MovesKeep DEF StillSo, Made
  <2>4. CASE t \in Multiples
    BY <2>2, <2>3, <2>4 DEF StillSo
  <2>5. CASE t \notin Multiples
    <3>1. bilhete[t].event = read.event /\ bilhete'[t].event = read.event
      BY <1>1, <1>3, <2>2, <2>5 DEF StillSo, HandsOff
    <3>2. CASE t \notin Generated
      <4>1. bilhete'[t].pick = read.pick /\ bilhete'[t].startsAt = read.startsAt
        BY <1>1, <1>3, <2>2, <2>5, <3>2 DEF StillSo, HandsOff
      <4> QED
        BY <2>2, <2>3, <3>1, <4>1 DEF StillSo
    <3>3. ASSUME OnTime(read.event, read.startsAt)'
          PROVE  bilhete'[t].pick = read.pick /\ bilhete'[t].startsAt = read.startsAt
      <4>1. read.startsAt <= now
        BY <1>2, <1>3, <2>1
      <4>2. OnTime(read.event, read.startsAt)
        BY <1>1, <2>1, <3>3, <4>1, MovesKeep
      <4>3. Past(read.event)
        BY <1>2, <1>3, <2>1, <4>2 DEF OnTime, Past
      <4>4. bilhete[t].pick = read.pick /\ bilhete[t].startsAt = read.startsAt
        BY <1>3, <2>5, <4>2 DEF StillSo
      <4> QED
        BY <1>1, <1>3, <2>2, <2>5, <3>1, <4>3, <4>4 DEF HandsOff
    <3> QED
      BY <2>2, <2>3, <3>1, <3>2, <3>3 DEF StillSo
  <2> QED
    BY <2>4, <2>5
<1>4. ASSUME NEW at \in Nat, NEW todo, at <= now, InHand(at, todo) PROVE InHand(at, todo)'
  <2> SUFFICES ASSUME NEW t \in DOMAIN todo
               PROVE  /\ t \in Tickets /\ todo[t] \in Ticket
                      /\ todo[t].startsAt + MatchWindow < at
                      /\ t \notin byHand' => StillSo(t, todo[t])'
    BY DEF InHand
  <2> QED
    BY <1>1, <1>3, <1>4 DEF InHand, HandsOff
<1>5. ASSUME NEW at \in Nat, NEW byExt, at <= now, ReadTrue(at, byExt) PROVE ReadTrue(at, byExt)'
  <2> SUFFICES ASSUME NEW e \in DOMAIN byExt
               PROVE  /\ e \in Events /\ kickoff'[e] <= now'
                      /\ kickoff'[e] + MatchWindow < at =>
                           (Stored(e)' => sportEvent'[e].score = byExt[e])
    BY DEF ReadTrue
  <2>1. e \in Events /\ kickoff[e] <= now
    BY <1>5 DEF ReadTrue
  <2>2. kickoff'[e] = kickoff[e] /\ kickoff'[e] <= now'
    BY <1>1, <2>1, MovesKeep
  <2>3. ASSUME kickoff[e] + MatchWindow < at, Stored(e)'
        PROVE  sportEvent'[e].score = byExt[e]
    <3>1. Past(e)
      BY <1>2, <1>5, <2>1, <2>3 DEF Past
    <3>2. Stored(e) /\ sportEvent'[e].score = sportEvent[e].score
      BY <1>1, <2>1, <2>3, <3>1 DEF Steady, Stored
    <3> QED
      BY <1>5, <2>3, <3>2 DEF ReadTrue
  <2> QED
    BY <2>1, <2>2, <2>3
<1> QED
  BY <1>1, <1>4, <1>5

\* A run under way goes on working from facts.
LEMMA GradeKept ==
  ASSUME SettlementInv, [SettlementNext]_settlementVars
  PROVE  GradeInv'
<1> USE SettlementAssumption
<1> DEFINE Sound(r) ==
      /\ r.pc \in {"idle", "scores", "loop"}
      /\ r.pc # "idle" => /\ r.at \in Nat /\ r.at <= now /\ r.ids \subseteq Events
                          /\ InHand(r.at, r.todo)
      /\ r.pc = "loop" => ReadTrue(r.at, r.byExt)
<1>1. now \in Nat /\ GradeInv /\ Moves
  BY ReadsStayTrue DEF SettlementInv, WorldInv
<1>2. \A g \in Graders : Sound(grade[g])
  BY <1>1 DEF GradeInv, Recent
\* It is enough that what a run works from is sound now.
<1>3. ASSUME DOMAIN grade' = Graders,
             \A g \in Graders : grade'[g].pc # "idle" => now' <= grade'[g].at + 1,
             \A g \in Graders : Sound(grade'[g])
      PROVE  GradeInv'
  <2> SUFFICES ASSUME NEW g \in Graders
               PROVE  /\ grade'[g].pc \in {"idle", "scores", "loop"}
                      /\ grade'[g].pc # "idle" =>
                           /\ Recent(grade[g].at)'
                           /\ grade'[g].ids \subseteq Events
                           /\ InHand(grade[g].at, grade[g].todo)'
                      /\ grade'[g].pc = "loop" => ReadTrue(grade[g].at, grade[g].byExt)'
    BY <1>3 DEF GradeInv
  <2>1. Sound(grade'[g])
    BY <1>3
  <2>2. ASSUME grade'[g].pc # "idle"
        PROVE  /\ Recent(grade[g].at)' /\ grade'[g].ids \subseteq Events
               /\ InHand(grade[g].at, grade[g].todo)'
    <3> PICK at, todo : at = grade'[g].at /\ todo = grade'[g].todo
      OBVIOUS
    <3>1. /\ at \in Nat /\ at <= now /\ now' <= at + 1 /\ InHand(at, todo)
          /\ grade'[g].ids \subseteq Events
      BY <1>3, <2>1, <2>2
    <3>2. InHand(at, todo)'
      BY <3>1, ReadsStayTrue
    <3>3. InHand(grade[g].at, grade[g].todo)'
      BY <3>2 DEF InHand
    <3> QED
      BY <1>1, <3>1, <3>3 DEF Recent, Moves
  <2>3. ASSUME grade'[g].pc = "loop" PROVE ReadTrue(grade[g].at, grade[g].byExt)'
    <3> PICK at, byExt : at = grade'[g].at /\ byExt = grade'[g].byExt
      OBVIOUS
    <3>1. at \in Nat /\ at <= now /\ ReadTrue(at, byExt)
      BY <2>1, <2>3
    <3>2. ReadTrue(at, byExt)'
      BY <3>1, ReadsStayTrue
    <3> QED
      BY <3>2 DEF ReadTrue
  <2> QED
    BY <2>1, <2>2, <2>3
<1>4. CASE UNCHANGED <<now, grade>>
  BY <1>1, <1>2, <1>3, <1>4 DEF GradeInv, Recent
<1>5. CASE Tick
  <2>1. \A g \in Graders : grade[g].pc # "idle" => grade[g].at = now
    BY <1>5 DEF Tick, Began
  <2>2. grade' = grade /\ now' = now + 1
    BY <1>5 DEF Tick
  <2> HIDE DEF Sound
  <2> QED
    BY <1>1, <1>2, <1>3, <2>1, <2>2 DEF GradeInv
\* A step of a grading run replaces its own record by one that is sound.
<1>6. ASSUME NEW g \in Graders, NEW r, grade' = [grade EXCEPT ![g] = r], now' = now,
             Sound(r), r.pc # "idle" => r.at = now \/ (grade[g].pc # "idle" /\ r.at = grade[g].at)
      PROVE  GradeInv'
  <2> HIDE DEF Sound
  <2>1. \A h \in Graders : grade'[h] = IF h = g THEN r ELSE grade[h]
    BY <1>1, <1>6 DEF GradeInv
  <2>2. \A h \in Graders : grade'[h].pc # "idle" => now' <= grade'[h].at + 1
    BY <1>1, <1>6, <2>1 DEF GradeInv, Recent
  <2>3. \A h \in Graders : Sound(grade'[h])
    BY <1>2, <1>6, <2>1
  <2> QED
    BY <1>1, <1>3, <1>6, <2>2, <2>3 DEF GradeInv
<1>7. ASSUME NEW g \in Graders, GradeStep(g) PROVE GradeInv'
  <2>1. now' = now
    BY <1>7, GradeFrame
  <2>2. grade[g].pc # "idle" => InHand(grade[g].at, grade[g].todo)
    BY <1>2
  <2>3. CASE ReadPending(g)
    <3> DEFINE pending == {t \in Tickets : Due(t)}
               ids == {bilhete[t].event : t \in pending}
               todo == Restrict(bilhete, pending)
    <3>1. InHand(now, todo) /\ ids \subseteq Events
      <4>1. \A t \in pending : /\ t \in Tickets /\ Exists(t) /\ bilhete[t] \in Ticket
                               /\ bilhete[t].startsAt \in Nat /\ bilhete[t].event \in Events
                               /\ t \notin byHand => Made(t, bilhete[t])
        BY DEF SettlementInv, TicketInv, Exists, Due, Ticket
      <4>2. \A t \in pending : bilhete[t].startsAt + MatchWindow < now
        BY <1>1, <4>1 DEF Due, Elapsed
      <4>3. DOMAIN todo = pending /\ \A t \in pending : todo[t] = bilhete[t]
        BY DEF Restrict
      <4> HIDE DEF todo, pending
      <4> QED
        BY <4>1, <4>2, <4>3 DEF InHand, StillSo
    <3>2. grade' = [grade EXCEPT ![g] = Reading(now, ids, todo)]
      BY <2>3 DEF ReadPending
    <3> HIDE DEF ids, todo
    <3>3. Sound(Reading(now, ids, todo)) /\ Reading(now, ids, todo).at = now
      BY <1>1, <3>1 DEF Reading
    <3> HIDE DEF Sound
    <3> QED
      BY <1>6, <2>1, <3>2, <3>3
  <2>4. CASE ReadScores(g)
    <3> DEFINE byExt == [e \in {x \in grade[g].ids : Stored(x)} |-> sportEvent[e].score]
               r == Grading(grade[g].at, grade[g].ids, grade[g].todo, byExt, FALSE)
    <3>1. grade[g].pc = "scores" => ReadTrue(grade[g].at, byExt)
      BY <1>2 DEF ReadTrue, SettlementInv, RowInv
    <3>2. grade[g].pc = "scores" /\ grade' = [grade EXCEPT ![g] = r]
      BY <2>4 DEF ReadScores
    <3> HIDE DEF byExt
    <3>3. Sound(r) /\ r.at = grade[g].at
      BY <1>2, <3>1, <3>2 DEF Grading
    <3> HIDE DEF Sound, r
    <3> QED
      BY <1>6, <2>1, <3>2, <3>3
  <2>5. ASSUME NEW t, NEW settled, grade[g].pc = "loop", grade' = Passed(g, t, settled)
        PROVE  GradeInv'
    <3> DEFINE left == Restrict(grade[g].todo, DOMAIN grade[g].todo \ {t})
               r == Grading(grade[g].at, grade[g].ids, left, grade[g].byExt, settled)
    <3>1. InHand(grade[g].at, left)
      BY <2>2, <2>5 DEF InHand, Restrict
    <3>2. grade' = [grade EXCEPT ![g] = r]
      BY <2>5 DEF Passed
    <3> HIDE DEF left
    <3>3. Sound(r) /\ r.at = grade[g].at
      BY <1>2, <2>5, <3>1 DEF Grading
    <3> HIDE DEF Sound, r
    <3> QED
      BY <1>6, <2>1, <2>5, <3>2, <3>3
  <2>6. CASE grade' = [grade EXCEPT ![g] = Rest]
    <3>1. Sound(Rest) /\ Rest.pc = "idle"
      BY DEF Rest
    <3> HIDE DEF Sound
    <3> QED
      BY <1>6, <2>1, <2>6, <3>1
  <2>7. ASSUME NEW t \in Tickets, Skip(g, t) \/ SetOutcome(g, t) PROVE GradeInv'
    BY <2>5, <2>6, <2>7 DEF Skip, SetOutcome
  <2> QED
    BY <1>7, <2>3, <2>4, <2>6, <2>7 DEF GradeStep, settlePending, MarkFinished, GradeFails
<1>8. CASE UNCHANGED settlementVars
  BY <1>4, <1>8 DEF settlementVars, world
<1>9. CASE Turn
  BY <1>4, <1>5, <1>9 DEF Turn, Reschedule, Goal
<1>10. ASSUME NEW p \in Pollers, PollStep(p) PROVE GradeInv'
  BY <1>4, <1>10, PollFrame
<1>11. ASSUME NEW y \in Syncs, SyncStep(y) PROVE GradeInv'
  BY <1>4, <1>11, SyncFrame
<1>12. ASSUME NEW t \in Tickets, Admin(t) PROVE GradeInv'
  BY <1>4, <1>12, AdminFrame
<1> QED
  BY <1>7, <1>8, <1>9, <1>10, <1>11, <1>12, StepCases

\* A verdict appears only from a run that still knows the ticket and its row.
LEMMA VerdictKept ==
  ASSUME SettlementInv, [SettlementNext]_settlementVars
  PROVE  VerdictInv'
<1> USE SettlementAssumption
<1>1. /\ Moves /\ WorldInv /\ Steady /\ HandsOff /\ VerdictInv /\ GradeInv
      /\ now \in Nat /\ kickoff \in [Events -> Nat]
  BY RowsAreSteady, HandsAreOff, ReadsStayTrue DEF SettlementInv, Moves
<1>2. DOMAIN bilhete = Tickets /\ \A t \in Tickets : Exists(t) =>
        /\ bilhete[t] \in Ticket /\ bilhete[t].event \in Events /\ bilhete[t].startsAt \in Nat
        /\ t \notin byHand => Made(t, bilhete[t])
  BY DEF SettlementInv, TicketInv, Exists, Ticket
<1> SUFFICES ASSUME NEW t \in Tickets, bilhete'[t] # NoRow, t \notin byHand',
                    bilhete'[t].resultado # "pending"
             PROVE  Agrees(t)'
  BY DEF VerdictInv, Exists
<1>3. t \notin byHand
  BY <1>1 DEF HandsOff
<1> DEFINE e == bilhete[t].event
           Agreed == /\ t \notin Multiples /\ kickoff[e] <= now
                     /\ OnTime(e, bilhete[t].startsAt) =>
                          /\ Past(e)
                          /\ Stored(e) => bilhete'[t].resultado =
                               settleBilhete(sportEvent[e].score, bilhete[t].pick)
\* The event stays, and pick and kickoff once its window is over: it is enough that the
\* result agrees with what they were.
<1>4. ASSUME Exists(t), Agreed PROVE Agrees(t)'
  <2> PICK f : f = bilhete[t].event
    OBVIOUS
  <2>1. /\ t \notin Multiples /\ bilhete'[t].event = f /\ f \in Events
        /\ kickoff'[f] = kickoff[f] /\ kickoff'[f] <= now'
    BY <1>1, <1>2, <1>4, MovesKeep DEF HandsOff
  <2>2. ASSUME OnTime(f, bilhete[t].startsAt)'
        PROVE  /\ Past(f)'
               /\ Stored(f)' => bilhete'[t].resultado =
                    settleBilhete(sportEvent'[f].score, bilhete'[t].pick)
    <3>1. f \notin postponed /\ kickoff[f] <= bilhete'[t].startsAt
      BY <1>1, <2>1, <2>2 DEF OnTime, Moves
    <3>2. OnTime(f, bilhete[t].startsAt)
      <4>1. CASE t \in Generated
        BY <1>2, <1>3, <1>4, <2>1, <3>1, <4>1 DEF Made, Heeded, OnTime
      <4>2. CASE t \notin Generated
        <5>1. bilhete'[t].startsAt = bilhete[t].startsAt
          BY <1>1, <1>4, <2>1, <4>2 DEF HandsOff
        <5> QED
          BY <3>1, <5>1 DEF OnTime
      <4> QED
        BY <4>1, <4>2
    <3>3. Past(f) /\ Past(f)'
      BY <1>1, <1>4, <2>1, <3>2, MovesKeep
    <3>4. bilhete'[t].pick = bilhete[t].pick
      BY <1>1, <1>4, <2>1, <3>3 DEF HandsOff
    <3>5. Stored(f)' => Stored(f) /\ sportEvent'[f].score = sportEvent[f].score
      BY <1>1, <2>1, <3>3 DEF Steady, Stored
    <3> QED
      BY <1>4, <3>2, <3>3, <3>4, <3>5
  <2> QED
    BY <2>1, <2>2 DEF Agrees, OnTime, Past, Stored
<1>5. ASSUME Exists(t), bilhete'[t].resultado = bilhete[t].resultado PROVE Agreed
  BY <1>1, <1>3, <1>5 DEF VerdictInv, Agrees
<1> HIDE DEF Agreed
<1>6. ASSUME UNCHANGED bilhete PROVE Exists(t) /\ Agreed
  BY <1>5, <1>6 DEF Exists
<1>7. ASSUME NEW g \in Graders, GradeStep(g) PROVE Exists(t) /\ Agreed
  <2>1. ASSUME NEW u \in Tickets, SetOutcome(g, u), bilhete' # bilhete
        PROVE  Exists(t) /\ Agreed
    <3>1. /\ Exists(u) /\ grade[g].pc = "loop" /\ u \in DOMAIN grade[g].todo
          /\ OutcomeOf(g, u) # "pending"
          /\ bilhete' = [bilhete EXCEPT ![u] = [bilhete[u] EXCEPT !.resultado = OutcomeOf(g, u)]]
      BY <2>1 DEF SetOutcome
    <3>2. CASE u # t
      BY <1>2, <1>5, <3>1, <3>2 DEF Exists
    <3>3. CASE u = t
      <4> DEFINE read == grade[g].todo[t]
                 at == grade[g].at
                 byExt == grade[g].byExt
      <4>1. /\ Recent(at) /\ StillSo(t, read) /\ read \in Ticket
            /\ read.startsAt + MatchWindow < at /\ ReadTrue(at, byExt)
        BY <1>1, <1>3, <3>1, <3>3 DEF GradeInv, InHand
      <4>2. /\ read.event \in DOMAIN byExt
            /\ OutcomeOf(g, t) = settleBilhete(byExt[read.event], read.pick)
        BY <3>1, <3>3 DEF OutcomeOf
      <4>3. t \notin Multiples
        BY <3>1, <3>3, <4>1, <4>2, LeftToAdmin DEF StillSo, Made
      <4>4. e = read.event /\ e \in Events /\ kickoff[e] <= now
        BY <4>1, <4>2, <4>3 DEF StillSo, ReadTrue
      <4>5. bilhete'[t].resultado = OutcomeOf(g, t)
        BY <1>2, <3>1, <3>3 DEF Ticket
      <4>6. ASSUME OnTime(e, bilhete[t].startsAt)
            PROVE  /\ Past(e)
                   /\ Stored(e) => bilhete'[t].resultado =
                        settleBilhete(sportEvent[e].score, bilhete[t].pick)
        <5>1. t \notin Generated \/ OnTime(e, read.startsAt)
          BY <4>1, <4>3, <4>4, <4>6 DEF StillSo, Made, Heeded, OnTime
        <5>2. read.pick = bilhete[t].pick /\ read.startsAt = bilhete[t].startsAt
          BY <4>1, <4>3, <4>4, <5>1 DEF StillSo
        <5>3. kickoff[e] + MatchWindow < at /\ Past(e)
          BY <1>1, <1>2, <3>1, <3>3, <4>1, <4>4, <4>6, <5>2 DEF OnTime, Recent, Past
        <5>4. Stored(e) => sportEvent[e].score = byExt[e]
          BY <4>1, <4>2, <4>4, <5>3 DEF ReadTrue
        <5> QED
          BY <4>2, <4>4, <4>5, <5>2, <5>3, <5>4
      <4> QED
        BY <3>1, <3>3, <4>3, <4>4, <4>6 DEF Agreed
    <3> QED
      BY <3>2, <3>3
  <2> QED
    BY <1>6, <1>7, <2>1 DEF GradeStep, settlePending, ReadPending, ReadScores, Skip,
       MarkFinished, GradeFails
<1>8. ASSUME NEW y \in Syncs, SyncStep(y) PROVE Exists(t) /\ Agreed
  <2>1. ASSUME NEW u \in Generated, NEW pick \in Picks, upsertTicket(y, u, pick)
        PROVE  Exists(t) /\ Agreed
    <3>1. bilhete' = [bilhete EXCEPT ![u] =
            Slip(sync[y].todo[u].event, sync[y].todo[u].startsAt, pick, TRUE,
                 IF Exists(u) THEN bilhete[u].resultado ELSE "pending")]
      BY <2>1 DEF upsertTicket
    <3>2. CASE u # t
      BY <1>2, <1>5, <3>1, <3>2 DEF Exists
    <3>3. CASE u = t
      BY <1>2, <1>5, <3>1, <3>3 DEF Slip
    <3> QED
      BY <3>2, <3>3
  <2> QED
    BY <1>6, <1>8, <2>1 DEF SyncStep, generateDaily, FetchUpcoming, upsertEvent,
       prunePastEvents, SelectPicks, EndDaily, SyncFails
<1>9. ASSUME NEW u \in Tickets, Admin(u) PROVE Exists(t) /\ Agreed
  <2>1. ASSUME NEW row \in Ticket, create(u, row) PROVE Exists(t) /\ Agreed
    <3>1. bilhete' = [bilhete EXCEPT ![u] = row] /\ row.resultado = "pending"
      BY <2>1 DEF create
    <3>2. u # t
      BY <1>2, <3>1
    <3> QED
      BY <1>2, <1>5, <3>1, <3>2 DEF Exists
  <2>2. ASSUME NEW row, Edit(u, row, {u}) PROVE Exists(t) /\ Agreed
    <3>1. bilhete' = [bilhete EXCEPT ![u] = row] /\ u # t
      BY <2>2 DEF Edit
    <3> QED
      BY <1>2, <1>5, <3>1 DEF Exists
  <2>3. ASSUME NEW published \in BOOLEAN, setPublished(u, published)
        PROVE  Exists(t) /\ Agreed
    <3> DEFINE row == [bilhete[u] EXCEPT !.published = published]
    <3>1. Exists(u) /\ bilhete' = [bilhete EXCEPT ![u] = row]
      BY <2>3 DEF setPublished, Edit
    <3>2. row.resultado = bilhete[u].resultado
      BY <1>2, <3>1 DEF Ticket
    <3> HIDE DEF row
    <3> QED
      BY <1>2, <1>5, <3>1, <3>2 DEF Exists
  <2> QED
    BY <1>9, <2>1, <2>2, <2>3 DEF Admin, update, setResult, remove
<1>10. Exists(t) /\ Agreed
  BY <1>6, <1>7, <1>8, <1>9, StepCases, PollFrame, TurnFrame DEF settlementVars
<1> QED
  BY <1>4, <1>10

------------------------------------------------------------------------------
\* The engine.

\* pick1x2 answers with the first test that finds something in the label.
LEMMA FirstTest ==
  ASSUME NEW sel,
         NEW i \in 1..5,
         << {"empate", "x"}, {"home"}, {"away"}, {"casa"}, {"fora"} >>[i] \cap sel # {},
         \A j \in 1..5 : j < i =>
           << {"empate", "x"}, {"home"}, {"away"}, {"casa"}, {"fora"} >>[j] \cap sel = {}
  PROVE  pick1x2(sel) = << "draw", "home", "away", "home", "away" >>[i]
<1> DEFINE tests == << <<"draw", {"empate", "x"}>>, <<"home", {"home"}>>, <<"away", {"away"}>>,
                       <<"home", {"casa"}>>, <<"away", {"fora"}>> >>
           I == {j \in 1..Len(tests) : tests[j][2] \cap sel # {}}
<1>1. Len(tests) = 5
  OBVIOUS
<1>2. \A j \in 1..5 :
        /\ tests[j][1] = << "draw", "home", "away", "home", "away" >>[j]
        /\ tests[j][2] = << {"empate", "x"}, {"home"}, {"away"}, {"casa"}, {"fora"} >>[j]
  OBVIOUS
<1>3. i \in I /\ \A j \in I : i <= j
  BY <1>1, <1>2
<1>4. Min(I) = i
  <2> HIDE DEF I
  <2> QED
    BY <1>3, <1>1 DEF Min, I
<1>5. SelectInSeq(tests, LAMBDA t : t[2] \cap sel # {}) = i
  BY <1>3, <1>4 DEF SelectInSeq
<1> QED
  BY <1>1, <1>2, <1>5 DEF pick1x2

\* The labels of a result, each by the test that was written for it.
LEMMA Picks1x2 ==
  /\ pick1x2({"empate"}) = "draw" /\ pick1x2({"x"}) = "draw"
  /\ pick1x2({"home"}) = "home" /\ pick1x2({"casa"}) = "home"
  /\ pick1x2({"away"}) = "away" /\ pick1x2({"fora"}) = "away"
<1>1. pick1x2({"empate"}) = "draw" /\ pick1x2({"x"}) = "draw"
  BY FirstTest, 1 \in 1..5
<1>2. pick1x2({"home"}) = "home"
  BY FirstTest, 2 \in 1..5
<1>3. pick1x2({"away"}) = "away"
  BY FirstTest, 3 \in 1..5
<1>4. pick1x2({"casa"}) = "home"
  BY FirstTest, 4 \in 1..5
<1>5. pick1x2({"fora"}) = "away"
  BY FirstTest, 5 \in 1..5
<1> QED
  BY <1>1, <1>2, <1>3, <1>4, <1>5

\* The engine pays the pick as its bet, on every score of S.
Paid(S, b) == \A s \in S : settleBilhete(s, b) = Payout(s, b.bet)

\* The labels of results, whoever wins and whatever the score.
LEMMA ResultsPaid ==
  ASSUME NEW S, NEW b \in Winner(S) \cup DoubleChance(S) \cup DrawNoBet(S)
  PROVE  Paid(S, b)
<1> SUFFICES ASSUME NEW s \in S PROVE settleBilhete(s, b) = Payout(s, b.bet)
  BY DEF Paid
<1> PICK winner : winner = winnerOf(s)
  OBVIOUS
<1>1. winner \in {"home", "draw", "away"}
  BY DEF winnerOf
<1>2. ASSUME NEW mercado, NEW sel, NEW results, NEW refunded,
             b = OnResult(S, mercado, sel, results, refunded)
      PROVE  /\ b.mercado = mercado /\ b.selecao = sel
             /\ Payout(s, b.bet) =
                  IF winner \in refunded THEN "pending" ELSE hit(winner \in results)
  <2>1. /\ b.mercado = mercado /\ b.selecao = sel
        /\ b.bet.wins = Won(S, results) /\ b.bet.refunds = Won(S, refunded)
    BY <1>2 DEF OnResult, Offer
  <2>2. \A r : s \in Won(S, r) <=> winner \in r
    BY DEF Won
  <2>3. /\ (s \in b.bet.refunds) = (winner \in refunded)
        /\ (s \in b.bet.wins) = (winner \in results)
    BY <2>1, <2>2
  <2> QED
    BY <2>1, <2>3 DEF Payout
<1>3. ASSUME NEW sel, NEW results, b = OnResult(S, "1x2", sel, results, {}),
             pick1x2(sel) \in {"home", "draw", "away"}, results = {pick1x2(sel)}
      PROVE  settleBilhete(s, b) = Payout(s, b.bet)
  <2>1. b.mercado = "1x2" /\ b.selecao = sel /\ Payout(s, b.bet) = hit(winner \in results)
    BY <1>2, <1>3
  <2>2. settleBilhete(s, b) = hit(pick1x2(sel) = winner)
    BY <1>3, <2>1 DEF settleBilhete
  <2>3. (winner \in results) = (pick1x2(sel) = winner)
    BY <1>3
  <2> QED
    BY <2>1, <2>2, <2>3
<1>4. ASSUME NEW sel, NEW results, b = OnResult(S, "double_chance", sel, results, {}),
             results # {}, results = pickDoubleChance(sel)
      PROVE  settleBilhete(s, b) = Payout(s, b.bet)
  <2>1. /\ b.mercado = "double_chance" /\ b.selecao = sel
        /\ Payout(s, b.bet) = hit(winner \in results)
    BY <1>2, <1>4
  <2> QED
    BY <1>4, <2>1 DEF settleBilhete
<1>5. ASSUME NEW sel, NEW results, b = OnResult(S, "dnb", sel, results, {"draw"}),
             pick1x2(sel) \in {"home", "away"}, results = {pick1x2(sel)}
      PROVE  settleBilhete(s, b) = Payout(s, b.bet)
  <2>1. /\ b.mercado = "dnb" /\ b.selecao = sel
        /\ Payout(s, b.bet) = IF winner = "draw" THEN "pending" ELSE hit(winner \in results)
    BY <1>2, <1>5
  <2>2. settleBilhete(s, b) = IF winner = "draw" THEN "pending" ELSE hit(pick1x2(sel) = winner)
    BY <1>5, <2>1 DEF settleBilhete
  <2>3. (winner \in results) = (pick1x2(sel) = winner)
    BY <1>5
  <2> QED
    BY <2>1, <2>2, <2>3
<1>6. CASE b \in Winner(S)
  BY <1>3, <1>6, Picks1x2 DEF Winner
<1>7. CASE b \in DoubleChance(S)
  <2>1. /\ pickDoubleChance({"casa", "empate"}) = {"home", "draw"}
        /\ pickDoubleChance({"empate", "away"}) = {"away", "draw"}
        /\ pickDoubleChance({"casa", "fora"}) = {"home", "away"}
    BY DEF pickDoubleChance
  <2> QED
    BY <1>4, <1>7, <2>1 DEF DoubleChance
<1>8. CASE b \in DrawNoBet(S)
  BY <1>5, <1>8, Picks1x2 DEF DrawNoBet
<1> QED
  BY <1>6, <1>7, <1>8

\* The labels of goals, on every line.
LEMMA TotalsPaid ==
  ASSUME NEW S \in SUBSET [home : Nat, away : Nat], NEW l \in Nat,
         NEW b, b = Over(S, l) \/ b = Under(S, l)
  PROVE  Paid(S, b)
<1> SUFFICES ASSUME NEW s \in S PROVE settleBilhete(s, b) = Payout(s, b.bet)
  BY DEF Paid
<1> PICK total : total = Goals(s)
  OBVIOUS
<1>1. total \in Nat /\ NoLine # l
  BY DEF Goals, NoLine
<1>2. settleBilhete(s, b) = overUnder(total, lineOf(b), b.selecao)
  <2>1. b.mercado = "over_under"
    BY DEF Over, Under, Offer
  <2> QED
    BY <2>1 DEF settleBilhete, Goals
<1>3. CASE b = Over(S, l)
  <2>1. /\ lineOf(b) = l /\ b.selecao = {"mais"}
        /\ s \in b.bet.refunds <=> total = l
        /\ s \in b.bet.wins <=> total > l
    BY <1>1, <1>3 DEF Over, Offer, lineOf
  <2> QED
    BY <1>1, <1>2, <2>1 DEF overUnder, Payout, hit
<1>4. CASE b = Under(S, l)
  <2>1. /\ lineOf(b) = l /\ b.selecao = {"menos"}
        /\ s \in b.bet.refunds <=> total = l
        /\ s \in b.bet.wins <=> total < l
    BY <1>1, <1>4 DEF Under, Offer, lineOf
  <2> QED
    BY <1>1, <1>2, <2>1 DEF overUnder, Payout, hit
<1> QED
  BY <1>3, <1>4

\* Both teams score, or not; and what the engine leaves to the admin.
LEMMA OthersPaid ==
  ASSUME NEW S, NEW b \in BothScore(S) \cup {ByAdmin(S)}
  PROVE  Paid(S, b)
<1> SUFFICES ASSUME NEW s \in S PROVE settleBilhete(s, b) = Payout(s, b.bet)
  BY DEF Paid
<1>1. CASE b \in BothScore(S)
  <2>1. b.mercado = "btts" /\ b.bet.refunds = {}
    BY <1>1 DEF BothScore, Offer
  <2>2. CASE b.selecao = {"sim"} /\ b.bet.wins = BothScored(S)
    BY <2>1, <2>2 DEF settleBilhete, Payout, BothScored, hit
  <2>3. CASE b.selecao = {"nao"} /\ b.bet.wins = S \ BothScored(S)
    BY <2>1, <2>3 DEF settleBilhete, Payout, BothScored, hit
  <2> QED
    BY <1>1, <2>2, <2>3 DEF BothScore, Offer
<1>2. CASE b = ByAdmin(S)
  <2>1. b.mercado = "correct_score" /\ b.bet.refunds = S
    BY <1>2 DEF ByAdmin, Offer
  <2> QED
    BY <2>1 DEF settleBilhete, Payout
<1> QED
  BY <1>1, <1>2

\* Every label on offer, on every score and every line.
LEMMA LabelsPaid ==
  ASSUME NEW S \in SUBSET [home : Nat, away : Nat], NEW lines \in SUBSET Nat,
         NEW b \in Labels(S, lines)
  PROVE  Paid(S, b)
<1>1. \/ b \in Winner(S) \cup DoubleChance(S) \cup DrawNoBet(S)
      \/ b \in BothScore(S) \cup {ByAdmin(S)}
      \/ \E l \in lines : b = Over(S, l) \/ b = Under(S, l)
  BY DEF Labels
<1> QED
  BY <1>1, ResultsPaid, TotalsPaid, OthersPaid

------------------------------------------------------------------------------
LEMMA InitialInv == SettlementInit => SettlementInv
<1> USE SettlementAssumption
<1>1. Goalless \in Scores
  BY DEF Goalless, Scores
<1> QED
  BY <1>1 DEF SettlementInit, SettlementInv, PollInv, CacheInv, WorldInv, RowInv, TicketInv,
     SyncInv, GradeInv, VerdictInv, Exists, Stored, Rest

------------------------------------------------------------------------------
\* The invariant of time, of every behaviour of the matches, the jobs, the feed and the
\* admins, wherever kickoffs move.
THEOREM SettlementInvariant == SettlementSpec => []SettlementInv
<1>1. SettlementInit => SettlementInv
  BY InitialInv
<1>2. SettlementInv /\ [SettlementNext]_settlementVars => SettlementInv'
  BY WorldMoves, PollKept, SyncKept, RowKept, TicketKept, GradeKept, VerdictKept
     DEF SettlementInv
<1> QED
  BY <1>1, <1>2, PTL DEF SettlementSpec

\* The clock stays within its horizon, and only tickets are edited by hand.
LEMMA BoundsKept ==
  ASSUME now \in 0..Horizon, byHand \subseteq Tickets, [SettlementNext]_settlementVars
  PROVE  now' \in 0..Horizon /\ byHand' \subseteq Tickets
<1> USE SettlementAssumption
<1>1. CASE UNCHANGED <<now, byHand>>
  BY <1>1
<1>2. CASE Tick
  BY <1>2 DEF Tick
<1>3. CASE Turn
  BY <1>1, <1>2, <1>3 DEF Turn, Reschedule, Goal
<1>4. ASSUME NEW t \in Tickets, Admin(t) PROVE now' = now /\ byHand' \subseteq byHand \cup {t}
  BY <1>4 DEF Admin, create, update, setResult, setPublished, remove, Edit, AdminStays, world
<1> QED
  BY <1>1, <1>3, <1>4, StepCases, PollFrame, GradeFrame, SyncFrame DEF settlementVars, world

\* The two tables hold rows and verdicts of the schema, whatever the jobs do to them; a
\* run is always at one of its steps.
THEOREM SettlementTypesHold == SettlementSpec => []SettlementTypeOK
<1> DEFINE Bounds == now \in 0..Horizon /\ byHand \subseteq Tickets
<1>1. SettlementInit => Bounds
  BY SettlementAssumption DEF SettlementInit
<1>2. Bounds /\ [SettlementNext]_settlementVars => Bounds'
  BY BoundsKept
<1>3. SettlementInv /\ Bounds => SettlementTypeOK
  BY DEF SettlementInv, PollInv, WorldInv, RowInv, TicketInv, SyncInv, GradeInv, SettlementTypeOK
<1> HIDE DEF Bounds
<1> QED
  BY <1>1, <1>2, <1>3, SettlementInvariant, PTL DEF SettlementSpec

\* Every pick on offer is paid as the bet it stands for, on every score and every line of
\* totals (settle.ts).
THEOREM LabelsArePaid == SettlementSpec => []SettlesAsSold
<1>1. Catalogue \subseteq PaidAsSold
  BY LabelsPaid, SettlementAssumption DEF Catalogue, PaidAsSold, Paid
<1>2. SettlesAsSold
  BY <1>1 DEF SettlesAsSold
<1> QED
  BY <1>2, PTL

\* No ticket left alone by the admins, and sold for its match's kickoff or a later one,
\* ever carries a result that is not its bet's on the stored score, unless the match was
\* put off (settlePending against polls, syncs and generations under way).
THEOREM VerdictsMatchScores == SettlementSpec => []VerdictMatchesScore
<1>0. Catalogue \subseteq PaidAsSold
  BY LabelsPaid, SettlementAssumption DEF Catalogue, PaidAsSold, Paid
<1>1. SettlementInv => VerdictMatchesScore
  <2> SUFFICES ASSUME SettlementInv, NEW t \in Tickets, Exists(t), t \notin byHand,
                      OnTime(bilhete[t].event, bilhete[t].startsAt),
                      bilhete[t].resultado # "pending", Stored(bilhete[t].event)
               PROVE  bilhete[t].resultado =
                        Payout(sportEvent[bilhete[t].event].score, bilhete[t].pick.bet)
    BY DEF VerdictMatchesScore
  <2>1. bilhete[t].pick \in Catalogue /\ bilhete[t].event \in Events
    BY SettlementAssumption DEF SettlementInv, TicketInv, Exists, Ticket
  <2>2. sportEvent[bilhete[t].event].score \in Scorelines
    BY <2>1, SettlementAssumption DEF SettlementInv, RowInv, Stored, EventRow
  <2>3. bilhete[t].resultado =
          settleBilhete(sportEvent[bilhete[t].event].score, bilhete[t].pick)
    BY DEF SettlementInv, VerdictInv, Agrees
  <2> QED
    BY <1>0, <2>1, <2>2, <2>3 DEF PaidAsSold
<1> QED
  BY <1>1, SettlementInvariant, PTL

\* A score is final once the window of a ticket is over that was sold for its match's
\* kickoff or a later one, wherever the kickoff was before (settlePending's cutoff).
THEOREM CapturedScoresAreFinal == SettlementSpec => CapturedScoreIsFinal
<1> DEFINE Final ==
      \A t \in Tickets :
        LET e == bilhete[t].event
        IN Exists(t) /\ Elapsed(t) /\ kickoff[e] <= bilhete[t].startsAt
             /\ sportEvent[e] # NoRow /\ sportEvent'[e] # NoRow
           => sportEvent'[e].score = sportEvent[e].score
<1>1. SettlementInv /\ [SettlementNext]_settlementVars => Final
  <2> SUFFICES ASSUME SettlementInv, [SettlementNext]_settlementVars, NEW t \in Tickets,
                      Exists(t), Elapsed(t), kickoff[bilhete[t].event] <= bilhete[t].startsAt,
                      sportEvent[bilhete[t].event] # NoRow, sportEvent'[bilhete[t].event] # NoRow
               PROVE  sportEvent'[bilhete[t].event].score = sportEvent[bilhete[t].event].score
    OBVIOUS
  <2>1. bilhete[t].event \in Events /\ bilhete[t].startsAt \in Nat
    BY SettlementAssumption DEF SettlementInv, TicketInv, Exists, Ticket
  <2>2. Past(bilhete[t].event)
    BY <2>1, WorldMoves, SettlementAssumption DEF SettlementInv, Moves, Elapsed, Past
  <2> QED
    BY <2>1, <2>2, RowsAreSteady DEF Steady
<1>2. SettlementInv /\ [SettlementNext]_settlementVars => [Final]_settlementVars
  BY <1>1
<1> QED
  BY <1>2, SettlementInvariant, PTL DEF SettlementSpec, CapturedScoreIsFinal

\* No poll ever writes from a list older than its own question.
THEOREM NoStaleLists == SettlementSpec => []NoStaleList
<1>1. SettlementInv => NoStaleList
  BY DEF SettlementInv, PollInv, LiveList, NoStaleList
<1> QED
  BY <1>1, SettlementInvariant, PTL

===============================================================================
