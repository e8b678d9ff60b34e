----------------------------- MODULE MCSettlement -----------------------------
(***************************************************************************)
(* A tick is the least a match lasts; the window of a ticket is two.       *)
(* The catalogue has a label of every kind the feed uses, for teams of     *)
(* which neither name contains the other; tickets are made on two picks:   *)
(* one that wins or is refunded, and one the engine cannot grade.          *)
(***************************************************************************)
EXTENDS Settlement

MCScorelines == [home : 0..3, away : 0..3]

MCLines == 1..5

\* "Menos de 1" wins at 0-0 and is refunded after one goal.
MCPicks == {ByAdmin(MCScorelines), Under(MCScorelines, 2)}

\* A match is put off by as much as it lasts.
MCTimes == {1, 3}

CONSTANTS e1, e2
MCFixtureOf == [t \in Generated |-> e1]
Runs == Permutations(Pollers) \cup Permutations(Graders)

\* Questions and syncs that can change nothing are left out: asking once every match
\* is over, and a sync with no event to add or prune and no ticket to make.
Live == \E e \in Events : kickoff[e] <= now + 1 /\ now < kickoff[e] + FullTime
Prunable == \E e \in Events : sportEvent[e] # NoRow /\ sportEvent[e].startsAt <= now
SyncMatters(daily) == IF Upcoming # {} THEN daily ELSE ~daily /\ Prunable

Poll(p) ==
  \/ Live /\ AskProvider(p)
  \/ ServeCached(p)
  \/ \E writes \in BOOLEAN : CacheAnswer(p, writes)
  \/ \E blank \in SUBSET Events : ProviderAnswers(p, blank)
  \/ \E e \in Events : CaptureScore(p, e)

Sync(y) ==
  \/ \E daily \in BOOLEAN : SyncMatters(daily) /\ FetchUpcoming(y, daily)
  \/ sync[y].pc # "idle" /\ generateDaily(y)

\* Admins are tried where they can meet a job: they make tickets on the first day and
\* change them, but not their fixture or kickoff, once they are due.
Meets(t) ==
  \/ \E row \in Ticket :
       \/ now = 0 /\ row.published /\ row.pick # ByAdmin(Scorelines) /\ create(t, row)
       \/ /\ Exists(t) /\ Elapsed(t)
          /\ row.event = bilhete[t].event /\ row.startsAt = bilhete[t].startsAt
          /\ update(t, row)
  \/ /\ Exists(t) /\ Elapsed(t)
     /\ \/ \E resultado \in {"pending", "green", "red"} : setResult(t, resultado)
        \/ \E published \in BOOLEAN : setPublished(t, published)
        \/ remove(t)

\* Past the horizon the world stops.
Ended == now = Horizon /\ UNCHANGED settlementVars

MCSettlementNext ==
  \/ World \/ Failing \/ Ended
  \/ \E p \in Pollers : Poll(p)
  \/ \E g \in Graders : settlePending(g)
  \/ \E y \in Syncs : Sync(y)
  \/ \E t \in Tickets : Meets(t)

MCSettlementSpec ==
  SettlementInit /\ [][MCSettlementNext]_settlementVars /\ SettlementFairness
===============================================================================
