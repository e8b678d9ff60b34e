-------------------------------- MODULE Settle --------------------------------
(***************************************************************************)
(* The result engine of settle.ts: a ticket's pick graded against a score. *)
(* A selection label is the set of things the code's tests find in it: the *)
(* home or the away team's name, and the words listed in Words.  Lines are *)
(* kept doubled, so that 2.5 is 5.  "pending" stands for the code's null:  *)
(* not graded, left to the admin.                                          *)
(***************************************************************************)
EXTENDS Integers, SequencesExt

Words == {"home", "away", "casa", "fora", "empate", "x", "mais", "menos", "sim", "nao"}
NoLine == -1

winnerOf(s) == IF s.home > s.away THEN "home"
               ELSE IF s.away > s.home THEN "away" ELSE "draw"

hit(won) == IF won THEN "green" ELSE "red"

\* The first test that matches decides.
pick1x2(sel) ==
  LET tests == << <<"draw", {"empate", "x"}>>, <<"home", {"home"}>>, <<"away", {"away"}>>,
                  <<"home", {"casa"}>>, <<"away", {"fora"}>> >>
      first == SelectInSeq(tests, LAMBDA t : t[2] \cap sel # {})
  IN IF first = 0 THEN "none" ELSE tests[first][1]

\* Two of the three must be named, or there is no pair.
pickDoubleChance(sel) ==
  LET hasHome == sel \cap {"casa", "home"} # {}
      hasAway == sel \cap {"fora", "away"} # {}
      hasDraw == "empate" \in sel
  IN IF hasHome /\ hasDraw THEN {"home", "draw"}
     ELSE IF hasAway /\ hasDraw THEN {"away", "draw"}
     ELSE IF hasHome /\ hasAway THEN {"home", "away"} ELSE {}

\* linha, or the number in the label.
lineOf(b) == IF b.linha # NoLine THEN b.linha ELSE b.labelLine

\* Mutant: a total that meets the line loses instead of being a push.
overUnder_NoPush(total, line, sel) ==
  IF line = NoLine \/ sel \cap {"mais", "menos"} = {} THEN "pending"
  ELSE hit(IF "mais" \in sel THEN total > line ELSE total < line)

\* Mutant: a push is a result of its own, one the resultado column has no value for.
overUnder_Void(total, line, sel) ==
  IF line = NoLine \/ sel \cap {"mais", "menos"} = {} THEN "pending"
  ELSE IF total = line THEN "void"
  ELSE hit(IF "mais" \in sel THEN total > line ELSE total < line)

overUnder(total, line, sel) ==
  IF line = NoLine \/ total = line \/ sel \cap {"mais", "menos"} = {} THEN "pending"
  ELSE hit(IF "mais" \in sel THEN total > line ELSE total < line)

settleBilhete(s, b) ==
  LET winner == winnerOf(s)
      pick == pick1x2(b.selecao)
      both == s.home > 0 /\ s.away > 0
  IN CASE b.mercado = "1x2" ->
            IF pick = "none" THEN "pending" ELSE hit(pick = winner)
       [] b.mercado = "over_under" ->
            overUnder(2 * (s.home + s.away), lineOf(b), b.selecao)
       [] b.mercado = "btts" ->
            IF "sim" \in b.selecao THEN hit(both)
            ELSE IF "nao" \in b.selecao THEN hit(~both) ELSE "pending"
       [] b.mercado = "double_chance" ->
            LET pair == pickDoubleChance(b.selecao)
            IN IF pair = {} THEN "pending" ELSE hit(winner \in pair)
       [] b.mercado = "dnb" ->
            IF winner = "draw" \/ pick \notin {"home", "away"} THEN "pending"
            ELSE hit(pick = winner)
       [] OTHER -> "pending"

------------------------------------------------------------------------------
\* What a bet means, apart from how its label is written: the results that win
\* it and those that give the stake back.  Every other result loses.
Payout(s, bet) ==
  IF s \in bet.refunds THEN "pending" ELSE hit(s \in bet.wins)

\* A pick on offer: its label, the line in the feed's field and the one in the label, and
\* the bet the label stands for over the scores of S.
Offer(mercado, selecao, linha, labelLine, wins, refunds) ==
  [mercado |-> mercado, selecao |-> selecao, linha |-> linha, labelLine |-> labelLine,
   bet |-> [wins |-> wins, refunds |-> refunds]]

Won(S, results) == {s \in S : winnerOf(s) \in results}
BothScored(S) == {s \in S : s.home > 0 /\ s.away > 0}
Goals(s) == 2 * (s.home + s.away)

OnResult(S, mercado, selecao, results, refunded) ==
  Offer(mercado, selecao, NoLine, NoLine, Won(S, results), Won(S, refunded))

\* The labels listed in the head of settle.ts, for teams of which neither name contains
\* the other or one of Words.
Winner(S) ==
  {OnResult(S, "1x2", {"home"}, {"home"}, {}), OnResult(S, "1x2", {"away"}, {"away"}, {}),
   OnResult(S, "1x2", {"empate"}, {"draw"}, {}), OnResult(S, "1x2", {"x"}, {"draw"}, {}),
   OnResult(S, "1x2", {"casa"}, {"home"}, {}), OnResult(S, "1x2", {"fora"}, {"away"}, {})}
DoubleChance(S) ==
  {OnResult(S, "double_chance", {"casa", "empate"}, {"home", "draw"}, {}),
   OnResult(S, "double_chance", {"empate", "away"}, {"away", "draw"}, {}),
   OnResult(S, "double_chance", {"casa", "fora"}, {"home", "away"}, {})}
DrawNoBet(S) ==
  {OnResult(S, "dnb", {"home"}, {"home"}, {"draw"}),
   OnResult(S, "dnb", {"away"}, {"away"}, {"draw"})}
Over(S, l) ==
  Offer("over_under", {"mais"}, l, l, {s \in S : Goals(s) > l}, {s \in S : Goals(s) = l})
Under(S, l) ==
  Offer("over_under", {"menos"}, NoLine, l, {s \in S : Goals(s) < l}, {s \in S : Goals(s) = l})
BothScore(S) ==
  {Offer("btts", {"sim"}, NoLine, NoLine, BothScored(S), {}),
   Offer("btts", {"nao"}, NoLine, NoLine, S \ BothScored(S), {})}
\* No rule of the engine: it stays with the admin.
ByAdmin(S) == Offer("correct_score", {}, NoLine, NoLine, {}, S)

Labels(S, lines) ==
  Winner(S) \cup DoubleChance(S) \cup DrawNoBet(S) \cup BothScore(S) \cup {ByAdmin(S)}
    \cup {Over(S, l) : l \in lines} \cup {Under(S, l) : l \in lines}

===============================================================================
