---------------------------- MODULE MCGamification ----------------------------
(***************************************************************************)
(* Small rewards and thresholds, so that a few events cross two levels.    *)
(***************************************************************************)
EXTENDS Gamification, TLC

CONSTANTS firstUnlock, levelTwo, twoDays, firstGreen    \* achievements

MCCriteria ==
  [a \in Achievements |->
    CASE a = firstUnlock -> [type |-> "unlock_count", threshold |-> 1, rewardXp |-> 1]
      [] a = levelTwo    -> [type |-> "level_reached", threshold |-> 2, rewardXp |-> 0]
      [] a = twoDays     -> [type |-> "login_streak", threshold |-> 2, rewardXp |-> 2]
      [] a = firstGreen  -> [type |-> "green_count", threshold |-> 1, rewardXp |-> 1]]

MCXpRewards ==
  ("daily.login" :> 1) @@ ("entrada.unlocked" :> 2) @@ ("entrada.green" :> 3)

MCLevelThresholds == <<0, 2, 5>>

TaskSymmetry == Permutations(Tasks)
===============================================================================
