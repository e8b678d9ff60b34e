-------------------------- MODULE GamificationProofs --------------------------
(***************************************************************************)
(* Proofs about Gamification for any users, tasks, achievements, rewards   *)
(* and number of days.                                                     *)
(*                                                                         *)
(* Three arguments meet in GameInv.  XP: an award adds to the row what it  *)
(* adds to the books.  The streak: what a login read under the user's lock *)
(* is still the row when it writes, so the run of days grows by the day    *)
(* after its last or starts again.  Achievements: level, best streak and   *)
(* unlocks never go down, so a criterion met by a value read earlier stays *)
(* met when the achievement is inserted.                                   *)
(***************************************************************************)
EXTENDS Gamification, FiniteSetTheorems, TLAPS

------------------------------------------------------------------------------
\* Levels and rewards.

LEMMA UpTo ==
  ASSUME NEW n \in Nat
  PROVE  IsFiniteSet(1..n) /\ Cardinality(1..n) = n
<1>1. 1 \in Int /\ n \in Int
  OBVIOUS
<1>2. IsFiniteSet(1..n) /\ Cardinality(1..n) = IF 1 > n THEN 0 ELSE n - 1 + 1
  BY <1>1, FS_Interval, Zenon
<1> QED
  BY <1>2

LEMMA LevelIsOne == levelForXp(0) = 1
<1> DEFINE passed == {i \in DOMAIN LevelThresholds : \A j \in 1..i : 0 >= LevelThresholds[j]}
<1>1. DOMAIN LevelThresholds = 1..Len(LevelThresholds) /\ Len(LevelThresholds) \in Nat
  BY GamificationAssumption
<1>2. 1 \in passed
  BY <1>1, GamificationAssumption
<1>3. ASSUME NEW i \in passed PROVE i = 1
  <2> SUFFICES ASSUME i # 1 PROVE FALSE
    OBVIOUS
  <2>1. i \in 2..Len(LevelThresholds) /\ 0 >= LevelThresholds[i]
    BY <1>1
  <2>2. LevelThresholds[i] \in Nat /\ LevelThresholds[i] > 0
    BY <1>1, <2>1, GamificationAssumption
  <2> QED
    BY <2>1, <2>2
<1>4. passed = {1}
  BY <1>2, <1>3
<1> HIDE DEF passed
<1>5. Cardinality(passed) = 1
  BY <1>4, FS_Singleton
<1> QED
  BY <1>5 DEF levelForXp, passed

\* XP never costs a level, and there is no level the table does not have.
LEMMA LevelGrows ==
  ASSUME NEW x \in Nat, NEW y \in Nat, x <= y
  PROVE  /\ levelForXp(x) \in 1..Len(LevelThresholds)
         /\ levelForXp(x) <= levelForXp(y)
<1> DEFINE passed(z) == {i \in DOMAIN LevelThresholds : \A j \in 1..i : z >= LevelThresholds[j]}
           n == Len(LevelThresholds)
<1>1. DOMAIN LevelThresholds = 1..n /\ n \in Nat /\ \A i \in 1..n : LevelThresholds[i] \in Nat
  BY GamificationAssumption
<1>2. IsFiniteSet(1..n) /\ Cardinality(1..n) = n
  BY <1>1, UpTo
<1>3. \A z : passed(z) \subseteq 1..n
  BY <1>1
<1>4. \A z : IsFiniteSet(passed(z)) /\ Cardinality(passed(z)) \in Nat
             /\ Cardinality(passed(z)) <= n
  BY <1>2, <1>3, FS_Subset, FS_CardinalityType
<1>5. passed(x) \subseteq passed(y)
  BY <1>1
<1>6. Cardinality(passed(x)) <= Cardinality(passed(y))
  BY <1>4, <1>5, FS_Subset
<1>7. 1 \in passed(x)
  BY <1>1, GamificationAssumption
<1>8. Cardinality(passed(x)) # 0
  BY <1>4, <1>7, FS_EmptySet
<1>9. \A z : levelForXp(z) = Cardinality(passed(z))
  BY DEF levelForXp
<1> HIDE DEF passed
<1> QED
  BY <1>1, <1>4, <1>6, <1>8, <1>9

LEMMA BonusIsNat ==
  ASSUME NEW as \in SUBSET Achievements
  PROVE  Bonus(as) \in Nat
<1> DEFINE points(a) == {a} \X (1..Criteria[a].rewardXp)
           all == {points(a) : a \in as}
           f == [a \in as |-> points(a)]
<1>1. IsFiniteSet(as)
  BY GamificationAssumption, FS_Subset
<1>2. ASSUME NEW a \in as PROVE IsFiniteSet(points(a))
  <2>1. Criteria[a].rewardXp \in Nat
    BY GamificationAssumption
  <2>2. IsFiniteSet({a}) /\ IsFiniteSet(1..Criteria[a].rewardXp)
    BY <2>1, FS_Singleton, UpTo
  <2> QED
    BY <2>2, FS_Product
<1> HIDE DEF points
<1>3. f \in Surjection(as, all)
  BY DEF Surjection
<1>4. IsFiniteSet(all)
  BY <1>1, <1>3, FS_Surjection
<1>5. \A s \in all : IsFiniteSet(s)
  BY <1>2
<1>6. IsFiniteSet(UNION all)
  BY <1>4, <1>5, FS_UNION
<1>7. Cardinality(UNION all) \in Nat
  BY <1>6, FS_CardinalityType
<1> QED
  BY <1>7 DEF Bonus, points

------------------------------------------------------------------------------
\* The inductive invariant.

UserRow == [xp : Nat, level : 1..Len(LevelThresholds), lastLoginAt : 0..MaxDay,
            currentLoginStreak : Nat, bestLoginStreak : Nat]
Events == {"daily.login", "entrada.unlocked", "entrada.green"}
TaskRow == [pc : TaskPc, user : Users \cup {NoTask}, event : Events \cup {"none"},
            day : 0..MaxDay, read : UserRow, xp : Nat, streak : Nat, level : Nat,
            owned : SUBSET Achievements, unlocking : SUBSET Achievements,
            entrada : Entradas \cup {NoTask}, buyers : SUBSET Users]

GameTypes ==
  /\ user \in [Users -> UserRow]
  /\ userAchievement \in [Users -> SUBSET Achievements]
  /\ unlocks \subseteq Users \X Entradas
  /\ status \in [Entradas -> {"pending", "green", "red"}]
  /\ xpLock \in [Users -> Tasks \cup {NoTask}]
  /\ streakLock \in [Users -> Tasks \cup {NoTask}]
  /\ task \in [Tasks -> TaskRow]
  /\ today \in 1..MaxDay
  /\ earned \in [Users -> Nat]
  /\ counted \in [Users -> [1..MaxDay -> Nat]]
  /\ \A u \in Users : IsFiniteSet(UnlocksOf(u))

\* What a task holds: whose it is, the lock and the row it read, and values that the
\* user has reached since.
Met(u, a) ==
  Criteria[a].type # "green_count" => Reached(u, Criteria[a].type) >= Criteria[a].threshold
SameStreak(row, other) ==
  /\ row.lastLoginAt = other.lastLoginAt
  /\ row.currentLoginStreak = other.currentLoginStreak
  /\ row.bestLoginStreak = other.bestLoginStreak
Working(k) ==
  /\ task[k].pc \notin {"idle", "buyers", "next"} => task[k].user \in Users
  /\ task[k].pc \in {"user", "award", "awarding"} => task[k].event \in Events
  /\ task[k].pc \in {"streakLock", "streakRead", "streakWrite"} => task[k].day \in 1..MaxDay
  /\ task[k].pc \in {"streakRead", "streakWrite"} => streakLock[task[k].user] = k
  /\ task[k].pc = "streakWrite" => SameStreak(task[k].read, user[task[k].user])
  /\ task[k].pc \in {"award", "awarding", "owned", "measure"} =>
       task[k].streak <= user[task[k].user].bestLoginStreak
  /\ task[k].pc \in {"owned", "measure"} => task[k].level <= user[task[k].user].level
  /\ task[k].pc = "create" =>
       \A u \in Users, a \in task[k].unlocking : u = task[k].user => Met(u, a)

WorkingInv == \A k \in Tasks : Working(k)

BestIsBest == \A u \in Users : user[u].currentLoginStreak <= user[u].bestLoginStreak

GameInv ==
  /\ GameTypes /\ WorkingInv
  /\ XpAccounted /\ StreakIsARun /\ BestIsBest /\ AchievementsAreEarned

StepBy(k) ==
  \/ Step(k) \/ Fail(k)
  \/ \E u \in Users : registerDailyLogin(k, u)
  \/ \E u \in Users, e \in Entradas : onDomainEvent(k, u, e)
  \/ \E e \in Entradas, result \in {"green", "red"} : setResult(k, e, result)

LEMMA StepCases ==
  ASSUME [GamificationNext]_gamificationVars
  PROVE  (\E k \in Tasks : StepBy(k)) \/ NextDay \/ UNCHANGED gamificationVars
  BY DEF GamificationNext, StepBy

LEMMA NewRows == NewUser \in UserRow /\ Idle \in TaskRow
<1>1. 1 \in 1..Len(LevelThresholds) /\ 0 \in 0..MaxDay
  BY GamificationAssumption
<1>2. NewUser \in UserRow
  BY <1>1 DEF NewUser, UserRow
<1>3. Idle \in TaskRow
  BY <1>1, <1>2 DEF Idle, TaskRow, TaskPc
<1> QED
  BY <1>2, <1>3

LEMMA RowTypes ==
  ASSUME NEW row \in UserRow
  PROVE  /\ row.xp \in Nat /\ row.level \in Nat
         /\ row.currentLoginStreak \in Nat /\ row.bestLoginStreak \in Nat
<1>1. row.level \in 1..Len(LevelThresholds)
  BY DEF UserRow
<1>2. row.level \in Nat
  BY <1>1
<1> QED
  BY <1>2 DEF UserRow

------------------------------------------------------------------------------
\* What a step does to the rows.

LEMMA AwardEffect ==
  ASSUME GameTypes, NEW k \in Tasks, NEW u \in Users, u = task[k].user, NEW xp \in Nat,
         Award(k, xp)
  PROVE  /\ user' \in [Users -> UserRow]
         /\ user'[u].xp = user[u].xp + xp
         /\ user'[u].level = levelForXp(user[u].xp + xp)
         /\ user'[u].level >= levelForXp(user[u].xp)
         /\ \A v \in Users : SameStreak(user'[v], user[v])
         /\ \A v \in Users \ {u} : user'[v] = user[v] /\ earned'[v] = earned[v]
         /\ earned'[u] = earned[u] + xp /\ earned' \in [Users -> Nat]
         /\ xpLock' \in [Users -> Tasks \cup {NoTask}]
<1> PICK row, sum, level : /\ row = user[u] /\ sum = user[u].xp + xp
                           /\ level = levelForXp(user[u].xp + xp)
  OBVIOUS
<1> DEFINE r == [row EXCEPT !.xp = sum]  q == [r EXCEPT !.level = level]
<1>1. row \in UserRow /\ row.xp \in Nat /\ sum \in Nat /\ row.xp <= sum
  BY DEF GameTypes, UserRow
<1>2. level \in 1..Len(LevelThresholds) /\ level >= levelForXp(user[u].xp)
  <2>1. PICK old : old = row.xp
    OBVIOUS
  <2>2. old \in Nat /\ sum \in Nat /\ old <= sum /\ sum <= sum
    BY <1>1, <2>1
  <2>3. /\ levelForXp(old) \in 1..Len(LevelThresholds) /\ levelForXp(old) <= levelForXp(sum)
        /\ levelForXp(sum) \in 1..Len(LevelThresholds)
    BY <2>2, LevelGrows, Zenon
  <2>4. levelForXp(old) = levelForXp(user[u].xp) /\ levelForXp(sum) = level
    BY <2>1
  <2> QED
    BY <2>3, <2>4
<1>3. r \in UserRow /\ r.xp = sum /\ SameStreak(r, row)
  BY <1>1 DEF UserRow, SameStreak
<1>4. q = [xp |-> sum, level |-> level, lastLoginAt |-> row.lastLoginAt,
           currentLoginStreak |-> row.currentLoginStreak,
           bestLoginStreak |-> row.bestLoginStreak]
  <2> HIDE DEF r
  <2> QED
    BY <1>3 DEF UserRow, SameStreak
<1>5. q \in UserRow /\ q.xp = sum /\ q.level = level /\ SameStreak(q, row)
  BY <1>1, <1>2, <1>4 DEF UserRow, SameStreak
<1>6. user' = [user EXCEPT ![u] = q]
  <2>1. user' = [user EXCEPT ![u].xp = sum, ![u].level = level]
    BY DEF Award
  <2>2. [user EXCEPT ![u].xp = sum, ![u].level = level] = [user EXCEPT ![u] = q]
    BY DEF GameTypes
  <2> QED
    BY <2>1, <2>2, Zenon
<1> HIDE DEF q
<1>7. /\ user' \in [Users -> UserRow] /\ user'[u] = q
      /\ \A v \in Users \ {u} : user'[v] = user[v]
  BY <1>5, <1>6 DEF GameTypes
<1>8. \A v \in Users : SameStreak(user'[v], user[v])
  BY <1>5, <1>7 DEF SameStreak
<1>9. /\ \A v \in Users \ {u} : earned'[v] = earned[v]
      /\ earned'[u] = earned[u] + xp /\ earned' \in [Users -> Nat]
      /\ xpLock' \in [Users -> Tasks \cup {NoTask}]
  BY DEF Award, GameTypes
<1> QED
  BY <1>2, <1>5, <1>7, <1>8, <1>9

LEMMA StreakEffect ==
  ASSUME GameTypes, NEW k \in Tasks, Working(k), CommitStreak(k),
         NEW u, u = task[k].user, NEW day, day = task[k].day
  PROVE  /\ u \in Users /\ day \in 1..MaxDay
         /\ \/ user' = user /\ counted' = counted
            \/ /\ user[u].lastLoginAt # day
               /\ user' \in [Users -> UserRow]
               /\ user'[u].lastLoginAt = day
               /\ user'[u].currentLoginStreak = NextStreak(user[u], day)
               /\ user'[u].bestLoginStreak >= user[u].bestLoginStreak
               /\ user'[u].bestLoginStreak >= user'[u].currentLoginStreak
               /\ user'[u].xp = user[u].xp /\ user'[u].level = user[u].level
               /\ \A v \in Users \ {u} : user'[v] = user[v]
               /\ counted' = [counted EXCEPT ![u][day] = @ + 1]
<1>1. task[k].pc = "streakWrite" /\ u \in Users /\ day \in 1..MaxDay
      /\ SameStreak(task[k].read, user[u])
  BY DEF CommitStreak, At, Working
<1>2. CASE task[k].read.lastLoginAt = day
  BY <1>1, <1>2 DEF CommitStreak
<1>3. CASE task[k].read.lastLoginAt # day
  <2> PICK row, read, streak, best : /\ row = user[u] /\ read = task[k].read
                                     /\ streak = NextStreak(task[k].read, day)
                                     /\ best = BestStreak(task[k].read.bestLoginStreak, streak)
    OBVIOUS
  <2> DEFINE r == [row EXCEPT !.lastLoginAt = day]
             s == [r EXCEPT !.currentLoginStreak = streak]
             q == [s EXCEPT !.bestLoginStreak = best]
  <2>1. row \in UserRow /\ SameStreak(read, row)
    BY <1>1 DEF GameTypes
  <2>2. streak = NextStreak(row, day) /\ streak \in Nat
    BY <2>1 DEF NextStreak, SameStreak, UserRow
  <2>3. best \in Nat /\ best >= row.bestLoginStreak /\ best >= streak
    <3>1. best = BestStreak(row.bestLoginStreak, streak) /\ row.bestLoginStreak \in Nat
      BY <2>1 DEF SameStreak, UserRow
    <3> QED
      BY <2>2, <3>1 DEF BestStreak
  <2>4. q = [xp |-> row.xp, level |-> row.level, lastLoginAt |-> day,
             currentLoginStreak |-> streak, bestLoginStreak |-> best]
    <3>1. r = [xp |-> row.xp, level |-> row.level, lastLoginAt |-> day,
               currentLoginStreak |-> row.currentLoginStreak,
               bestLoginStreak |-> row.bestLoginStreak]
      BY <2>1 DEF UserRow
    <3> HIDE DEF r
    <3>2. s = [xp |-> row.xp, level |-> row.level, lastLoginAt |-> day,
               currentLoginStreak |-> streak, bestLoginStreak |-> row.bestLoginStreak]
      BY <3>1
    <3> HIDE DEF s
    <3> QED
      BY <3>2
  <2>5. user' = [user EXCEPT ![u] = q]
    <3>1. user' = [user EXCEPT ![u].lastLoginAt = day, ![u].currentLoginStreak = streak,
                               ![u].bestLoginStreak = best]
      BY <1>3 DEF CommitStreak
    <3>2. [user EXCEPT ![u].lastLoginAt = day, ![u].currentLoginStreak = streak,
                       ![u].bestLoginStreak = best] = [user EXCEPT ![u] = q]
      BY <1>1 DEF GameTypes
    <3> QED
      BY <3>1, <3>2, Zenon
  <2> HIDE DEF q
  <2>6. q \in UserRow
    <3>1. day \in 0..MaxDay
      BY <1>1, GamificationAssumption
    <3> QED
      BY <2>1, <2>2, <2>3, <2>4, <3>1 DEF UserRow
  <2>7. /\ user' \in [Users -> UserRow] /\ user'[u] = q
        /\ \A v \in Users \ {u} : user'[v] = user[v]
    BY <1>1, <2>5, <2>6 DEF GameTypes
  <2>8. counted' = [counted EXCEPT ![u][day] = @ + 1]
    BY <1>3 DEF CommitStreak
  <2>9. row.lastLoginAt # day
    BY <1>3, <2>1 DEF SameStreak
  <2>10. /\ q.lastLoginAt = day /\ q.currentLoginStreak = NextStreak(row, day)
         /\ q.bestLoginStreak >= row.bestLoginStreak
         /\ q.bestLoginStreak >= q.currentLoginStreak
         /\ q.xp = row.xp /\ q.level = row.level
    BY <2>2, <2>3, <2>4
  <2> QED
    BY <1>1, <2>7, <2>8, <2>9, <2>10
<1> QED
  BY <1>2, <1>3

\* XP and levels change with an award, the streak with a login that counts.
LEMMA RowCases ==
  ASSUME GameInv, [GamificationNext]_gamificationVars
  PROVE  \/ UNCHANGED <<user, earned, counted>>
         \/ \E k \in Tasks : CommitStreak(k) /\ earned' = earned
         \/ \E k \in Tasks, xp \in Nat :
              Award(k, xp) /\ task[k].user \in Users /\ counted' = counted
<1>1. ASSUME NEW k \in Tasks, AwardEvent(k)
      PROVE  \E xp \in Nat : Award(k, xp) /\ task[k].user \in Users /\ counted' = counted
  <2>1. task[k].user \in Users /\ task[k].event \in Events
    BY <1>1 DEF AwardEvent, At, GameInv, WorkingInv, Working
  <2>2. XpRewards[task[k].event] \in Nat
    BY <2>1, GamificationAssumption DEF Events
  <2> QED
    BY <1>1, <2>1, <2>2 DEF AwardEvent
<1>2. ASSUME NEW k \in Tasks, AwardBonus(k)
      PROVE  \E xp \in Nat : Award(k, xp) /\ task[k].user \in Users /\ counted' = counted
  <2>1. task[k].user \in Users /\ task[k].unlocking \in SUBSET Achievements
    BY <1>2 DEF AwardBonus, At, GameInv, GameTypes, TaskRow, WorkingInv, Working
  <2>2. Bonus(task[k].unlocking) \in Nat
    BY <2>1, BonusIsNat
  <2> QED
    BY <1>2, <2>1, <2>2 DEF AwardBonus
<1>3. ASSUME NEW k \in Tasks, CommitStreak(k) PROVE earned' = earned
  BY <1>3 DEF CommitStreak
<1>4. ASSUME ~ \E k \in Tasks : CommitStreak(k) \/ AwardEvent(k) \/ AwardBonus(k)
      PROVE  UNCHANGED <<user, earned, counted>>
  BY <1>4 DEF GamificationNext, gamificationVars, rows, history, registerDailyLogin,
    onDomainEvent, setResult, NextDay, Fail, Step, LockStreak, ReadStreak, ReadUser, LockXp,
    ReadOwned, Measure, CreateAchievements, FindBuyers, NextBuyer
<1> QED
  BY <1>1, <1>2, <1>3, <1>4

LEMMA UnlocksGrow ==
  ASSUME GameInv, [GamificationNext]_gamificationVars
  PROVE  /\ unlocks' \subseteq Users \X Entradas
         /\ \A u \in Users : /\ IsFiniteSet(UnlocksOf(u)')
                             /\ Cardinality(UnlocksOf(u)) \in Nat
                             /\ Cardinality(UnlocksOf(u)') \in Nat
                             /\ Cardinality(UnlocksOf(u)) <= Cardinality(UnlocksOf(u)')
<1>1. \/ unlocks' = unlocks
      \/ \E u \in Users, e \in Entradas : unlocks' = unlocks \cup {<<u, e>>}
  BY DEF GamificationNext, gamificationVars, rows, registerDailyLogin,
    onDomainEvent, setResult, NextDay, Fail, Step, LockStreak, ReadStreak, CommitStreak,
    ReadUser, LockXp, AwardEvent, ReadOwned, Measure, CreateAchievements, AwardBonus,
    FindBuyers, NextBuyer
<1>2. unlocks' \subseteq Users \X Entradas
  BY <1>1 DEF GameInv, GameTypes
<1>3. ASSUME NEW u \in Users
      PROVE  \/ UnlocksOf(u)' = UnlocksOf(u)
             \/ \E e : UnlocksOf(u)' = UnlocksOf(u) \cup {e}
  <2>1. CASE unlocks' = unlocks
    BY <2>1 DEF UnlocksOf
  <2>2. ASSUME NEW v \in Users, NEW e \in Entradas, unlocks' = unlocks \cup {<<v, e>>}
        PROVE  UnlocksOf(u)' = UnlocksOf(u) \/ UnlocksOf(u)' = UnlocksOf(u) \cup {e}
    BY <2>2 DEF UnlocksOf
  <2> QED
    BY <1>1, <2>1, <2>2
<1>4. ASSUME NEW u \in Users
      PROVE  /\ IsFiniteSet(UnlocksOf(u)')
             /\ Cardinality(UnlocksOf(u)) \in Nat
             /\ Cardinality(UnlocksOf(u)') \in Nat
             /\ Cardinality(UnlocksOf(u)) <= Cardinality(UnlocksOf(u)')
  <2>1. IsFiniteSet(UnlocksOf(u)) /\ Cardinality(UnlocksOf(u)) \in Nat
    BY FS_CardinalityType DEF GameInv, GameTypes
  <2> QED
    BY <1>3, <2>1, FS_AddElement
<1> QED
  BY <1>2, <1>4

\* What an achievement is measured by never goes down.
LEMMA RowsGrow ==
  ASSUME GameInv, [GamificationNext]_gamificationVars
  PROVE  /\ user' \in [Users -> UserRow]
         /\ \A u \in Users : /\ user'[u].level >= user[u].level
                             /\ user'[u].bestLoginStreak >= user[u].bestLoginStreak
<1>0. user \in [Users -> UserRow]
  BY DEF GameInv, GameTypes
<1>1. \A u \in Users : user[u].level \in Nat /\ user[u].bestLoginStreak \in Nat
  BY <1>0, GamificationAssumption DEF UserRow
<1>2. CASE UNCHANGED <<user, earned, counted>>
  BY <1>0, <1>1, <1>2
<1>3. ASSUME NEW k \in Tasks, CommitStreak(k)
      PROVE  /\ user' \in [Users -> UserRow]
             /\ \A u \in Users : /\ user'[u].level >= user[u].level
                                 /\ user'[u].bestLoginStreak >= user[u].bestLoginStreak
  <2> PICK u, day : u = task[k].user /\ day = task[k].day
    OBVIOUS
  <2> QED
    BY <1>0, <1>1, <1>3, StreakEffect DEF GameInv, WorkingInv
<1>4. ASSUME NEW k \in Tasks, NEW xp \in Nat, Award(k, xp), task[k].user \in Users
      PROVE  /\ user' \in [Users -> UserRow]
             /\ \A u \in Users : /\ user'[u].level >= user[u].level
                                 /\ user'[u].bestLoginStreak >= user[u].bestLoginStreak
  <2> PICK u \in Users : u = task[k].user
    BY <1>4
  <2>1. /\ user' \in [Users -> UserRow]
        /\ user'[u].level >= levelForXp(user[u].xp)
        /\ \A v \in Users : SameStreak(user'[v], user[v])
        /\ \A v \in Users \ {u} : user'[v] = user[v]
    BY <1>4, AwardEffect DEF GameInv
  <2>2. levelForXp(user[u].xp) = user[u].level
    BY DEF GameInv, XpAccounted
  <2> QED
    BY <1>1, <2>1, <2>2 DEF SameStreak
<1> QED
  BY <1>2, <1>3, <1>4, RowCases

LEMMA MetStays ==
  ASSUME GameInv, [GamificationNext]_gamificationVars, NEW u \in Users,
         NEW a \in Achievements, Met(u, a)
  PROVE  Met(u, a)'
<1> PICK type, least : type = Criteria[a].type /\ least = Criteria[a].threshold
  OBVIOUS
<1>1. least \in Nat
  BY GamificationAssumption
<1>2. Reached(u, type) \in Int /\ Reached(u, type)' \in Int /\ Reached(u, type) <= Reached(u, type)'
  <2>1. CASE type = "unlock_count"
    BY <2>1, UnlocksGrow DEF Reached
  <2>2. user[u] \in UserRow /\ user'[u] \in UserRow
    BY RowsGrow DEF GameInv, GameTypes
  <2>3. /\ user[u].level \in Int /\ user[u].bestLoginStreak \in Int
        /\ user'[u].level \in Int /\ user'[u].bestLoginStreak \in Int
    BY <2>2 DEF UserRow
  <2>4. CASE type = "level_reached"
    BY <2>3, <2>4, RowsGrow DEF Reached
  <2>5. CASE type = "login_streak"
    BY <2>3, <2>5, RowsGrow DEF Reached
  <2>6. CASE type \notin {"unlock_count", "level_reached", "login_streak"}
    BY <2>6 DEF Reached
  <2> QED
    BY <2>1, <2>4, <2>5, <2>6
<1> QED
  BY <1>1, <1>2 DEF Met

------------------------------------------------------------------------------
\* XP and the streak.

LEMMA XpKept ==
  ASSUME GameInv, [GamificationNext]_gamificationVars
  PROVE  XpAccounted' /\ earned' \in [Users -> Nat]
<1> USE DEF GameInv
<1>1. CASE UNCHANGED <<user, earned, counted>>
  BY <1>1 DEF XpAccounted, GameTypes, levelForXp
<1>2. ASSUME NEW k \in Tasks, CommitStreak(k), earned' = earned
      PROVE  XpAccounted' /\ earned' \in [Users -> Nat]
  <2> PICK u, day : u = task[k].user /\ day = task[k].day
    OBVIOUS
  <2>1. \A v \in Users : user'[v].xp = user[v].xp /\ user'[v].level = user[v].level
    BY <1>2, StreakEffect DEF WorkingInv
  <2> QED
    BY <1>2, <2>1 DEF XpAccounted, GameTypes, levelForXp
<1>3. ASSUME NEW k \in Tasks, NEW xp \in Nat, Award(k, xp), task[k].user \in Users
      PROVE  XpAccounted' /\ earned' \in [Users -> Nat]
  <2> PICK u \in Users : u = task[k].user
    BY <1>3
  <2> PICK sum : sum = user[u].xp + xp
    OBVIOUS
  <2>1. /\ user'[u].xp = sum /\ user'[u].level = levelForXp(sum)
        /\ \A v \in Users \ {u} : user'[v] = user[v] /\ earned'[v] = earned[v]
        /\ earned'[u] = earned[u] + xp /\ earned' \in [Users -> Nat]
    BY <1>3, AwardEffect
  <2>2. user[u].xp = earned[u]
    BY DEF XpAccounted
  <2>3. \A n : levelForXp(n)' = levelForXp(n)
    BY DEF levelForXp
  <2>4. user'[u].xp = earned'[u] /\ user'[u].level = levelForXp(user'[u].xp)
    BY <2>1, <2>2
  <2>5. \A v \in Users \ {u} : user'[v].xp = earned'[v]
                               /\ user'[v].level = levelForXp(user'[v].xp)
    BY <2>1 DEF XpAccounted
  <2> QED
    BY <2>1, <2>3, <2>4, <2>5 DEF XpAccounted
<1> QED
  BY <1>1, <1>2, <1>3, RowCases

\* A login that counts adds the day after the last one to the run, or begins a new run.
LEMMA StreakKept ==
  ASSUME GameInv, [GamificationNext]_gamificationVars
  PROVE  StreakIsARun' /\ BestIsBest' /\ counted' \in [Users -> [1..MaxDay -> Nat]]
<1> USE DEF GameInv
<1>1. CASE UNCHANGED <<user, earned, counted>>
  BY <1>1 DEF StreakIsARun, BestIsBest, GameTypes
<1>2. ASSUME NEW k \in Tasks, CommitStreak(k)
      PROVE  StreakIsARun' /\ BestIsBest' /\ counted' \in [Users -> [1..MaxDay -> Nat]]
  <2> PICK u, day : u = task[k].user /\ day = task[k].day
    OBVIOUS
  <2>1. CASE user' = user /\ counted' = counted
    BY <2>1 DEF StreakIsARun, BestIsBest, GameTypes
  <2>2. CASE ~(user' = user /\ counted' = counted)
    <3>1. /\ u \in Users /\ day \in 1..MaxDay
          /\ user'[u].lastLoginAt = day
          /\ user'[u].currentLoginStreak = NextStreak(user[u], day)
          /\ user'[u].bestLoginStreak >= user'[u].currentLoginStreak
          /\ \A v \in Users \ {u} : user'[v] = user[v]
          /\ counted' = [counted EXCEPT ![u][day] = @ + 1]
      <4>1. GameTypes /\ Working(k)
        BY DEF WorkingInv
      <4>2. /\ u \in Users /\ day \in 1..MaxDay
            /\ \/ user' = user /\ counted' = counted
               \/ /\ user'[u].lastLoginAt = day
                  /\ user'[u].currentLoginStreak = NextStreak(user[u], day)
                  /\ user'[u].bestLoginStreak >= user'[u].currentLoginStreak
                  /\ \A v \in Users \ {u} : user'[v] = user[v]
                  /\ counted' = [counted EXCEPT ![u][day] = @ + 1]
        BY <1>2, <4>1, StreakEffect, SMTT(20)
      <4> QED
        BY <2>2, <4>2
    <3>2. /\ counted' \in [Users -> [1..MaxDay -> Nat]]
          /\ counted'[u][day] > 0
          /\ \A v \in Users, d \in 1..MaxDay : counted[v][d] > 0 => counted'[v][d] > 0
      <4>d. PICK D, f, g : D = 1..MaxDay /\ f = counted /\ g = counted'
        OBVIOUS
      <4>c. PICK c : c = [f[u] EXCEPT ![day] = f[u][day] + 1]
        OBVIOUS
      <4>1. /\ f \in [Users -> [D -> Nat]] /\ u \in Users /\ day \in D
            /\ g = [f EXCEPT ![u] = c]
        BY <3>1, <4>d, <4>c DEF GameTypes
      <4>2. /\ g \in [Users -> [D -> Nat]] /\ g[u][day] > 0
            /\ \A v \in Users, d \in D : f[v][d] > 0 => g[v][d] > 0
        <5>1. f[u] \in [D -> Nat] /\ f[u][day] \in Nat
          BY <4>1
        <5>2. /\ c \in [D -> Nat] /\ c[day] = f[u][day] + 1
              /\ \A d \in D \ {day} : c[d] = f[u][d]
          BY <4>1, <4>c, <5>1
        <5>3. g \in [Users -> [D -> Nat]] /\ g[u] = c /\ \A v \in Users \ {u} : g[v] = f[v]
          BY <4>1, <5>2
        <5>4. c[day] > 0
          BY <5>1, <5>2
        <5> QED
          BY <5>2, <5>3, <5>4
      <4> QED
        BY <4>d, <4>2
    <3>3. BestIsBest'
      BY <3>1 DEF BestIsBest
    <3> PICK row, last, streak : /\ row = user[u] /\ last = user[u].lastLoginAt
                                 /\ streak = user[u].currentLoginStreak
      OBVIOUS
    <3>4. last \in 0..MaxDay /\ streak \in Nat /\ MaxDay \in Nat
      BY <3>1, GamificationAssumption DEF GameTypes, UserRow
    <3>5. last # 0 => /\ last - streak + 1 \in 1..last
                      /\ \A d \in (last - streak + 1)..last : counted'[u][d] > 0
      <4> HAVE last # 0
      <4>1. /\ last - streak + 1 \in 1..last
            /\ \A d \in (last - streak + 1)..last : counted[u][d] > 0
        BY <3>1, Zenon DEF StreakIsARun
      <4>2. ASSUME NEW d \in (last - streak + 1)..last PROVE counted'[u][d] > 0
        <5>1. d \in 1..MaxDay
          BY <3>4, <4>1
        <5>2. counted[u][d] > 0
          BY <4>1
        <5> QED
          BY <3>1, <3>2, <5>1, <5>2
      <4> QED
        BY <4>1, <4>2
    <3> PICK next : next = NextStreak(user[u], day)
      OBVIOUS
    <3>6. IF last = day - 1 /\ last # 0 THEN next = streak + 1 ELSE next = 1
      BY DEF NextStreak
    <3>7. /\ day - next + 1 \in 1..day
          /\ \A d \in (day - next + 1)..day : counted'[u][d] > 0
      <4>1. CASE last = day - 1 /\ last # 0
        <5>1. day - next + 1 = last - streak + 1
          BY <3>1, <3>4, <3>6, <4>1
        <5>2. \A d \in (day - next + 1)..day : d \in (last - streak + 1)..last \/ d = day
          BY <3>1, <3>4, <3>5, <4>1, <5>1
        <5> QED
          BY <3>1, <3>2, <3>4, <3>5, <4>1, <5>1, <5>2, SMTT(20)
      <4>2. CASE ~(last = day - 1 /\ last # 0)
        BY <3>1, <3>2, <3>6, <4>2
      <4> QED
        BY <4>1, <4>2
    <3>8. StreakIsARun'
      <4> SUFFICES ASSUME NEW v \in Users, user'[v].lastLoginAt # 0
                   PROVE  LET l == user'[v].lastLoginAt
                              f == l - user'[v].currentLoginStreak + 1
                          IN  f \in 1..l /\ \A d \in f..l : counted'[v][d] > 0
        BY DEF StreakIsARun
      <4>1. CASE v = u
        BY <3>1, <3>7, <4>1
      <4>2. CASE v # u
        <5>1. user'[v] = user[v] /\ user[v] \in UserRow /\ user[v].lastLoginAt # 0
          BY <3>1, <4>2 DEF GameTypes
        <5>2. user[v].lastLoginAt \in 1..MaxDay /\ user[v].currentLoginStreak \in Nat
          BY <3>4, <5>1 DEF UserRow
        <5> QED
          BY <3>2, <3>4, <5>1, <5>2 DEF StreakIsARun
      <4> QED
        BY <4>1, <4>2
    <3> QED
      BY <3>2, <3>3, <3>8
  <2> QED
    BY <2>1, <2>2
<1>3. ASSUME NEW k \in Tasks, NEW xp \in Nat, Award(k, xp), task[k].user \in Users,
             counted' = counted
      PROVE  StreakIsARun' /\ BestIsBest' /\ counted' \in [Users -> [1..MaxDay -> Nat]]
  <2> PICK u \in Users : u = task[k].user
    BY <1>3
  <2>1. \A v \in Users : SameStreak(user'[v], user[v])
    BY <1>3, AwardEffect
  <2> QED
    BY <1>3, <2>1 DEF StreakIsARun, BestIsBest, SameStreak, GameTypes
<1> QED
  BY <1>1, <1>2, <1>3, RowCases

------------------------------------------------------------------------------
\* The tasks.

LEMMA OthersStay ==
  ASSUME GameInv, NEW k \in Tasks, StepBy(k), NEW v \in Tasks \ {k}
  PROVE  /\ task'[v] = task[v]
         /\ \A u \in Users : streakLock[u] = v => streakLock'[u] = v
<1>1. task'[v] = task[v]
  <2>1. task' = task \/ \E t : task' = [task EXCEPT ![k] = t]
    BY DEF StepBy, Step, Fail, registerDailyLogin, onDomainEvent, setResult, LockStreak,
      ReadStreak, CommitStreak, ReadUser, LockXp, AwardEvent, ReadOwned, Measure,
      CreateAchievements, AwardBonus, FindBuyers, NextBuyer, Goto
  <2> QED
    BY <2>1 DEF GameInv, GameTypes
<1>2. ASSUME NEW u \in Users, streakLock[u] = v PROVE streakLock'[u] = v
  <2>1. v # NoTask /\ v # k
    BY GamificationAssumption
  <2>2. CASE LockStreak(k)
    BY <1>2, <2>1, <2>2 DEF LockStreak, GameInv, GameTypes
  <2>3. CASE CommitStreak(k) \/ Fail(k)
    BY <1>2, <2>1, <2>3 DEF CommitStreak, Fail, ReleaseStreak
  <2>4. CASE ~(LockStreak(k) \/ CommitStreak(k) \/ Fail(k))
    BY <1>2, <2>4 DEF StepBy, Step, registerDailyLogin, onDomainEvent, setResult,
      ReadStreak, ReadUser, LockXp, AwardEvent, ReadOwned, Measure, CreateAchievements,
      AwardBonus, FindBuyers, NextBuyer, locks
  <2> QED
    BY <2>2, <2>3, <2>4
<1> QED
  BY <1>1, <1>2

\* A row that task v has read under the user's lock is changed by no other login.
LEMMA OthersStreak ==
  ASSUME GameInv, NEW k \in Tasks, StepBy(k), NEW v \in Tasks \ {k},
         NEW u \in Users, streakLock[u] = v
  PROVE  SameStreak(user'[u], user[u])
<1> USE DEF GameInv
<1>0. [GamificationNext]_gamificationVars
  BY DEF GamificationNext, StepBy
<1>1. CASE UNCHANGED <<user, earned, counted>>
  BY <1>1 DEF SameStreak
<1>2. ASSUME NEW x \in Tasks, CommitStreak(x) PROVE SameStreak(user'[u], user[u])
  <2>1. x = k
    <3>1. task[x].pc = "streakWrite" /\ task[x] \in TaskRow
      BY <1>2 DEF CommitStreak, At, GameTypes
    <3>2. task'[x] # task[x]
      <4>1. \E t : task' = [task EXCEPT ![x] = t] /\ t.pc \in {"idle", "user"}
        <5>1. Idle.pc = "idle"
          BY DEF Idle
        <5>2. [Idle EXCEPT !.pc = "user", !.user = task[x].user, !.event = "daily.login"].pc
                = "user"
          BY DEF Idle
        <5> QED
          BY <1>2, <5>1, <5>2 DEF CommitStreak
      <4> QED
        BY <3>1, <4>1 DEF GameTypes
    <3> QED
      BY <3>2, OthersStay
  <2>2. streakLock[task[k].user] = k
    BY <1>2, <2>1 DEF CommitStreak, At, WorkingInv, Working
  <2>3. PICK w, day : w = task[k].user /\ day = task[k].day
    OBVIOUS
  <2>4. w # u
    BY <2>2, <2>3
  <2>5. user'[u] = user[u]
    BY <1>2, <2>1, <2>3, <2>4, StreakEffect DEF WorkingInv
  <2> QED
    BY <2>5 DEF SameStreak
<1>3. ASSUME NEW x \in Tasks, NEW xp \in Nat, Award(x, xp), task[x].user \in Users
      PROVE  SameStreak(user'[u], user[u])
  <2>1. PICK w \in Users : w = task[x].user
    BY <1>3
  <2> QED
    BY <1>3, <2>1, AwardEffect
<1> QED
  BY <1>0, <1>1, <1>2, <1>3, RowCases

LEMMA OthersWork ==
  ASSUME GameInv, NEW k \in Tasks, StepBy(k), NEW v \in Tasks \ {k}
  PROVE  Working(v)'
<1> USE DEF GameInv
<1>0. [GamificationNext]_gamificationVars
  BY DEF GamificationNext, StepBy
<1>1. PICK t : t = task[v]
  OBVIOUS
<1>2. task'[v] = t /\ Working(v) /\ t \in TaskRow
  BY <1>1, OthersStay DEF WorkingInv, GameTypes
<1>3. t.user \notin Users => Working(v)'
  BY <1>1, <1>2 DEF Working, TaskPc, TaskRow
<1>4. ASSUME t.user \in Users PROVE Working(v)'
  <2>1. PICK u \in Users : u = t.user
    BY <1>4
  <2>2. /\ user[u] \in UserRow /\ user'[u] \in UserRow
        /\ user'[u].level >= user[u].level
        /\ user'[u].bestLoginStreak >= user[u].bestLoginStreak
    BY <1>0, RowsGrow DEF GameTypes
  <2>3. /\ user[u].level \in Nat /\ user'[u].level \in Nat
        /\ user[u].bestLoginStreak \in Nat /\ user'[u].bestLoginStreak \in Nat
    BY <2>2, RowTypes
  <2>4. t.streak \in Nat /\ t.level \in Nat /\ t.unlocking \subseteq Achievements
    BY <1>2 DEF TaskRow
  <2>5. t.pc \in {"streakRead", "streakWrite"} =>
          streakLock'[u] = v /\ SameStreak(user'[u], user[u])
    BY <1>1, <1>2, <2>1, OthersStay, OthersStreak DEF Working
  <2>6. t.pc = "streakWrite" => SameStreak(t.read, user'[u])
    BY <1>1, <1>2, <2>1, <2>5 DEF Working, SameStreak
  <2>7. \A w \in Users, a \in Achievements : Met(w, a) => Met(w, a)'
    BY <1>0, MetStays
  <2>8. t.pc = "create" =>
          \A w \in Users, a \in t.unlocking : w = t.user => Met(w, a)'
    BY <1>1, <1>2, <2>4, <2>7 DEF Working
  <2>9. /\ t.pc \in {"award", "awarding", "owned", "measure"} =>
             t.streak <= user'[u].bestLoginStreak
        /\ t.pc \in {"owned", "measure"} => t.level <= user'[u].level
    BY <1>1, <1>2, <2>1, <2>2, <2>3, <2>4 DEF Working
  <2> QED
    BY <1>1, <1>2, <2>1, <2>5, <2>6, <2>8, <2>9 DEF Working
<1> QED
  BY <1>3, <1>4

LEMMA NewTask ==
  ASSUME GameTypes, NEW k \in Tasks, NEW t \in TaskRow, task' = [task EXCEPT ![k] = t]
  PROVE  task' \in [Tasks -> TaskRow] /\ task'[k] = t
  BY DEF GameTypes

LEMMA GotoEffect ==
  ASSUME GameTypes, NEW k \in Tasks, NEW pc \in TaskPc, Goto(k, pc)
  PROVE  /\ task' \in [Tasks -> TaskRow]
         /\ task'[k].pc = pc /\ task'[k].user = task[k].user /\ task'[k].event = task[k].event
         /\ task'[k].day = task[k].day /\ task'[k].streak = task[k].streak
         /\ task'[k].level = task[k].level /\ task'[k].unlocking = task[k].unlocking
  BY ZenonT(60) DEF GameTypes, Goto, TaskRow

\* What the row read leaves in the task.
LEMMA ReadEffect ==
  ASSUME GameTypes, NEW k \in Tasks
  PROVE  /\ ReadStreak(k) => /\ Me(k) \in UserRow => task' \in [Tasks -> TaskRow]
                             /\ task'[k].pc = "streakWrite" /\ task'[k].read = Me(k)
                             /\ task'[k].user = task[k].user /\ task'[k].day = task[k].day
         /\ ReadUser(k) => /\ Me(k) \in UserRow => task' \in [Tasks -> TaskRow]
                           /\ task'[k].pc = "award" /\ task'[k].user = task[k].user
                           /\ task'[k].event = task[k].event
                           /\ task'[k].streak = Me(k).currentLoginStreak
         /\ ReadOwned(k) => /\ task[k].user \in Users => task' \in [Tasks -> TaskRow]
                            /\ task'[k].pc = "measure" /\ task'[k].user = task[k].user
                            /\ task'[k].streak = task[k].streak
                            /\ task'[k].level = task[k].level
<1> PICK t : t = task[k]
  OBVIOUS
<1>1. t \in TaskRow
  BY DEF GameTypes
<1>2. ASSUME ReadStreak(k)
      PROVE  /\ Me(k) \in UserRow => task' \in [Tasks -> TaskRow]
             /\ task'[k].pc = "streakWrite" /\ task'[k].read = Me(k)
             /\ task'[k].user = task[k].user /\ task'[k].day = task[k].day
  <2>m. PICK me : me = Me(k)
    OBVIOUS
  <2>1. task' = [task EXCEPT ![k].pc = "streakWrite", ![k].read = me]
    BY <1>2, <2>m DEF ReadStreak
  <2> QED
    BY <1>1, <2>m, <2>1 DEF GameTypes, TaskRow, TaskPc
<1>3. ASSUME ReadUser(k)
      PROVE  /\ Me(k) \in UserRow => task' \in [Tasks -> TaskRow]
             /\ task'[k].pc = "award" /\ task'[k].user = task[k].user
             /\ task'[k].event = task[k].event
             /\ task'[k].streak = Me(k).currentLoginStreak
  <2>m. PICK xp, streak : xp = Me(k).xp /\ streak = Me(k).currentLoginStreak
    OBVIOUS
  <2>1. task' = [task EXCEPT ![k].pc = "award", ![k].xp = xp, ![k].streak = streak]
    BY <1>3, <2>m DEF ReadUser
  <2>2. Me(k) \in UserRow => xp \in Nat /\ streak \in Nat
    BY <2>m DEF UserRow
  <2> QED
    BY <1>1, <2>m, <2>1, <2>2 DEF GameTypes, TaskRow, TaskPc
<1>4. ASSUME ReadOwned(k)
      PROVE  /\ task[k].user \in Users => task' \in [Tasks -> TaskRow]
             /\ task'[k].pc = "measure" /\ task'[k].user = task[k].user
             /\ task'[k].streak = task[k].streak /\ task'[k].level = task[k].level
  <2>m. PICK owned : owned = userAchievement[task[k].user]
    OBVIOUS
  <2>1. task' = [task EXCEPT ![k].pc = "measure", ![k].owned = owned]
    BY <1>4, <2>m DEF ReadOwned
  <2>2. task[k].user \in Users => owned \in SUBSET Achievements
    BY <2>m DEF GameTypes
  <2> QED
    BY <1>1, <2>m, <2>1, <2>2 DEF GameTypes, TaskRow, TaskPc
<1> QED
  BY <1>2, <1>3, <1>4

\* What is measured is a level or streak the user has reached, or what is there now.
LEMMA MeasuredIsReached ==
  ASSUME GameInv, NEW k \in Tasks, task[k].pc = "measure", NEW a \in Achievements,
         measure(k, Criteria[a].type) >= Criteria[a].threshold,
         NEW u \in Users, u = task[k].user
  PROVE  Met(u, a)
<1> USE DEF GameInv
<1> PICK type, least : type = Criteria[a].type /\ least = Criteria[a].threshold
  OBVIOUS
<1>1. least \in Nat
  BY GamificationAssumption
<1>2. user[u] \in UserRow /\ task[k] \in TaskRow
  BY DEF GameTypes
<1>3. /\ user[u].level \in Nat /\ user[u].bestLoginStreak \in Nat
      /\ task[k].streak \in Nat /\ task[k].level \in Nat
  BY <1>2, RowTypes DEF TaskRow
<1>4. task[k].streak <= user[u].bestLoginStreak /\ task[k].level <= user[u].level
  BY DEF WorkingInv, Working
<1>5. CASE type = "unlock_count"
  BY <1>5 DEF measure, Reached, Met
<1>6. CASE type = "green_count"
  BY <1>6 DEF Met
<1>7. CASE type = "level_reached"
  BY <1>1, <1>3, <1>4, <1>7 DEF measure, Reached, Met
<1>8. CASE type = "login_streak"
  BY <1>1, <1>3, <1>4, <1>8 DEF measure, Reached, Met
<1>9. CASE type \notin {"unlock_count", "green_count", "level_reached", "login_streak"}
  BY <1>9 DEF measure, Reached, Met
<1> QED
  BY <1>5, <1>6, <1>7, <1>8, <1>9

LEMMA OwnWork ==
  ASSUME GameInv, NEW k \in Tasks, StepBy(k)
  PROVE  task' \in [Tasks -> TaskRow] /\ Working(k)'
<1> USE DEF GameInv
<1>0. /\ Working(k) /\ task[k] \in TaskRow /\ GameTypes
      /\ task[k].user \in Users => Me(k) \in UserRow
      /\ [GamificationNext]_gamificationVars
  BY DEF WorkingInv, GameTypes, Me, GamificationNext, StepBy
<1>1. ASSUME NEW u \in Users, registerDailyLogin(k, u)
      PROVE  task' \in [Tasks -> TaskRow] /\ Working(k)'
  <2>1. today \in 1..MaxDay /\ today \in 0..MaxDay
    BY GamificationAssumption DEF GameTypes
  <2>2. PICK t : t = [Idle EXCEPT !.pc = "streakLock", !.user = u, !.day = today]
    OBVIOUS
  <2>3. PICK day : day = today
    OBVIOUS
  <2>4. t \in TaskRow /\ t.pc = "streakLock" /\ t.user = u /\ t.day = day
    BY <2>1, <2>2, <2>3, NewRows DEF Idle, TaskRow, TaskPc
  <2>5. task' = [task EXCEPT ![k] = t]
    BY <1>1, <2>2 DEF registerDailyLogin
  <2> QED
    BY <1>0, <2>1, <2>3, <2>4, <2>5, NewTask DEF Working
<1>2. CASE LockStreak(k)
  <2>1. /\ task[k].pc = "streakLock" /\ Goto(k, "streakRead")
        /\ streakLock' = [streakLock EXCEPT ![task[k].user] = k]
    BY <1>2 DEF LockStreak, At
  <2>2. streakLock'[task[k].user] = k
    BY <1>0, <2>1 DEF Working, GameTypes
  <2> QED
    BY <1>0, <2>1, <2>2, GotoEffect DEF Working, TaskPc
<1>3. CASE ReadStreak(k)
  <2>1. /\ task[k].pc = "streakRead" /\ streakLock' = streakLock /\ user' = user
    BY <1>3 DEF ReadStreak, At, rows, locks
  <2>2. /\ task' \in [Tasks -> TaskRow] /\ task'[k].pc = "streakWrite"
        /\ task'[k].read = user[task[k].user]
        /\ task'[k].user = task[k].user /\ task'[k].day = task[k].day
    BY <1>0, <1>3, <2>1, ReadEffect DEF Working, Me
  <2> QED
    BY <1>0, <2>1, <2>2 DEF Working, SameStreak
<1>4. CASE CommitStreak(k)
  <2>1. task[k].user \in Users
    BY <1>0, <1>4 DEF CommitStreak, At, Working
  <2>2. PICK u, t : /\ u \in Users /\ u = task[k].user
                    /\ t = [Idle EXCEPT !.pc = "user", !.user = u, !.event = "daily.login"]
    BY <2>1
  <2>3. task' = [task EXCEPT ![k] = Idle] \/ task' = [task EXCEPT ![k] = t]
    BY <1>4, <2>2 DEF CommitStreak
  <2>4. /\ u \in Users
        /\ t \in TaskRow /\ t.pc = "user" /\ t.user = u /\ t.event \in Events
    BY <2>2, NewRows DEF Idle, TaskRow, TaskPc, Events
  <2>5. Idle \in TaskRow /\ Idle.pc = "idle"
    BY NewRows DEF Idle
  <2>6. task' \in [Tasks -> TaskRow] /\ (task'[k] = t \/ task'[k] = Idle)
    BY <1>0, <2>3, <2>4, <2>5, NewTask
  <2> QED
    BY <2>4, <2>5, <2>6 DEF Working
<1>5. CASE ReadUser(k)
  <2>1. task[k].pc = "user" /\ user' = user
    BY <1>5 DEF ReadUser, At, rows
  <2>2. PICK u \in Users : u = task[k].user
    BY <1>0, <2>1 DEF Working
  <2>3. /\ task' \in [Tasks -> TaskRow] /\ task'[k].pc = "award"
        /\ task'[k].user = u /\ task'[k].event = task[k].event
        /\ task'[k].streak = user[u].currentLoginStreak
    BY <1>0, <1>5, <2>2, ReadEffect DEF Me
  <2>4. user[u].currentLoginStreak <= user[u].bestLoginStreak
    BY DEF BestIsBest
  <2> QED
    BY <1>0, <2>1, <2>3, <2>4 DEF Working
<1>6. CASE LockXp(k)
  <2>1. \/ task[k].pc = "award" /\ Goto(k, "awarding")
        \/ task[k].pc = "bonus" /\ Goto(k, "rewarding")
    BY <1>6 DEF LockXp, At
  <2>2. user' = user
    BY <1>6 DEF LockXp, rows
  <2> QED
    BY <1>0, <2>1, <2>2, GotoEffect DEF Working, TaskPc
<1>7. CASE AwardEvent(k)
  <2>1. task[k].pc = "awarding"
    BY <1>7 DEF AwardEvent, At
  <2>2. PICK u \in Users : u = task[k].user
    BY <1>0, <2>1 DEF Working
  <2>3. PICK xp : xp = XpRewards[task[k].event]
    OBVIOUS
  <2>4. xp \in Nat /\ Award(k, xp)
    BY <1>0, <1>7, <2>1, <2>3, GamificationAssumption DEF Working, Events, AwardEvent
  <2>5. PICK level, streak, buyers, t :
          /\ level = levelForXp(Me(k).xp + XpRewards[task[k].event])
          /\ streak = task[k].streak /\ buyers = task[k].buyers
          /\ t = [Idle EXCEPT !.pc = "owned", !.user = u, !.buyers = buyers,
                              !.level = level, !.streak = streak]
    OBVIOUS
  <2>6. task' = [task EXCEPT ![k] = t]
    BY <1>7, <2>2, <2>5 DEF AwardEvent
  <2>7. /\ user' \in [Users -> UserRow] /\ user'[u].level = level
        /\ SameStreak(user'[u], user[u])
    BY <1>0, <2>2, <2>3, <2>4, <2>5, AwardEffect DEF Me
  <2>8. level \in Nat /\ streak \in Nat /\ buyers \in SUBSET Users
    BY <1>0, <2>5, <2>7, RowTypes DEF TaskRow
  <2>9. t \in TaskRow /\ t.pc = "owned" /\ t.user = u /\ t.level = level /\ t.streak = streak
    BY <2>5, <2>8, NewRows, ZenonT(60) DEF Idle, TaskRow, TaskPc
  <2>10. task' \in [Tasks -> TaskRow] /\ task'[k] = t
    BY <1>0, <2>6, <2>9, NewTask
  <2>11. streak <= user'[u].bestLoginStreak /\ level <= user'[u].level
    BY <1>0, <2>1, <2>2, <2>5, <2>7, <2>8 DEF Working, SameStreak
  <2> QED
    BY <2>9, <2>10, <2>11 DEF Working
<1>8. CASE ReadOwned(k)
  <2>1. task[k].pc = "owned" /\ user' = user
    BY <1>8 DEF ReadOwned, At, rows
  <2>2. /\ task' \in [Tasks -> TaskRow] /\ task'[k].pc = "measure"
        /\ task'[k].user = task[k].user /\ task'[k].streak = task[k].streak
        /\ task'[k].level = task[k].level
    BY <1>0, <1>8, <2>1, ReadEffect DEF Working
  <2> QED
    BY <1>0, <2>1, <2>2 DEF Working
<1>9. CASE Measure(k)
  <2>1. task[k].pc = "measure"
    BY <1>9 DEF Measure, At
  <2>2. PICK u \in Users : u = task[k].user
    BY <1>0, <2>1 DEF Working
  <2>3. PICK new, pc, buyers, t :
          /\ new = {a \in Achievements \ task[k].owned :
                      measure(k, Criteria[a].type) >= Criteria[a].threshold}
          /\ pc = (IF new = {} THEN "next" ELSE "create") /\ buyers = task[k].buyers
          /\ t = [Idle EXCEPT !.pc = pc, !.user = u, !.unlocking = new, !.buyers = buyers]
    OBVIOUS
  <2>4. task' = [task EXCEPT ![k] = t]
    BY <1>9, <2>2, <2>3 DEF Measure
  <2>5. /\ new \in SUBSET Achievements /\ buyers \in SUBSET Users /\ pc \in {"next", "create"}
    BY <1>0, <2>3 DEF TaskRow
  <2>6. t \in TaskRow /\ t.pc = pc /\ t.user = u /\ t.unlocking = new
    BY <2>3, <2>5, NewRows, ZenonT(60) DEF Idle, TaskRow, TaskPc
  <2>7. task' \in [Tasks -> TaskRow] /\ task'[k] = t
    BY <1>0, <2>4, <2>6, NewTask
  <2>8. \A w \in Users, a \in new : w = u => Met(w, a)'
    <3> SUFFICES ASSUME NEW w \in Users, NEW a \in new, w = u PROVE Met(w, a)'
      OBVIOUS
    <3>1. a \in Achievements /\ measure(k, Criteria[a].type) >= Criteria[a].threshold
      BY <2>3
    <3>2. Met(w, a)
      BY <2>1, <2>2, <3>1, MeasuredIsReached
    <3> QED
      BY <1>0, <3>1, <3>2, MetStays
  <2> QED
    BY <2>5, <2>6, <2>7, <2>8 DEF Working
<1>10. CASE CreateAchievements(k)
  <2>1. task[k].pc = "create" /\ (Goto(k, "bonus") \/ Goto(k, "next"))
    BY <1>10 DEF CreateAchievements, At
  <2> QED
    BY <1>0, <2>1, GotoEffect DEF Working, TaskPc
<1>11. CASE AwardBonus(k)
  <2>1. PICK buyers, t : /\ buyers = task[k].buyers
                         /\ t = [Idle EXCEPT !.pc = "next", !.buyers = buyers]
    OBVIOUS
  <2>2. task' = [task EXCEPT ![k] = t] /\ buyers \in SUBSET Users
    BY <1>0, <1>11, <2>1 DEF AwardBonus, TaskRow
  <2>3. t \in TaskRow /\ t.pc = "next"
    BY <2>1, <2>2, NewRows DEF Idle, TaskRow, TaskPc
  <2>4. task' \in [Tasks -> TaskRow] /\ task'[k] = t
    BY <1>0, <2>2, <2>3, NewTask
  <2> QED
    BY <2>3, <2>4 DEF Working
<1>12. CASE FindBuyers(k)
  <2>1. PICK buyers, t : /\ buyers = {u \in Users : <<u, task[k].entrada>> \in unlocks}
                         /\ t = [Idle EXCEPT !.pc = "next", !.buyers = buyers]
    OBVIOUS
  <2>2. task' = [task EXCEPT ![k] = t] /\ buyers \in SUBSET Users
    BY <1>12, <2>1 DEF FindBuyers
  <2>3. t \in TaskRow /\ t.pc = "next"
    BY <2>1, <2>2, NewRows DEF Idle, TaskRow, TaskPc
  <2>4. task' \in [Tasks -> TaskRow] /\ task'[k] = t
    BY <1>0, <2>2, <2>3, NewTask
  <2> QED
    BY <2>3, <2>4 DEF Working
<1>13. CASE NextBuyer(k) /\ task[k].buyers # {}
  <2>1. PICK u \in task[k].buyers : task' = [task EXCEPT ![k] =
            [Idle EXCEPT !.pc = "user", !.user = u, !.event = "entrada.green",
                         !.buyers = task[k].buyers \ {u}]]
    BY <1>13 DEF NextBuyer
  <2>2. PICK buyers, t : /\ buyers = task[k].buyers \ {u}
                         /\ t = [Idle EXCEPT !.pc = "user", !.user = u,
                                             !.event = "entrada.green", !.buyers = buyers]
    OBVIOUS
  <2>3. task' = [task EXCEPT ![k] = t] /\ buyers \in SUBSET Users /\ u \in Users
    BY <1>0, <2>1, <2>2 DEF TaskRow
  <2>4. t \in TaskRow /\ t.pc = "user" /\ t.user = u /\ t.event \in Events
    BY <2>2, <2>3, NewRows DEF Idle, TaskRow, TaskPc, Events
  <2>5. task' \in [Tasks -> TaskRow] /\ task'[k] = t
    BY <1>0, <2>3, <2>4, NewTask
  <2> QED
    BY <2>3, <2>4, <2>5 DEF Working
<1>14. ASSUME NEW u \in Users, NEW e \in Entradas, onDomainEvent(k, u, e)
       PROVE  task' \in [Tasks -> TaskRow] /\ Working(k)'
  <2>1. PICK t : t = [Idle EXCEPT !.pc = "user", !.user = u, !.event = "entrada.unlocked"]
    OBVIOUS
  <2>2. task' = [task EXCEPT ![k] = t]
    BY <1>14, <2>1 DEF onDomainEvent
  <2>3. t \in TaskRow /\ t.pc = "user" /\ t.user = u /\ t.event \in Events
    BY <2>1, NewRows DEF Idle, TaskRow, TaskPc, Events
  <2>4. task' \in [Tasks -> TaskRow] /\ task'[k] = t
    BY <1>0, <2>2, <2>3, NewTask
  <2> QED
    BY <2>3, <2>4 DEF Working
<1>15. CASE (NextBuyer(k) /\ task[k].buyers = {}) \/ Fail(k)
  <2>1. task' = [task EXCEPT ![k] = Idle]
    BY <1>15 DEF NextBuyer, Fail
  <2>2. Idle \in TaskRow /\ Idle.pc = "idle"
    BY NewRows DEF Idle
  <2>3. task' \in [Tasks -> TaskRow] /\ task'[k] = Idle
    BY <1>0, <2>1, <2>2, NewTask
  <2> QED
    BY <2>2, <2>3 DEF Working
<1>16. ASSUME NEW e \in Entradas, NEW result, setResult(k, e, result)
       PROVE  task' \in [Tasks -> TaskRow] /\ Working(k)'
  <2>1. PICK t : t = [Idle EXCEPT !.pc = "buyers", !.entrada = e]
    OBVIOUS
  <2>2. task' = [task EXCEPT ![k] = t] \/ task' = task
    BY <1>16, <2>1 DEF setResult
  <2>3. t \in TaskRow /\ t.pc = "buyers"
    BY <2>1, NewRows DEF Idle, TaskRow, TaskPc
  <2>4. task[k].pc = "idle"
    BY <1>16 DEF setResult, At
  <2>5. /\ task' \in [Tasks -> TaskRow]
        /\ task'[k].pc \in {"idle", "buyers"}
    BY <1>0, <2>2, <2>3, <2>4, NewTask DEF GameTypes
  <2> QED
    BY <2>5 DEF Working
<1> QED
  BY <1>1, <1>2, <1>3, <1>4, <1>5, <1>6, <1>7, <1>8, <1>9, <1>10, <1>11, <1>12, <1>13, <1>14,
     <1>15, <1>16 DEF StepBy, Step

LEMMA WorkKept ==
  ASSUME GameInv, [GamificationNext]_gamificationVars
  PROVE  task' \in [Tasks -> TaskRow] /\ WorkingInv'
<1>1. ASSUME NEW k \in Tasks, StepBy(k) PROVE task' \in [Tasks -> TaskRow] /\ WorkingInv'
  BY <1>1, OwnWork, OthersWork DEF WorkingInv
<1>2. ASSUME UNCHANGED <<rows, locks, task>> PROVE task' \in [Tasks -> TaskRow] /\ WorkingInv'
  BY <1>2 DEF rows, locks, GameInv, GameTypes, WorkingInv, Working, Met, Reached, UnlocksOf,
    SameStreak
<1> QED
  BY <1>1, <1>2, StepCases DEF NextDay, gamificationVars

LEMMA TypesKept ==
  ASSUME GameInv, [GamificationNext]_gamificationVars
  PROVE  GameTypes'
<1> USE DEF GameInv
<1>1. userAchievement' \in [Users -> SUBSET Achievements]
  <2>1. ASSUME NEW k \in Tasks, CreateAchievements(k)
        PROVE  userAchievement' \in [Users -> SUBSET Achievements]
    <3>1. task[k].unlocking \in SUBSET Achievements
      BY DEF GameTypes, TaskRow
    <3> QED
      BY <2>1, <3>1 DEF CreateAchievements, GameTypes
  <2>2. ASSUME ~ \E k \in Tasks : CreateAchievements(k) PROVE userAchievement' = userAchievement
    BY <2>2 DEF GamificationNext, gamificationVars, rows, registerDailyLogin, onDomainEvent,
      setResult, NextDay, Fail, Step, LockStreak, ReadStreak, CommitStreak, ReadUser, LockXp,
      AwardEvent, ReadOwned, Measure, AwardBonus, FindBuyers, NextBuyer
  <2> QED
    BY <2>1, <2>2 DEF GameTypes
<1>2. status' \in [Entradas -> {"pending", "green", "red"}]
  BY ZenonT(60) DEF GameTypes, GamificationNext, gamificationVars, rows, registerDailyLogin,
    onDomainEvent, setResult, NextDay, Fail, Step, LockStreak, ReadStreak, CommitStreak, ReadUser,
    LockXp, AwardEvent, ReadOwned, Measure, CreateAchievements, AwardBonus, FindBuyers, NextBuyer
<1>3. xpLock' \in [Users -> Tasks \cup {NoTask}]
  <2>1. ASSUME NEW k \in Tasks, LockXp(k) \/ AwardEvent(k) \/ AwardBonus(k) \/ Fail(k)
        PROVE  xpLock' \in [Users -> Tasks \cup {NoTask}]
    BY <2>1 DEF GameTypes, LockXp, AwardEvent, AwardBonus, Award, Fail
  <2>2. ASSUME ~ \E k \in Tasks : LockXp(k) \/ AwardEvent(k) \/ AwardBonus(k) \/ Fail(k)
        PROVE  xpLock' = xpLock
    BY <2>2 DEF GamificationNext, gamificationVars, locks, registerDailyLogin, onDomainEvent,
      setResult, NextDay, Step, LockStreak, ReadStreak, CommitStreak, ReadUser,
      ReadOwned, Measure, CreateAchievements, FindBuyers, NextBuyer
  <2> QED
    BY <2>1, <2>2 DEF GameTypes
<1>4. streakLock' \in [Users -> Tasks \cup {NoTask}]
  <2>1. ASSUME NEW k \in Tasks, LockStreak(k) \/ CommitStreak(k) \/ Fail(k)
        PROVE  streakLock' \in [Users -> Tasks \cup {NoTask}]
    BY <2>1 DEF GameTypes, LockStreak, CommitStreak, ReleaseStreak, Fail
  <2>2. ASSUME ~ \E k \in Tasks : LockStreak(k) \/ CommitStreak(k) \/ Fail(k)
        PROVE  streakLock' = streakLock
    BY <2>2 DEF GamificationNext, gamificationVars, locks, registerDailyLogin, onDomainEvent,
      setResult, NextDay, Step, ReadStreak, ReadUser, LockXp, AwardEvent, AwardBonus,
      ReadOwned, Measure, CreateAchievements, FindBuyers, NextBuyer
  <2> QED
    BY <2>1, <2>2 DEF GameTypes
<1>5. today' \in 1..MaxDay
  <2>1. CASE NextDay
    BY <2>1, GamificationAssumption DEF NextDay, GameTypes
  <2>2. CASE ~NextDay
    BY <2>2 DEF GameTypes, GamificationNext, gamificationVars, world, registerDailyLogin,
      onDomainEvent, setResult, Fail, Step, LockStreak, ReadStreak, CommitStreak, ReadUser,
      LockXp, AwardEvent, ReadOwned, Measure, CreateAchievements, AwardBonus, FindBuyers,
      NextBuyer
  <2> QED
    BY <2>1, <2>2
<1>6. \A u \in Users : IsFiniteSet(UnlocksOf(u)')
  BY UnlocksGrow
<1> QED
  BY <1>1, <1>2, <1>3, <1>4, <1>5, <1>6, RowsGrow, UnlocksGrow, XpKept, StreakKept, WorkKept
     DEF GameTypes

\* An achievement is inserted for who has met its criterion, which stays met.
LEMMA EarnedKept ==
  ASSUME GameInv, [GamificationNext]_gamificationVars
  PROVE  AchievementsAreEarned'
<1> USE DEF GameInv
<1> SUFFICES ASSUME NEW u \in Users, NEW a \in Achievements, a \in userAchievement'[u]
             PROVE  Met(u, a)'
  BY DEF AchievementsAreEarned, Met
<1>1. CASE a \in userAchievement[u]
  BY <1>1, MetStays DEF AchievementsAreEarned, Met
<1>2. CASE a \notin userAchievement[u]
  <2>1. PICK k \in Tasks : CreateAchievements(k)
    BY <1>2 DEF GamificationNext, gamificationVars, rows, registerDailyLogin, onDomainEvent,
      setResult, NextDay, Fail, Step, LockStreak, ReadStreak, CommitStreak, ReadUser, LockXp,
      AwardEvent, ReadOwned, Measure, AwardBonus, FindBuyers, NextBuyer
  <2>2. task[k].pc = "create" /\ task[k].user = u /\ a \in task[k].unlocking
    BY <1>2, <2>1 DEF CreateAchievements, At, GameTypes
  <2>3. Met(u, a)
    BY <2>2 DEF WorkingInv, Working
  <2> QED
    BY <2>3, MetStays
<1> QED
  BY <1>1, <1>2

------------------------------------------------------------------------------
LEMMA GameInit == GamificationInit => GameInv
<1> SUFFICES ASSUME GamificationInit PROVE GameInv
  OBVIOUS
<1> USE DEF GamificationInit
<1>1. \A u \in Users : UnlocksOf(u) = {} /\ IsFiniteSet(UnlocksOf(u))
  <2>1. \A u \in Users : UnlocksOf(u) = {}
    BY DEF UnlocksOf
  <2> QED
    BY <2>1, FS_EmptySet
<1>2. today \in 1..MaxDay
  BY GamificationAssumption
<1>3. /\ user \in [Users -> UserRow] /\ task \in [Tasks -> TaskRow]
      /\ userAchievement \in [Users -> SUBSET Achievements] /\ unlocks \subseteq Users \X Entradas
      /\ status \in [Entradas -> {"pending", "green", "red"}]
      /\ xpLock \in [Users -> Tasks \cup {NoTask}] /\ streakLock \in [Users -> Tasks \cup {NoTask}]
  BY NewRows
<1>4. earned \in [Users -> Nat] /\ counted \in [Users -> [1..MaxDay -> Nat]]
  OBVIOUS
<1>5. GameTypes
  BY <1>1, <1>2, <1>3, <1>4 DEF GameTypes
<1>6. \A k \in Tasks : task[k].pc = "idle"
  BY DEF Idle
<1>7. WorkingInv
  BY <1>6 DEF WorkingInv, Working
<1>8. XpAccounted /\ StreakIsARun /\ BestIsBest
  <2>1. \A u \in Users : /\ user[u].xp = 0 /\ user[u].level = 1 /\ user[u].lastLoginAt = 0
                         /\ user[u].currentLoginStreak = 0 /\ user[u].bestLoginStreak = 0
                         /\ earned[u] = 0
    BY DEF NewUser
  <2>2. XpAccounted
    BY <2>1, LevelIsOne DEF XpAccounted
  <2> QED
    BY <2>1, <2>2 DEF StreakIsARun, BestIsBest
<1>9. AchievementsAreEarned
  BY DEF AchievementsAreEarned
<1> QED
  BY <1>5, <1>7, <1>8, <1>9 DEF GameInv

LEMMA GameNext == GameInv /\ [GamificationNext]_gamificationVars => GameInv'
<1> SUFFICES ASSUME GameInv, [GamificationNext]_gamificationVars PROVE GameInv'
  OBVIOUS
<1> QED
  BY TypesKept, WorkKept, XpKept, StreakKept, EarnedKept DEF GameInv

\* The inductive invariant holds in every reachable state.
THEOREM GameInvariant == GamificationSpec => []GameInv
<1> QED
  BY GameInit, GameNext, PTL DEF GamificationSpec

(* Every variable of GamificationService's model keeps its type: a level is  *)
(* one of the table's, whatever the XP.                                      *)
THEOREM GameTypesHold == GamificationSpec => []GamificationTypeOK
<1>1. GameInv => GamificationTypeOK
  BY DEF GameInv, GameTypes, GamificationTypeOK, TaskRow, UserRow
<1> QED
  BY <1>1, GameInvariant, PTL

(* However many listeners and requests award at once, a user's XP is the sum *)
(* of the awards committed and the level is the one of that XP.              *)
THEOREM NoXpIsLost == GamificationSpec => []XpAccounted
<1>1. GameInv => XpAccounted
  BY DEF GameInv
<1> QED
  BY <1>1, GameInvariant, PTL

(* The streak a user is shown is a run of days, each counted by a login.     *)
THEOREM StreaksAreRuns == GamificationSpec => []StreakIsARun
<1>1. GameInv => StreakIsARun
  BY DEF GameInv
<1> QED
  BY <1>1, GameInvariant, PTL

(* No achievement is given to a user who never met its criterion.            *)
THEOREM NoAchievementIsGiven == GamificationSpec => []AchievementsAreEarned
<1>1. GameInv => AchievementsAreEarned
  BY DEF GameInv
<1> QED
  BY <1>1, GameInvariant, PTL

(* App-opens of one day that run together count it once.                     *)
THEOREM SameDayCountsOnce == GamificationSpec => SameDayIsNoOp
<1>0. ASSUME GameTypes, NEW k \in Tasks, Working(k), CommitStreak(k), NEW w, w = task[k].user
      PROVE  /\ w \in Users
             /\ \/ counted' = counted
                \/ /\ user'[w].lastLoginAt # user[w].lastLoginAt
                   /\ \A v \in Users \ {w} : counted'[v] = counted[v]
  <2> PICK day, row, r : day = task[k].day /\ row = user[w] /\ r = user'[w]
    OBVIOUS
  <2>1. /\ w \in Users /\ day \in 1..MaxDay /\ task[k].read.lastLoginAt = row.lastLoginAt
        /\ DOMAIN counted = Users /\ DOMAIN user = Users /\ row \in UserRow
    BY <1>0 DEF Working, CommitStreak, At, SameStreak, GameTypes
  <2>2. CASE row.lastLoginAt = day
    BY <1>0, <2>1, <2>2 DEF CommitStreak
  <2>3. CASE row.lastLoginAt # day
    <3>1. r.lastLoginAt = day
      BY <1>0, <2>1, <2>3 DEF CommitStreak, UserRow
    <3>2. counted' = [counted EXCEPT ![w][day] = @ + 1]
      BY <1>0, <2>1, <2>3 DEF CommitStreak
    <3> QED
      BY <2>1, <2>3, <3>1, <3>2
  <2> QED
    BY <2>2, <2>3
<1> DEFINE A == \A u \in Users :
                  counted'[u] # counted[u] => user'[u].lastLoginAt # user[u].lastLoginAt
<1>1. GameInv /\ [GamificationNext]_gamificationVars => [A]_gamificationVars
  <2> SUFFICES ASSUME GameInv, [GamificationNext]_gamificationVars,
                      NEW u \in Users, counted'[u] # counted[u]
               PROVE  user'[u].lastLoginAt # user[u].lastLoginAt
    OBVIOUS
  <2>0. counted' # counted
    OBVIOUS
  <2>1. PICK k \in Tasks : CommitStreak(k)
    BY <2>0, RowCases, Zenon
  <2>2. PICK w : w = task[k].user
    OBVIOUS
  <2>3. GameTypes /\ Working(k)
    BY DEF GameInv, WorkingInv
  <2> QED
    BY <1>0, <2>0, <2>1, <2>2, <2>3
<1> QED
  BY <1>1, GameInvariant, PTL DEF GamificationSpec, SameDayIsNoOp
===============================================================================
