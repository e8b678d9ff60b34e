----------------------------- MODULE Gamification -----------------------------
(***************************************************************************)
(* GamificationService: XP, levels, achievements and the login streak, as  *)
(* the event listeners and requests that run them at the same time.        *)
(* registerDailyLogin (called by GET /me and the profile screen) and       *)
(* handleEvent (listener of 'entrada.unlocked', and called by the admin's  *)
(* EntradasService.setResult for every buyer of a green entrada) are split *)
(* at each statement that other requests can come in between.  Both        *)
(* advisory locks (seed 1: XP, seed 2: streak) are held to the end of      *)
(* their transaction.                                                      *)
(***************************************************************************)
EXTENDS Integers, Sequences, FiniteSets

CONSTANTS
  Users,
  Tasks,             \* listeners and requests that can be under way together
  Entradas,
  Achievements,
  Criteria,          \* achievement -> [type, threshold, rewardXp]
  XpRewards,         \* event name -> XP
  LevelThresholds,   \* XP needed for level 1, 2, ...
  NoTask,
  MaxDay,            \* bound on the clock, in local days
  MaxResults,        \* bound on the admin's setResult calls
  MaxFailures        \* bound on tasks that die half way

VARIABLES
  user,              \* User: xp, level, lastLoginAt (0: null) and the two streaks
  userAchievement,   \* per user: the achievements owned
  unlocks,           \* rows of EntradaUnlock
  status,            \* Entrada.status
  xpLock, streakLock,
  task,              \* per task: what it is doing and the values it has read
  today,             \* the clock
  results, failures, \* how often the bounded actions have happened
  earned,            \* history: the XP of every award committed for a user
  rewarded,          \* history: how often a user got an achievement's bonus
  counted            \* history: how often a local day was counted for a user

history == <<earned, rewarded, counted>>
rows == <<user, userAchievement, unlocks, status>>
locks == <<xpLock, streakLock>>
world == <<today, results, failures>>
gamificationVars == <<rows, locks, task, world, history>>

ASSUME GamificationAssumption ==
  /\ NoTask \notin Tasks
  /\ LevelThresholds \in Seq(Nat) /\ Len(LevelThresholds) > 0 /\ LevelThresholds[1] = 0
  /\ \A i \in 2..Len(LevelThresholds) : LevelThresholds[i] > 0
  /\ XpRewards \in [{"daily.login", "entrada.unlocked", "entrada.green"} -> Nat]
  /\ DOMAIN Criteria = Achievements /\ IsFiniteSet(Achievements)
  /\ \A a \in Achievements : Criteria[a].threshold \in Nat /\ Criteria[a].rewardXp \in Nat
  /\ MaxDay \in Nat \ {0}

------------------------------------------------------------------------------
\* Mutant: levels counted from 0.
levelForXp_FromZero(xp) ==
  Cardinality({i \in DOMAIN LevelThresholds : i > 1 /\ xp >= LevelThresholds[i]})

\* The thresholds passed before the first that is not.
levelForXp(xp) ==
  Cardinality({i \in DOMAIN LevelThresholds : \A j \in 1..i : xp >= LevelThresholds[j]})

NewUser == [xp |-> 0, level |-> 1, lastLoginAt |-> 0,
            currentLoginStreak |-> 0, bestLoginStreak |-> 0]
Idle == [pc |-> "idle", user |-> NoTask, event |-> "none", day |-> 0, read |-> NewUser,
         xp |-> 0, streak |-> 0, level |-> 1, owned |-> {}, unlocking |-> {}, entrada |-> NoTask, buyers |-> {}]

Me(k) == user[task[k].user]
At(k, pc) == task[k].pc = pc
Goto(k, pc) == task' = [task EXCEPT ![k].pc = pc]

GamificationInit ==
  /\ user = [u \in Users |-> NewUser]
  /\ userAchievement = [u \in Users |-> {}]
  /\ unlocks = {}
  /\ status = [e \in Entradas |-> "pending"]
  /\ xpLock = [u \in Users |-> NoTask]
  /\ streakLock = [u \in Users |-> NoTask]
  /\ task = [k \in Tasks |-> Idle]
  /\ today = 1 /\ results = 0 /\ failures = 0
  /\ earned = [u \in Users |-> 0]
  /\ rewarded = [u \in Users |-> [a \in Achievements |-> 0]]
  /\ counted = [u \in Users |-> [d \in 1..MaxDay |-> 0]]

------------------------------------------------------------------------------
\* registerDailyLogin

\* The time is taken before the transaction begins.
registerDailyLogin(k, u) ==
  /\ At(k, "idle")
  /\ task' = [task EXCEPT ![k] = [Idle EXCEPT !.pc = "streakLock", !.user = u, !.day = today]]
  /\ UNCHANGED <<rows, locks, world, history>>

\* Mutant: the row is read without waiting for the lock.
LockStreak_Skipped(k) ==
  /\ At(k, "streakLock")
  /\ Goto(k, "streakRead")
  /\ UNCHANGED <<rows, locks, world, history>>

LockStreak(k) ==
  /\ At(k, "streakLock")
  /\ streakLock[task[k].user] = NoTask
  /\ streakLock' = [streakLock EXCEPT ![task[k].user] = k]
  /\ Goto(k, "streakRead")
  /\ UNCHANGED <<rows, xpLock, world, history>>

ReadStreak(k) ==
  /\ At(k, "streakRead")
  /\ task' = [task EXCEPT ![k].pc = "streakWrite", ![k].read = Me(k)]
  /\ UNCHANGED <<rows, locks, world, history>>

\* Mutant: a streak survives one missed day.
NextStreak_Grace(read, day) ==
  IF read.lastLoginAt \in {day - 1, day - 2} THEN read.currentLoginStreak + 1 ELSE 1

NextStreak(read, day) ==
  IF read.lastLoginAt = day - 1 /\ read.lastLoginAt # 0
  THEN read.currentLoginStreak + 1 ELSE 1

\* Mutant: the best streak follows the current one.
BestStreak_Follows(best, streak) == streak
BestStreak(best, streak) == IF streak > best THEN streak ELSE best

ReleaseStreak(k) ==
  streakLock' = [u \in Users |-> IF streakLock[u] = k THEN NoTask ELSE streakLock[u]]

\* A day already counted commits nothing; a new one goes on to award its XP.
CommitStreak(k) ==
  /\ At(k, "streakWrite")
  /\ ReleaseStreak(k)
  /\ LET u == task[k].user
         day == task[k].day
         streak == NextStreak(task[k].read, day)
     IN IF task[k].read.lastLoginAt = day
        THEN task' = [task EXCEPT ![k] = Idle] /\ UNCHANGED <<user, counted>>
        ELSE /\ user' = [user EXCEPT
                  ![u].lastLoginAt = day,
                  ![u].currentLoginStreak = streak,
                  ![u].bestLoginStreak = BestStreak(task[k].read.bestLoginStreak, streak)]
             /\ counted' = [counted EXCEPT ![u][day] = @ + 1]
             /\ task' = [task EXCEPT ![k] = [Idle EXCEPT !.pc = "user", !.user = u,
                                                        !.event = "daily.login"]]
  /\ UNCHANGED <<userAchievement, unlocks, status, xpLock, world, earned, rewarded>>

------------------------------------------------------------------------------
\* handleEvent

\* Reads the row whose streak the achievements will be measured with.
ReadUser(k) ==
  /\ At(k, "user")
  /\ task' = [task EXCEPT ![k].pc = "award", ![k].xp = Me(k).xp,
                          ![k].streak = Me(k).currentLoginStreak]
  /\ UNCHANGED <<rows, locks, world, history>>

LockXp(k) ==
  /\ task[k].pc \in {"award", "bonus"}
  /\ xpLock[task[k].user] = NoTask
  /\ xpLock' = [xpLock EXCEPT ![task[k].user] = k]
  /\ Goto(k, IF At(k, "award") THEN "awarding" ELSE "rewarding")
  /\ UNCHANGED <<rows, streakLock, world, history>>

\* Mutant: XP is computed from the row read at the beginning of handleEvent.
Award_ReadThenWrite(k, xp) ==
  LET u == task[k].user
      sum == task[k].xp + xp
  IN /\ user' = [user EXCEPT ![u].xp = sum, ![u].level = levelForXp(sum)]
     /\ xpLock' = [xpLock EXCEPT ![u] = NoTask]
     /\ earned' = [earned EXCEPT ![u] = @ + xp]

\* Increment in place, level from the incremented value, commit, lock freed.
Award(k, xp) ==
  LET u == task[k].user
      sum == user[u].xp + xp
  IN /\ user' = [user EXCEPT ![u].xp = sum, ![u].level = levelForXp(sum)]
     /\ xpLock' = [xpLock EXCEPT ![u] = NoTask]
     /\ earned' = [earned EXCEPT ![u] = @ + xp]

AwardEvent(k) ==
  /\ At(k, "awarding")
  /\ Award(k, XpRewards[task[k].event])
  /\ task' = [task EXCEPT ![k] = [Idle EXCEPT
       !.pc = "owned", !.user = task[k].user, !.buyers = task[k].buyers,
       !.level = levelForXp(Me(k).xp + XpRewards[task[k].event]),
       !.streak = task[k].streak]]
  /\ UNCHANGED <<userAchievement, unlocks, status, streakLock, world, rewarded, counted>>

\* evaluateAchievements: what the user owns already is read first ...
ReadOwned(k) ==
  /\ At(k, "owned")
  /\ task' = [task EXCEPT ![k].pc = "measure", ![k].owned = userAchievement[task[k].user]]
  /\ UNCHANGED <<rows, locks, world, history>>

UnlocksOf(u) == {e \in Entradas : <<u, e>> \in unlocks}

\* Level and streak are the ones handleEvent holds, counts are read now.
measure(k, type) ==
  CASE type = "unlock_count"  -> Cardinality(UnlocksOf(task[k].user))
    [] type = "green_count"   ->
         Cardinality({e \in UnlocksOf(task[k].user) : status[e] = "green"})
    [] type = "level_reached" -> task[k].level
    [] type = "login_streak"  -> task[k].streak
    [] OTHER -> 0

\* ... then every other achievement is measured.
Measure(k) ==
  /\ At(k, "measure")
  /\ LET new == {a \in Achievements \ task[k].owned :
                   measure(k, Criteria[a].type) >= Criteria[a].threshold}
     IN task' = [task EXCEPT ![k] = [Idle EXCEPT
                   !.pc = IF new = {} THEN "next" ELSE "create", !.user = task[k].user,
                   !.unlocking = new, !.buyers = task[k].buyers]]
  /\ UNCHANGED <<rows, locks, world, history>>

\* The sum of the rewards: as many as there are points to count.
Bonus(as) == Cardinality(UNION {{a} \X (1..Criteria[a].rewardXp) : a \in as})

\* createMany with skipDuplicates: rows somebody else has inserted do not fail it,
\* and the bonus is paid for them all the same.
CreateAchievements(k) ==
  /\ At(k, "create")
  /\ userAchievement' = [userAchievement EXCEPT ![task[k].user] = @ \cup task[k].unlocking]
  /\ Goto(k, IF Bonus(task[k].unlocking) > 0 THEN "bonus" ELSE "next")
  /\ UNCHANGED <<user, unlocks, status, locks, world, history>>

AwardBonus(k) ==
  /\ At(k, "rewarding")
  /\ Award(k, Bonus(task[k].unlocking))
  /\ rewarded' = [rewarded EXCEPT ![task[k].user] =
                    [a \in Achievements |-> IF a \in task[k].unlocking THEN @[a] + 1 ELSE @[a]]]
  /\ task' = [task EXCEPT ![k] = [Idle EXCEPT !.pc = "next", !.buyers = task[k].buyers]]
  /\ UNCHANGED <<userAchievement, unlocks, status, streakLock, world, counted>>

\* A listener or a login ends; setResult goes on to the next buyer.
NextBuyer(k) ==
  /\ At(k, "next")
  /\ IF task[k].buyers = {}
     THEN task' = [task EXCEPT ![k] = Idle]
     ELSE \E u \in task[k].buyers :
            task' = [task EXCEPT ![k] = [Idle EXCEPT !.pc = "user", !.user = u,
                       !.event = "entrada.green", !.buyers = task[k].buyers \ {u}]]
  /\ UNCHANGED <<rows, locks, world, history>>

------------------------------------------------------------------------------
\* A paid unlock has been committed and its event reaches the listener.
onDomainEvent(k, u, e) ==
  /\ At(k, "idle")
  /\ <<u, e>> \notin unlocks
  /\ unlocks' = unlocks \cup {<<u, e>>}
  /\ task' = [task EXCEPT ![k] = [Idle EXCEPT !.pc = "user", !.user = u,
                                              !.event = "entrada.unlocked"]]
  /\ UNCHANGED <<user, userAchievement, status, locks, world, history>>

\* EntradasService.setResult: the entrada's status first ...
setResult(k, e, result) ==
  /\ At(k, "idle") /\ results < MaxResults
  /\ results' = results + 1
  /\ status' = [status EXCEPT ![e] = result]
  /\ task' = IF result = "green"
             THEN [task EXCEPT ![k] = [Idle EXCEPT !.pc = "buyers", !.entrada = e]]
             ELSE task
  /\ UNCHANGED <<user, userAchievement, unlocks, locks, today, failures, history>>

\* ... then, for a green, whoever has unlocked it by now, one after the other.
FindBuyers(k) ==
  /\ At(k, "buyers")
  /\ task' = [task EXCEPT ![k] = [Idle EXCEPT !.pc = "next",
                 !.buyers = {u \in Users : <<u, task[k].entrada>> \in unlocks}]]
  /\ UNCHANGED <<rows, locks, world, history>>

\* A crash or a database error: an open transaction rolls back, what was committed stays.
Fail(k) ==
  /\ ~At(k, "idle") /\ failures < MaxFailures
  /\ failures' = failures + 1
  /\ task' = [task EXCEPT ![k] = Idle]
  /\ ReleaseStreak(k)
  /\ xpLock' = [u \in Users |-> IF xpLock[u] = k THEN NoTask ELSE xpLock[u]]
  /\ UNCHANGED <<rows, today, results, history>>

NextDay ==
  /\ today < MaxDay
  /\ today' = today + 1
  /\ UNCHANGED <<rows, locks, task, results, failures, history>>

Step(k) ==
  \/ LockStreak(k) \/ ReadStreak(k) \/ CommitStreak(k)
  \/ ReadUser(k) \/ LockXp(k) \/ AwardEvent(k)
  \/ ReadOwned(k) \/ Measure(k) \/ CreateAchievements(k) \/ AwardBonus(k)
  \/ FindBuyers(k) \/ NextBuyer(k)

GamificationNext ==
  \/ \E k \in Tasks :
       \/ Step(k) \/ Fail(k)
       \/ \E u \in Users : registerDailyLogin(k, u)
       \/ \E u \in Users, e \in Entradas : onDomainEvent(k, u, e)
       \/ \E e \in Entradas, result \in {"green", "red"} : setResult(k, e, result)
  \/ NextDay

GamificationSpec == GamificationInit /\ [][GamificationNext]_gamificationVars

------------------------------------------------------------------------------
TaskPc == {"idle", "streakLock", "streakRead", "streakWrite", "user", "award", "awarding",
           "owned", "measure", "create", "bonus", "rewarding",
           "buyers", "next"}
GamificationTypeOK ==
  /\ user \in [Users -> [xp : Nat, level : 1..Len(LevelThresholds), lastLoginAt : 0..MaxDay,
                        currentLoginStreak : Nat, bestLoginStreak : Nat]]
  /\ userAchievement \in [Users -> SUBSET Achievements]
  /\ unlocks \subseteq Users \X Entradas
  /\ status \in [Entradas -> {"pending", "green", "red"}]
  /\ xpLock \in [Users -> Tasks \cup {NoTask}]
  /\ streakLock \in [Users -> Tasks \cup {NoTask}]
  /\ \A k \in Tasks : task[k].pc \in TaskPc

(* No award is lost to another one committed meanwhile, and the stored level *)
(* always is the one of the stored XP ("read-then-write on user.xp would     *)
(* lose concurrent XP", gamification.service.ts:92).                         *)
XpAccounted ==
  \A u \in Users : user[u].xp = earned[u] /\ user[u].level = levelForXp(user[u].xp)

(* A streak of n claims the n local days up to the last login, and each of   *)
(* them was counted for the user: no race or crash makes up a day ("resets   *)
(* to 1 after a gap", gamification.service.ts:126).                          *)
StreakIsARun ==
  \A u \in Users :
    LET last == user[u].lastLoginAt
        first == last - user[u].currentLoginStreak + 1
    IN last # 0 => /\ first \in 1..last
                   /\ \A d \in first..last : counted[u][d] > 0

(* App-opens of one day that run together count it once: a login only counts *)
(* by moving lastLoginAt to another day ("so two concurrent app-opens can't  *)
(* double-count", gamification.service.ts:130).                              *)
SameDayIsNoOp ==
  [][ \A u \in Users :
        counted'[u] # counted[u] => user'[u].lastLoginAt # user[u].lastLoginAt
    ]_gamificationVars

(* An achievement is only ever owned by a user who met its criterion at some *)
(* moment, although it is measured with values read before the award.        *)
Reached(u, type) ==
  CASE type = "unlock_count"  -> Cardinality(UnlocksOf(u))
    [] type = "level_reached" -> user[u].level
    [] type = "login_streak"  -> user[u].bestLoginStreak
    [] OTHER -> 0
AchievementsAreEarned ==
  \A u \in Users, a \in Achievements :
    a \in userAchievement[u] /\ Criteria[a].type # "green_count"
      => Reached(u, Criteria[a].type) >= Criteria[a].threshold

(* "Idempotent per local day: repeated calls the same day are no-ops"        *)
(* (gamification.service.ts:125): a day counts, and earns XP, once. No run     *)
(* checks it: around midnight the older login can commit last.               *)
DayCountedOnce == \A u \in Users, d \in 1..MaxDay : counted[u][d] <= 1

(* "rewardXp is the bonus granted when the achievement unlocks"              *)
(* (schema.prisma:253): it is granted once. No run checks it: two tasks can    *)
(* both measure the achievement before either has it.                        *)
RewardedOnce == \A u \in Users, a \in Achievements : rewarded[u][a] <= 1
===============================================================================
