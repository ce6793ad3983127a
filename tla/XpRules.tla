------------------------------- MODULE XpRules -------------------------------
(***************************************************************************)
(* The pure rules of src/src/gamification: what an action is worth, the    *)
(* key under which it is paid once, the level curve and the badges.        *)
(* No state, no clock: Gamification and WordReview build on these.         *)
(***************************************************************************)
EXTENDS Integers, FiniteSets

CONSTANTS Lessons,    \* lessons with a video and a theory step
          Tasks,      \* quiz and practice tasks
          Questions,  \* trap questions
          Words,      \* vocabulary words
          Reviews     \* clientReviewIds

ASSUME XpIdsFinite ==
    /\ IsFiniteSet(Lessons) /\ IsFiniteSet(Tasks) /\ IsFiniteSet(Questions)
    /\ IsFiniteSet(Words)   /\ IsFiniteSet(Reviews)

(***************************************************************************)
(* Ledger keys.  A key is the pair (source, sourceKey) of XpTransaction,   *)
(* kept as the fields the sourceKey is printed from; two keys are equal    *)
(* exactly when the printed strings are.                                   *)
(***************************************************************************)
Key(src, of, how) == [source |-> src, id |-> of, part |-> how]

stageAward(lesson, step)      == Key("STAGE_COMPLETED", lesson, step)
taskPassedAward(task, type)   == Key("TASK_PASSED", task, type)
trapClearedAward(task, q)     == Key("TRAP_CLEARED", task, q)
wordReviewedAward(review)     == Key("WORD_REVIEWED", review, "")
wordMasteredAward(word)       == Key("WORD_MASTERED", word, "")
achievementAward(badge)       == Key("ACHIEVEMENT", badge, "")

isQuizPassKey(k) == k.source = "TASK_PASSED" /\ k.part = "QUIZ"

(* ACHIEVEMENTS: the badges with the XP each one grants. *)
AchievementXp ==
    [FIRST_STAGE |-> 20, FIRST_QUIZ_PASS |-> 20, FIRST_MASTERED_WORD |-> 20,
     STREAK_3 |-> 25, STREAK_7 |-> 60, XP_500 |-> 100]
Badges == {"FIRST_STAGE", "FIRST_QUIZ_PASS", "FIRST_MASTERED_WORD",
           "STREAK_3", "STREAK_7", "XP_500"}

ActionKeys ==
    {stageAward(l, s) : l \in Lessons, s \in {"VIDEO", "THEORY"}}
    \cup {taskPassedAward(t, ty) : t \in Tasks, ty \in {"QUIZ", "PRACTICE"}}
    \cup {trapClearedAward(t, q) : t \in Tasks, q \in Questions}
    \cup {wordReviewedAward(r) : r \in Reviews}
    \cup {wordMasteredAward(w) : w \in Words}
BadgeKeys == {achievementAward(b) : b \in Badges}
Keys == ActionKeys \cup BadgeKeys

(* XP_AWARDS and the catalog: the amount column of a ledger row. *)
Amount(k) ==
    CASE k.source = "STAGE_COMPLETED" -> 10
      [] k.source = "TASK_PASSED"     -> IF k.part = "PRACTICE" THEN 40 ELSE 30
      [] k.source = "TRAP_CLEARED"    -> 5
      [] k.source = "WORD_REVIEWED"   -> 1
      [] k.source = "WORD_MASTERED"   -> 15
      [] OTHER                        -> AchievementXp[k.id]

(* SUM(amount) over a set of ledger rows: one point per unit of XP. *)
XpPoints(rows)   == UNION {{k} \X (1 .. Amount(k)) : k \in rows}
sumAmounts(rows) == Cardinality(XpPoints(rows))

(***************************************************************************)
(* The level curve.                                                        *)
(***************************************************************************)
xpThresholdForLevel(level) ==
    IF level <= 1 THEN 0
    ELSE (level - 1) * 100 + (50 * (level - 2) * (level - 1)) \div 2

(* One level for every threshold the total affords.  The thresholds grow by *)
(* 100 at least, so the levels above totalXp \div 100 + 1 are out of reach. *)
levelForXp(totalXp) ==
    IF totalXp <= 0 THEN 1
    ELSE 1 + Cardinality({l \in 2 .. (totalXp \div 100 + 1) :
                             xpThresholdForLevel(l) <= totalXp})

levelProgress(totalXp) ==
    LET safe  == IF totalXp > 0 THEN totalXp ELSE 0
        level == levelForXp(safe)
        floor == xpThresholdForLevel(level)
        ceil  == xpThresholdForLevel(level + 1)
    IN  [level |-> level, totalXp |-> safe, intoLevel |-> safe - floor,
         toNextLevel |-> ceil - safe,
         percent |-> ((safe - floor) * 100) \div (ceil - floor)]

(* What it costs to reach levels 1, 2, ..., written out by hand in         *)
(* level-curve.spec.ts.                                                    *)
LevelTable == <<0, 100, 250, 450, 700, 1000, 1350, 1750, 2200, 2700>>

(* levelForXp is the last level of the table the total affords, and the    *)
(* bar of levelProgress never shows a full or a negative level.            *)
LevelMatchesTable(totalXp) ==
    LET p == levelProgress(totalXp)
    IN  /\ p.level \in DOMAIN LevelTable => p.level = 1 \/ LevelTable[p.level] <= totalXp
        /\ p.level + 1 \in DOMAIN LevelTable =>
              /\ totalXp < LevelTable[p.level + 1]
              /\ p.intoLevel + p.toNextLevel = LevelTable[p.level + 1] - LevelTable[p.level]
        /\ p.intoLevel >= 0 /\ p.toNextLevel > 0 /\ p.percent \in 0 .. 99

(***************************************************************************)
(* Badges: what the rows an action really inserted prove.                  *)
(***************************************************************************)
NoStreak == -1      \* currentStreakDays = null

(* Mutant: only steps count as stages. *)
SnapshotStepsOnly(inserted, total, streakDays) ==
    [stagesCompleted   |-> Cardinality({k \in inserted :
                              k.source = "STAGE_COMPLETED"}),
     quizTasksPassed   |-> Cardinality({k \in inserted : isQuizPassKey(k)}),
     wordsMastered     |-> Cardinality({k \in inserted :
                              k.source = "WORD_MASTERED"}),
     totalXp           |-> total,
     currentStreakDays |-> streakDays]

Snapshot(inserted, total, streakDays) ==
    [stagesCompleted   |-> Cardinality({k \in inserted :
                              k.source \in {"STAGE_COMPLETED", "TASK_PASSED"}}),
     quizTasksPassed   |-> Cardinality({k \in inserted : isQuizPassKey(k)}),
     wordsMastered     |-> Cardinality({k \in inserted :
                              k.source = "WORD_MASTERED"}),
     totalXp           |-> total,
     currentStreakDays |-> streakDays]

isEarned(badge, s) ==
    CASE badge = "FIRST_STAGE"         -> s.stagesCompleted >= 1
      [] badge = "FIRST_QUIZ_PASS"     -> s.quizTasksPassed >= 1
      [] badge = "FIRST_MASTERED_WORD" -> s.wordsMastered >= 1
      [] badge = "STREAK_3"            -> s.currentStreakDays >= 3
      [] badge = "STREAK_7"            -> s.currentStreakDays >= 7
      [] badge = "XP_500"              -> s.totalXp >= 500

newlyEarnedAchievements(snapshot, alreadyUnlocked) ==
    {b \in Badges : b \notin alreadyUnlocked /\ isEarned(b, snapshot)}
=============================================================================
