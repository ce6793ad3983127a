---------------------------- MODULE Gamification ----------------------------
(***************************************************************************)
(* GamificationService.recordProgress, run inside the transactions of the  *)
(* learning engines.  Each transaction is a sequence of statements under   *)
(* READ COMMITTED: what it wrote is private until Commit, and a statement  *)
(* that meets a row another open transaction wrote waits for it to end.    *)
(*                                                                         *)
(* Begin          the caller's own write, then the read of the user row    *)
(* ReadUnlocked   the read of the badges already held                      *)
(* SkipDay / OpenDay / TouchDay   recordActivityDay and the streak scan    *)
(* InsertAwards   the action's ledger rows, ON CONFLICT DO NOTHING         *)
(* InsertBadges   the badges the inserted rows prove                       *)
(* UpdateUser     totalPoints += xpAwarded, level := a computed value      *)
(* Commit / Rollback                                                       *)
(***************************************************************************)
EXTENDS XpRules, DayWindow

CONSTANTS Users,
          Txs,          \* the transactions that can be open at once
          Calls,        \* the recordProgress calls of the learning engines
          Start,        \* the first slot of the modelled period
          MaxInstant,   \* bound on the clock
          Pasts         \* what a user may have done before: the ledger rows,
                        \* the instants of activity and the zone they left

NoStep   == "no step row"
None     == -1
Instants == 0 .. MaxInstant

(* What a caller persists before it calls recordProgress: a step row whose *)
(* lastActivityAt is overwritten, an appended attempt, or neither (traps). *)
CallType == [awards : SUBSET ActionKeys, countsAsActivity : BOOLEAN,
             step : Lessons \cup {NoStep}]

ASSUME GamificationAssumption ==
    /\ Calls \subseteq CallType
    /\ \A c \in Calls : c.step # NoStep => c.countsAsActivity
    /\ NoStep \notin Lessons
    /\ Start \in Nat /\ MaxInstant \in Nat /\ Start <= MaxInstant
    /\ Pasts \subseteq [rows : SUBSET Keys, log : SUBSET Instants, zone : Zones]

(* What a badge is given for.  "First" badges: a row of this kind.  Streak  *)
(* badges: so many days in a row with some activity, as the days of one of *)
(* the user's zones are counted.  XP_500: that much XP from anything else. *)
Xp500       == achievementAward("XP_500")
FirstBadges == {"FIRST_STAGE", "FIRST_QUIZ_PASS", "FIRST_MASTERED_WORD"}
StreakDays  == [STREAK_3 |-> 3, STREAK_7 |-> 7]

Proves(k, badge) ==
    CASE badge = "FIRST_STAGE"         -> k.source \in {"STAGE_COMPLETED", "TASK_PASSED"}
      [] badge = "FIRST_QUIZ_PASS"     -> isQuizPassKey(k)
      [] badge = "FIRST_MASTERED_WORD" -> k.source = "WORD_MASTERED"

DaysOf(instants, zone) == {formatDayInTimeZone(i, zone) : i \in instants}
ActiveFor(n, instants) ==
    \E zone \in Zones : \E d \in DaysOf(instants, zone) :
        (d - n + 1 .. d) \subseteq DaysOf(instants, zone)

FirstsEarned(rows) ==
    \A b \in FirstBadges : achievementAward(b) \in rows <=> \E k \in rows : Proves(k, b)
StreaksEarned(rows, instants) ==
    \A b \in DOMAIN StreakDays :
        achievementAward(b) \in rows => ActiveFor(StreakDays[b], instants)

(* A past holds the badges it earned. *)
ASSUME PastsAssumption ==
    \A past \in Pasts :
        /\ FirstsEarned(past.rows) /\ StreaksEarned(past.rows, past.log)
        /\ Xp500 \in past.rows => sumAmounts(past.rows \ {Xp500}) >= 500

VARIABLES now,       \* the clock
          timezone,  \* User.timezone, null read as "UTC"
          ledger,    \* XpTransaction rows per user
          total,     \* User.totalPoints
          level,     \* User.level
          dayRows,   \* UserDailyActivity rows per user
          stepAt,    \* LessonStepProgress.lastActivityAt per user and lesson
          logAt,     \* instants of the append-only activity tables
          activeAt,  \* history: the instants of every committed activity
          hookRuns,  \* history: committed runs of the new-day hooks
          tx         \* the open transactions

userVars == <<timezone, ledger, total, level, dayRows, stepAt, logAt, activeAt,
              hookRuns>>
vars     == <<now, userVars, tx>>

STREAK_SCAN_DAYS == 10

NoCall == [awards |-> {}, countsAsActivity |-> FALSE, step |-> NoStep]

(* A transaction that has written nothing. *)
IdleTx ==
    [pc |-> "idle", user |-> None, call |-> NoCall, at |-> None, zone |-> "UTC",
     previousTotal |-> 0, previousLevel |-> 1, known |-> None,
     unlocked |-> {}, day |-> None, isNewDay |-> FALSE, streak |-> NoStreak,
     rows |-> {}, pay |-> 0, newLevel |-> 1]

Open(t)       == tx[t].pc # "idle"
Rivals(t, u)  == {r \in Txs \ {t} : Open(r) /\ tx[r].user = u}

BadgesIn(rows) == {b \in Badges : achievementAward(b) \in rows}

(* collectActiveDays as transaction t sees it: what is committed, and the  *)
(* caller's own write, which replaces the instant its step row held.       *)
ActiveDays(t) ==
    LET u     == tx[t].user
        steps == {l \in Lessons \ {tx[t].call.step} : stepAt[u][l] # None}
    IN  {formatDayInTimeZone(i, tx[t].zone) :
            i \in logAt[u] \cup {tx[t].at} \cup {stepAt[u][l] : l \in steps}}

Init ==
    \E past \in [Users -> Pasts] :
        /\ now = Start
        /\ timezone = [u \in Users |-> past[u].zone]
        /\ ledger = [u \in Users |-> past[u].rows]
        /\ total = [u \in Users |-> sumAmounts(past[u].rows)]
        /\ level = [u \in Users |-> levelForXp(sumAmounts(past[u].rows))]
        /\ dayRows = [u \in Users |->
                        {formatDayInTimeZone(i, past[u].zone) : i \in past[u].log}]
        /\ stepAt = [u \in Users |-> [l \in Lessons |-> None]]
        /\ logAt = [u \in Users |-> past[u].log]
        /\ activeAt = logAt
        /\ hookRuns = [u \in Users |-> Cardinality(dayRows[u])]
        /\ tx = [t \in Txs |-> IdleTx]
-----------------------------------------------------------------------------
(* The step row the caller writes is locked until its transaction ends. *)
Begin(t, u, c) ==
    /\ ~Open(t)
    /\ c.step # NoStep => \A r \in Rivals(t, u) : tx[r].call.step # c.step
    /\ tx' = [tx EXCEPT ![t] =
                [IdleTx EXCEPT !.pc = "read", !.user = u, !.call = c, !.at = now,
                   !.zone = timezone[u],
                   !.previousTotal = total[u], !.previousLevel = level[u],
                   !.known = IF c.step = NoStep THEN None
                             ELSE stepAt[u][c.step]]]
    /\ UNCHANGED <<now, userVars>>

(* The badges held are read only when there is something to award. *)
ReadUnlocked(t) ==
    /\ tx[t].pc = "read"
    /\ tx' = [tx EXCEPT ![t].pc = "day",
                 ![t].unlocked = IF tx[t].call.awards = {} THEN {}
                                 ELSE BadgesIn(ledger[tx[t].user])]
    /\ UNCHANGED <<now, userVars>>

(* The two ways around the activity table: the call is no activity, or its *)
(* row was last stamped on the same day, so the day row is taken to exist. *)
HotPath(t) ==
    /\ tx[t].known # None
    /\ isSameActivityDay(tx[t].known, tx[t].at, tx[t].zone)

SkipDay(t) ==
    /\ tx[t].pc = "day"
    /\ ~tx[t].call.countsAsActivity \/ HotPath(t)
    /\ tx' = [tx EXCEPT ![t].pc = "awards"]
    /\ UNCHANGED <<now, userVars>>

(* Mutant: the day is looked up first, and inserted by whoever missed it.  *)
DayFreeUnguarded(t, d) ==
    tx[t].pc = "day" /\ tx[t].call.countsAsActivity /\ ~HotPath(t)

(* The insert of (user, day) waits for a rival that has the row in hand. *)
DayFree(t, d) ==
    /\ tx[t].pc = "day" /\ tx[t].call.countsAsActivity /\ ~HotPath(t)
    /\ \A r \in Rivals(t, tx[t].user) : tx[r].day # d

(* The insert created the row: the streak is scanned and the hooks run. *)
OpenDay(t) ==
    LET u == tx[t].user
        d == formatDayInTimeZone(tx[t].at, tx[t].zone)
    IN  /\ DayFree(t, d)
        /\ d \notin dayRows[u]
        /\ tx' = [tx EXCEPT ![t].pc = "awards", ![t].day = d,
                     ![t].isNewDay = TRUE,
                     ![t].streak = countCurrentStreak(d, STREAK_SCAN_DAYS,
                                                       ActiveDays(t))]
        /\ UNCHANGED <<now, userVars>>

(* The day exists: only lastActivityAt moves, which locks the row. *)
TouchDay(t) ==
    LET d == formatDayInTimeZone(tx[t].at, tx[t].zone)
    IN  /\ DayFree(t, d)
        /\ d \in dayRows[tx[t].user]
        /\ tx' = [tx EXCEPT ![t].pc = "awards", ![t].day = d]
        /\ UNCHANGED <<now, userVars>>

(* ON CONFLICT DO NOTHING: a row that a rival has inserted but not yet     *)
(* committed is waited for, a committed one is left alone, and only the    *)
(* rows that landed are returned.                                          *)
NotInDoubt(t, keys) ==
    \A r \in Rivals(t, tx[t].user) : tx[r].rows \cap keys = {}

(* Mutant: the statement reports every row of the batch, not those it wrote. *)
LandedWholeBatch(t, keys) == keys
Landed(t, keys) == keys \ (ledger[tx[t].user] \cup tx[t].rows)

InsertAwards(t) ==
    LET keys == tx[t].call.awards
    IN  /\ tx[t].pc = "awards"
        /\ NotInDoubt(t, keys)
        /\ tx' = [tx EXCEPT ![t].pc = "badges", ![t].rows = Landed(t, keys)]
        /\ UNCHANGED <<now, userVars>>

(* Mutant: the total is computed from the awards asked for.                *)
EarnedKeysAsAsked(t) ==
    LET s == Snapshot(tx[t].rows,
                      tx[t].previousTotal + sumAmounts(tx[t].call.awards),
                      tx[t].streak)
    IN  {achievementAward(b) : b \in newlyEarnedAchievements(s, tx[t].unlocked)}

EarnedKeys(t) ==
    LET s == Snapshot(tx[t].rows,
                      tx[t].previousTotal + sumAmounts(tx[t].rows),
                      tx[t].streak)
    IN  {achievementAward(b) : b \in newlyEarnedAchievements(s, tx[t].unlocked)}

InsertBadges(t) ==
    /\ tx[t].pc = "badges"
    /\ NotInDoubt(t, EarnedKeys(t))
    /\ tx' = [tx EXCEPT ![t].pc = "update",
                 ![t].rows = @ \cup Landed(t, EarnedKeys(t))]
    /\ UNCHANGED <<now, userVars>>

(* Mutant: a call with nothing to award is forgotten. *)
NoAwardOnReplay(t) ==
    /\ tx[t].pc = "update"
    /\ sumAmounts(tx[t].rows) = 0 /\ tx[t].call.awards # {}
    /\ tx' = [tx EXCEPT ![t].pc = "commit"]
    /\ UNCHANGED <<now, userVars>>

(* Nothing landed: noAward, and the user row is not touched. *)
NoAward(t) ==
    /\ tx[t].pc = "update"
    /\ sumAmounts(tx[t].rows) = 0
    /\ tx' = [tx EXCEPT ![t].pc = "commit"]
    /\ UNCHANGED <<now, userVars>>

(* totalPoints is incremented, level is set from the total read in Begin. *)
UpdateUser(t) ==
    LET xpAwarded == sumAmounts(tx[t].rows)
    IN  /\ tx[t].pc = "update"
        /\ xpAwarded > 0
        /\ \A r \in Rivals(t, tx[t].user) : tx[r].pay = 0
        /\ tx' = [tx EXCEPT ![t].pc = "commit", ![t].pay = xpAwarded,
                     ![t].newLevel = levelForXp(tx[t].previousTotal + xpAwarded)]
        /\ UNCHANGED <<now, userVars>>

Commit(t) ==
    LET u == tx[t].user
        c == tx[t].call
    IN  /\ tx[t].pc = "commit"
        /\ ledger' = [ledger EXCEPT ![u] = @ \cup tx[t].rows]
        /\ total' = [total EXCEPT ![u] = @ + tx[t].pay]
        /\ level' = [level EXCEPT ![u] = IF tx[t].pay = 0 THEN @
                                         ELSE tx[t].newLevel]
        /\ dayRows' = [dayRows EXCEPT ![u] = IF tx[t].isNewDay
                                             THEN @ \cup {tx[t].day} ELSE @]
        /\ hookRuns' = [hookRuns EXCEPT ![u] = IF tx[t].isNewDay
                                               THEN @ + 1 ELSE @]
        /\ stepAt' = IF c.step = NoStep THEN stepAt
                     ELSE [stepAt EXCEPT ![u][c.step] = tx[t].at]
        /\ logAt' = IF c.step = NoStep /\ c.countsAsActivity
                    THEN [logAt EXCEPT ![u] = @ \cup {tx[t].at}] ELSE logAt
        /\ activeAt' = IF c.countsAsActivity
                       THEN [activeAt EXCEPT ![u] = @ \cup {tx[t].at}] ELSE activeAt
        /\ tx' = [tx EXCEPT ![t] = IdleTx]
        /\ UNCHANGED <<now, timezone>>

(* A failed statement, a timeout or a crash: the caller's write, the day,  *)
(* the ledger rows and the total all go, or none does.                     *)
Rollback(t) ==
    /\ Open(t)
    /\ tx' = [tx EXCEPT ![t] = IdleTx]
    /\ UNCHANGED <<now, userVars>>

Tick ==
    /\ now < MaxInstant
    /\ now' = now + 1
    /\ UNCHANGED <<userVars, tx>>

(* A null User.timezone is filled in once, by the due-review or dashboard *)
(* request that first carries a zone.                                      *)
LearnTimezone(u) ==
    /\ timezone[u] = "UTC"
    /\ timezone' = [timezone EXCEPT ![u] = "local"]
    /\ UNCHANGED <<now, ledger, total, level, dayRows, stepAt, logAt, activeAt,
                   hookRuns, tx>>

Run(t) ==
    \/ ReadUnlocked(t) \/ SkipDay(t) \/ OpenDay(t) \/ TouchDay(t)
    \/ InsertAwards(t) \/ InsertBadges(t) \/ NoAward(t) \/ UpdateUser(t)
    \/ Commit(t)

Next ==
    \/ \E t \in Txs, u \in Users, c \in Calls : Begin(t, u, c)
    \/ \E t \in Txs : Run(t) \/ Rollback(t)
    \/ Tick
    \/ \E u \in Users : LearnTimezone(u)

Spec == Init /\ [][Next]_vars

(* An open transaction keeps running: its handler is resumed by the event  *)
(* loop, and Postgres serves the waiters of a lock in arrival order, so a  *)
(* statement that can proceed again and again does.                        *)
FairSpec == Spec /\ \A t \in Txs : SF_vars(Run(t))
-----------------------------------------------------------------------------
TxType ==
    [pc : {"idle", "read", "day", "awards", "badges", "update", "commit"},
     user : Users \cup {None}, call : Calls \cup {NoCall},
     at : Int, zone : Zones, previousTotal : Nat, previousLevel : Nat,
     known : Int, unlocked : SUBSET Badges, day : Int,
     isNewDay : BOOLEAN, streak : Int, rows : SUBSET Keys, pay : Nat,
     newLevel : Nat]

(* Every variable has its type. *)
TypeOK ==
    /\ now \in Nat
    /\ timezone \in [Users -> Zones]
    /\ ledger \in [Users -> SUBSET Keys]
    /\ total \in [Users -> Nat]
    /\ level \in [Users -> Nat]
    /\ dayRows \in [Users -> SUBSET Int]
    /\ stepAt \in [Users -> [Lessons -> Int]]
    /\ logAt \in [Users -> SUBSET Int] /\ activeAt \in [Users -> SUBSET Int]
    /\ hookRuns \in [Users -> Nat]
    /\ tx \in [Txs -> TxType]

(* totalPoints == SUM(XpTransaction.amount): two awards landing at once,   *)
(* replays and rollbacks never make the cached total drift from the ledger *)
(* (schema.prisma, the comment on User.totalPoints).                       *)
TotalIsLedgerSum ==
    \A u \in Users : total[u] = sumAmounts(ledger[u])

(* A "first time" badge is held exactly when the ledger proves the first   *)
(* time, although award() looks only at the rows its own call inserted: a  *)
(* badge is not lost when two first stages are finished at once, when one  *)
(* of them rolls back, or when the paying call was a replay.               *)
FirstBadgesMatchLedger == \A u \in Users : FirstsEarned(ledger[u])

(* XP_500 is never unlocked early: the XP earned without it reaches 500,   *)
(* even though the unlock is decided on a total read at Begin.             *)
Xp500Earned ==
    \A u \in Users : Xp500 \in ledger[u] =>
        sumAmounts(ledger[u] \ {Xp500}) >= 500

(* The stored level may lag behind the total but never runs ahead of it.   *)
LevelNeverAhead ==
    \A u \in Users : level[u] <= levelForXp(total[u])

(* Streak Together's and the referral's hooks run once for each activity   *)
(* day, whatever requests race across midnight to open it.                 *)
HooksOncePerDay ==
    \A u \in Users : hookRuns[u] = Cardinality(dayRows[u])

(* STREAK_3 and STREAK_7 are only granted for that many days in a row of   *)
(* real activity: calls that count as none, overwritten step rows and      *)
(* rolled-back days never lengthen the streak the badge is decided on.     *)
(* The days are those of the zone at that moment: once a zone is learned,  *)
(* the scan counts earlier activity anew, on days that may differ from the *)
(* UserDailyActivity rows.                                                 *)
StreakBadgesEarned == \A u \in Users : StreaksEarned(ledger[u], activeAt[u])

(* The badges a student holds are those their history earns.               *)
BadgesMatchHistory == FirstBadgesMatchLedger /\ StreakBadgesEarned

(* No transaction waits for ever: the rows are locked in one order (step,  *)
(* day, awards, badges, user), so a waiter's rival always ends.            *)
EveryCallEnds == \A t \in Txs : Open(t) ~> ~Open(t)
=============================================================================
