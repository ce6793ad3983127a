--------------------------- MODULE MCGamification ---------------------------
(***************************************************************************)
(* Gamification for TLC: one student, two requests at a time, in scenes    *)
(* that each fix a past and the calls that race on it.                     *)
(***************************************************************************)
EXTENDS Gamification

CONSTANTS u1, l1, quiz, practice, old, w1, r1, r2, q1, Scenes

VARIABLE scene

(* Eleven practice tasks passed in the past and the badge of the first:    *)
(* 460 XP, so that one more pass reaches 500.                              *)
OldTasks == {<<old, i>> : i \in 1 .. 11}
MCTasks  == OldTasks \cup {quiz, practice}
OldRows  == {taskPassedAward(t, "PRACTICE") : t \in OldTasks}
            \cup {achievementAward("FIRST_STAGE")}

Call(awards, active, step) ==
    [awards |-> awards, countsAsActivity |-> active, step |-> step]

QuizPass     == Call({taskPassedAward(quiz, "QUIZ")}, TRUE, NoStep)
PracticePass == Call({taskPassedAward(practice, "PRACTICE")}, TRUE, NoStep)
FailedQuiz   == Call({}, TRUE, NoStep)
Trap         == Call({trapClearedAward(quiz, q1)}, FALSE, NoStep)
Mastering    == Call({wordReviewedAward(r1), wordMasteredAward(w1)}, TRUE, NoStep)
Review       == Call({wordReviewedAward(r2)}, TRUE, NoStep)
VideoTick    == Call({}, TRUE, l1)
VideoDone    == Call({stageAward(l1, "VIDEO")}, TRUE, l1)

Past(rows, log, zone) == [rows |-> rows, log |-> log, zone |-> zone]

(* veteran: near 500 XP.  newcomer: every badge still to come.             *)
(* week: active on the two days before, across two midnights.              *)
(* traveller: the zone is learned while requests are running, and with it  *)
(* the one past day becomes two.                                           *)
SceneOf ==
    [veteran   |-> [past |-> Past(OldRows, {0}, "local"), until |-> Start,
                    calls |-> {QuizPass, Mastering, Trap}],
     newcomer  |-> [past |-> Past({}, {}, "local"), until |-> Start,
                    calls |-> {QuizPass, PracticePass, VideoDone}],
     week      |-> [past |-> Past({}, {0, 2}, "local"), until |-> MaxInstant,
                    calls |-> {VideoTick, Trap}],
     traveller |-> [past |-> Past({}, {0, 1}, "UTC"), until |-> MaxInstant,
                    calls |-> {VideoTick, FailedQuiz}]]

MCCalls == UNION {SceneOf[s].calls : s \in Scenes}
MCPasts == {SceneOf[s].past : s \in Scenes}

MCInit == /\ Init
          /\ scene \in Scenes
          /\ SceneOf[scene].past = Past(ledger[u1], logAt[u1], timezone[u1])
MCNext == /\ Next
          /\ now' <= SceneOf[scene].until
          /\ \A t \in Txs : tx'[t].call \in SceneOf[scene].calls \cup {NoCall}
          /\ UNCHANGED scene
MCSpec == MCInit /\ [][MCNext]_<<vars, scene>>
          /\ \A t \in Txs : SF_vars(Run(t))
=============================================================================
