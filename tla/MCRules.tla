------------------------------- MODULE MCRules -------------------------------
(***************************************************************************)
(* What is computed from the calendar and from a student's answers: the    *)
(* level curve walked one XP at a time, the activity days of one student   *)
(* as the calendar moves on, one word under every sequence of answers, and *)
(* the streak that a pair of students keeps, in scenes that each fix what  *)
(* the two have done before and which requests they make; the links to a   *)
(* pair, the board of all pairs, and the rows of a day one by one.         *)
(* `subject` says which of them moves.                                     *)
(***************************************************************************)
EXTENDS XpRules, StreakTogether, TLC, Sequences

Srs == INSTANCE SrsScheduler

CONSTANTS MaxXp,         \* the last total walked to
          Window,        \* the days a streak scan looks at
          MaxDay,        \* the last day of the calendar
          MaxInterval,   \* a word further out than this is not reviewed again
          MaxRecalls,    \* bound on a word's repetitions
          MaxLapses,     \* bound on a word's lapses
          MaxRows,       \* bound on the activity rows
          i1, i2, Scenes

VARIABLES subject, totalXp, today, active, word, rows, scene

own      == <<totalXp, today, active, word, rows>>
shown    == <<linkVars, boardVars>>
pairVars == <<vars, scene>>
-----------------------------------------------------------------------------
Together == [u \in Members |-> "local"]
Abroad   == [low |-> "UTC", high |-> "local"]

Row(status, current, longest, last) ==
    [status |-> status, currentStreak |-> current, longestStreak |-> longest,
     lastQualifiedDay |-> last]
Running == Row("ACTIVE", 2, 2, 1)
Broken  == Row("BROKEN", 0, 2, 1)

Sent(by)    == [NoInvite EXCEPT !.status = "PENDING", !.by = by]
NoInvites   == [i \in Invites |-> NoInvite]
TwoInvites  == (i1 :> Sent("low")) @@ (i2 :> Sent("high"))

Past(at, zones, days, row, sent) ==
    [now |-> at, zone |-> zones, days |-> [u \in Members |-> days], pair |-> row,
     invites |-> sent]

(* daily: a running streak, studied and viewed across two midnights.       *)
(* abroad: the same from two time zones.                                   *)
(* return: a broken pair that studies again, with old invitations left.    *)
(* invites: two strangers, their invitations and their links.              *)
SceneOf ==
    [daily   |-> [past |-> Past(3, Together, {0, 1}, Running, NoInvites), until |-> 6,
                  kinds |-> {"study", "view"}],
     abroad  |-> [past |-> Past(3, Abroad, {0, 1}, Running, NoInvites), until |-> 6,
                  kinds |-> {"study", "view"}],
     return  |-> [past |-> Past(5, Together, {0, 1}, Broken, TwoInvites), until |-> 5,
                  kinds |-> {"study", "view", "accept", "link"}],
     invites |-> [past |-> Past(3, Together, {}, NoPair, NoInvites), until |-> 3,
                  kinds |-> {"send", "accept", "link"}]]

MCPasts == {SceneOf[s].past : s \in Scenes}

PairInit ==
    /\ Init
    /\ scene \in Scenes
    /\ LET past == SceneOf[scene].past IN
          /\ now = past.now /\ zone = past.zone /\ dayRows = past.days
          /\ pair = past.pair /\ invites = past.invites

PairNext ==
    LET s == SceneOf[scene] IN
    /\ Next
    /\ now' <= s.until
    /\ \A r \in Requests : request'[r].kind \in s.kinds \cup {"none"}
    /\ UNCHANGED scene
-----------------------------------------------------------------------------
RulesInit ==
    /\ subject \in {"xp", "days", "word", "pair", "links", "board", "rows"}
    /\ totalXp = -3    \* clamped, like any total below 0
    /\ today = Window
    /\ active \in IF subject = "days" THEN SUBSET (Window - 2 .. Window) ELSE {{}}
    /\ word = Srs!DEFAULT_NEW_PROGRESS
    /\ rows = {}
    /\ LinksInit /\ BoardInit
    /\ PairInit /\ (subject # "pair" => scene = "daily")

Earn ==
    /\ subject = "xp" /\ totalXp < MaxXp
    /\ totalXp' = totalXp + 1
    /\ UNCHANGED <<today, active, word, rows, shown, pairVars>>

Study ==
    /\ subject = "days" /\ today \notin active
    /\ active' = active \cup {today}
    /\ UNCHANGED <<totalXp, today, word, rows, shown, pairVars>>

Midnight ==
    /\ subject = "days" /\ today < MaxDay
    /\ today' = today + 1
    /\ UNCHANGED <<totalXp, active, word, rows, shown, pairVars>>

AnswerWord(rating, tie) ==
    /\ subject = "word"
    /\ word.intervalDays <= MaxInterval
    /\ word.repetitions < MaxRecalls /\ word.lapses < MaxLapses
    /\ word' = Srs!next(word, rating, 0, tie)
    /\ UNCHANGED <<totalXp, today, active, rows, shown, pairVars>>

PairMoves == subject = "pair" /\ PairNext /\ UNCHANGED <<own, shown>>

LinksMove == subject = "links" /\ LinksNext /\ UNCHANGED <<own, boardVars, pairVars>>
BoardMoves == subject = "board" /\ BoardNext /\ UNCHANGED <<own, linkVars, pairVars>>

AddRow(table, at) ==
    /\ subject = "rows" /\ Cardinality(rows) < MaxRows
    /\ rows' = rows \cup {[table |-> table, at |-> at]}
    /\ UNCHANGED <<totalXp, today, active, word, shown, pairVars>>

RulesNext ==
    /\ \/ Earn \/ Study \/ Midnight \/ PairMoves \/ LinksMove \/ BoardMoves
       \/ \E table \in DOMAIN ActivityTables, at \in 0 .. MaxInstant : AddRow(table, at)
       \/ \E rating \in Srs!Ratings, tie \in {0, 1} : AnswerWord(rating, tie)
    /\ UNCHANGED subject

RulesSpec == RulesInit /\ [][RulesNext]_<<subject, own, shown, pairVars>>
-----------------------------------------------------------------------------
Streak == countCurrentStreak(today, Window, active)

(* The loop of countCurrentStreak: walk back from `day`, stop at the first *)
(* day that is missing or has left the window.                             *)
RECURSIVE Walk(_)
Walk(day) ==
    IF day \in active /\ day > today - Window THEN 1 + Walk(day - 1) ELSE 0

(* A new day alone never breaks a streak that yesterday was part of (a     *)
(* student who studies every evening must not read 0 every morning); it    *)
(* breaks once a whole day has passed with nothing in it, and studying     *)
(* adds exactly one day.  (A streak that fills the window stops growing.)  *)
StreakKeepsItsDays ==
    [][/\ Streak' = IF today' \in active' THEN Walk(today)' ELSE Walk(today - 1)'
       /\ today' # today =>
            IF today \in active
            THEN Streak < Window => Streak' = Streak
            ELSE Streak' = 0
       /\ today' = today /\ active' # active /\ Streak < Window - 1 =>
            Streak' = Streak + 1]_<<today, active>>

(* What is told of a day is of that day, at every moment of it.            *)
RowsAreOfToday ==
    \A at \in 0 .. MaxInstant, z \in Zones : ActivityIsOfToday(rows, at, z)

(* The rules of the level curve and of the scheduler hold at every total   *)
(* and after every sequence of answers (LevelMatchesTable, Shaped,         *)
(* AnswersOrdered); and what is shown of streaks is what their rows say    *)
(* (LinksLead, BoardAgrees, RowsAreOfToday).                               *)
RulesAsTabled ==
    /\ LevelMatchesTable(totalXp) /\ Srs!Shaped(word) /\ Srs!AnswersOrdered(word)
    /\ LinksLead /\ BoardAgrees /\ RowsAreOfToday
=============================================================================
