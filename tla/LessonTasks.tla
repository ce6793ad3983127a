---------------------------- MODULE LessonTasks ----------------------------
(***************************************************************************)
(* One student, one lesson: its quiz, its Advanced Practice and the trap   *)
(* hunter that replays the quiz's mistakes (src/lesson/quiz).  The state   *)
(* is one LessonTaskProgress row per task, the append-only                 *)
(* LessonTaskAttempt history, and the XP ledger keys these handlers award. *)
(*                                                                         *)
(* Every endpoint reads the progress row without locking it, decides, and  *)
(* later writes absolute values by the row's id: under READ COMMITTED      *)
(* another request may commit in between.  A request is therefore its      *)
(* reads, one step each, and then Save, which stands for its writes and    *)
(* COMMIT.  Folding the writes into one step loses nothing: nobody sees    *)
(* them before COMMIT, and whoever waits for a lock ends as if it had      *)
(* arrived after it.  An insert of the progress row is the exception       *)
(* (Create), since its failure comes before the reads that follow it.      *)
(*                                                                         *)
(* What is submitted is right or wrong: grade-question.ts is a function    *)
(* of the answer alone.  Clocks, seeds and durations are left out, and     *)
(* the questions of a task do not change while it is being answered.       *)
(***************************************************************************)
EXTENDS Absent, Naturals, FiniteSets

CONSTANTS
    Tasks,        \* the published tasks of the lesson, of {"QUIZ", "PRACTICE"}
    Immediate,    \* those whose feedbackMode is IMMEDIATE; the others ON_SUBMIT
    Questions,    \* the questions of a task
    PassingPercent,
    Ids,          \* client attempt ids
    Requests,     \* HTTP requests, each of which makes one call
    MaxHint,      \* hint levels of a question
    Calls(_),     \* the calls the requests of a scene make
    Scenes,       \* names of starting points ...
    Rows(_),      \* ... their progress rows ...
    Attempts(_),  \* ... and attempt histories
    Refused,      \* the reply to a call the handler throws a 4xx for
    Failed        \* ... and to a unique violation: a 500, the transaction gone

ASSUME LessonAssumption ==
    /\ Tasks \subseteq {"QUIZ", "PRACTICE"}  /\ Immediate \subseteq Tasks
    /\ IsFiniteSet(Questions) /\ Questions # {} /\ PassingPercent \in 1..100
    /\ MaxHint \in Nat /\ None \notin Ids /\ None \notin Requests

VARIABLES
    scene,
    progress,   \* [Tasks -> LessonTaskProgress row, or None]
    history,    \* LessonTaskAttempt: rows of [by, task, id, result]
    paidTasks,  \* tasks with a TASK_PASSED ledger key
    paidTraps,  \* questions with a TRAP_CLEARED ledger key
    req,        \* [Requests -> the request being handled]
    raced       \* history variable: some task's row was written over a newer one

vars == <<scene, progress, history, paidTasks, paidTraps, req, raced>>

-----------------------------------------------------------------------------
(* Data                                                                    *)

\* What was submitted for each question: "none" is a question left out, "null"
\* one sent or recorded as null.
Answers == [Questions -> {"none", "null", "right", "wrong"}]
Unanswered == [q \in Questions |-> "none"]

\* CurrentAttempt, the JSON column of answers recorded under IMMEDIATE.
NoCurrent == [id |-> None, answers |-> Unanswered]

NoTraps == [source |-> None,
            traps  |-> [q \in Questions |-> [cleared |-> FALSE, attempts |-> 0, hintLevel |-> 0]]]

\* The row as createdAt leaves it: attemptStartedAt is what start stamps.
NewRow(started) ==
    [started |-> started, current |-> NoCurrent, attemptsCount |-> 0, score |-> 0,
     completed |-> FALSE, lastId |-> None, lastAnswers |-> Unanswered, lastResult |-> None, traps |-> NoTraps]

Results == [answers: Answers, attemptsCount: Nat, best: 0..100]
TrapRecords == [Questions -> [cleared: BOOLEAN, attempts: Nat, hintLevel: 0..MaxHint]]
ProgressRows ==
    [started: BOOLEAN, current: [id: Ids \union {None}, answers: Answers],
     attemptsCount: Nat, score: Nat, completed: BOOLEAN, lastId: Ids \union {None},
     lastAnswers: Answers, lastResult: Results \union {None},
     traps: [source: Ids \union {None}, traps: TrapRecords]]
AttemptRows == [by: Requests \union {None}, task: Tasks, id: Ids, result: Results]

correctCount(answers) == Cardinality({q \in Questions : answers[q] = "right"})
\* Whole percents; where the code's division in floating point falls just
\* below one (29 of 50) it floors to the percent before.
accuracyPercent(correct) == (correct * 100) \div Cardinality(Questions)
Passes(answers) == accuracyPercent(correctCount(answers)) >= PassingPercent

\* readWrongAnswers: the mistakes of a submitted result.
readWrongAnswers(result) == {q \in Questions : result.answers[q] # "right"}

\* readTrapState: a state that belongs to a superseded attempt is a fresh one.
readTrapState(row) ==
    IF row.traps.source = row.lastId THEN row.traps
    ELSE [NoTraps EXCEPT !.source = row.lastId]

clearedAmong(questions, state) == {q \in questions : state.traps[q].cleared}

attemptsOf(t, rows) == {a \in rows : a.task = t}
passedAmong(rows) == {a \in rows : Passes(a.result.answers)}

\* What a progress row of task t says is in these history rows.
Backed(row, t, rows) ==
    /\ row.completed \/ row.lastId # None => row.attemptsCount > 0
    /\ row.attemptsCount > 0 =>
         /\ \E a \in attemptsOf(t, rows) : a.id = row.lastId /\ a.result = row.lastResult
         /\ \E a \in attemptsOf(t, rows) : correctCount(a.result.answers) = row.score
         /\ row.attemptsCount <= Cardinality(attemptsOf(t, rows))
    /\ row.completed => passedAmong(attemptsOf(t, rows)) # {}

\* A progress row that is exactly what these attempts add up to.  "Best" is in
\* percent, as isNewBest compares: with more than 100 questions two scores may
\* share a percentage, and then the first of them stays.
Exact(row, rows) ==
    /\ row.attemptsCount = Cardinality(rows)
    /\ row.completed <=> passedAmong(rows) # {}
    /\ \A a \in rows : accuracyPercent(correctCount(a.result.answers)) <= accuracyPercent(row.score)

-----------------------------------------------------------------------------
(* A request                                                               *)

\* What an endpoint is called with; the fields it has no use for are None.
CallType ==
    {c \in [op: {"start", "answer", "submit", "trap", "hint"}, task: Tasks,
            id: Ids \union {None}, answers: Answers, question: Questions \union {None},
            right: BOOLEAN, level: 0..MaxHint] :
        /\ c.op \in {"answer", "submit"} => c.id \in Ids
        /\ c.op \in {"answer", "trap", "hint"} => c.question \in Questions
        /\ c.op \in {"trap", "hint"} => c.task = "QUIZ"}

NoCall == [op |-> "none", task |-> None, id |-> None, answers |-> Unanswered,
           question |-> None, right |-> FALSE, level |-> 0]
Idle == [pc |-> "idle", call |-> NoCall, row |-> None, creates |-> FALSE,
         traps |-> {}, reply |-> None]

\* A starting point is what earlier requests leave behind, one at a time.
ASSUME SceneAssumption ==
    /\ {None, Refused, Failed} \intersect Results = {} /\ None \notin ProgressRows
    /\ \A s \in Scenes :
          /\ Calls(s) \subseteq CallType
          /\ Attempts(s) \subseteq AttemptRows /\ IsFiniteSet(Attempts(s))
          /\ \A a, b \in Attempts(s) : a.id = b.id => a = b
          /\ Rows(s) \in [Tasks -> ProgressRows \union {None}]
          /\ \A t \in Tasks : Rows(s)[t] # None =>
                /\ Backed(Rows(s)[t], t, Attempts(s))
                /\ Exact(Rows(s)[t], attemptsOf(t, Attempts(s)))
                /\ clearedAmong(Questions, Rows(s)[t].traps) = {}
          /\ \A t \in Tasks : Rows(s)[t] = None => attemptsOf(t, Attempts(s)) = {}

Init ==
    /\ scene \in Scenes
    /\ progress = Rows(scene)
    /\ history = Attempts(scene)
    /\ paidTasks = {a.task : a \in passedAmong(history)}
    /\ paidTraps = {}
    /\ req = [r \in Requests |-> Idle]
    /\ raced = FALSE

At(r, pc) == req[r].pc = pc
Goto(r, pc) == req' = [req EXCEPT ![r].pc = pc]
\* The end of a request; a transaction that began by inserting is over too.
Leave(r, reply) ==
    req' = [req EXCEPT ![r] = [@ EXCEPT !.pc = "done", !.reply = reply, !.creates = FALSE]]
ReadOnly == UNCHANGED <<scene, progress, history, paidTasks, paidTraps, raced>>

\* A practice request passes the gates of practice.service.ts first, a trap
\* request loads the traps outside its transaction; the quiz goes straight in.
FirstStep(call) ==
    CASE call.op \in {"trap", "hint"} -> "load"
      [] call.task = "PRACTICE"       -> "passed"
      [] OTHER                        -> "find"

Begin(r) ==
    /\ At(r, "idle")
    /\ \E call \in Calls(scene) :
          req' = [req EXCEPT ![r] = [@ EXCEPT !.call = call, !.pc = FirstStep(call)]]
    /\ ReadOnly

-----------------------------------------------------------------------------
(* The gates of Advanced Practice: three reads, no lock                    *)

CheckQuizPassed(r) ==
    /\ At(r, "passed") /\ ReadOnly
    /\ LET quiz == progress["QUIZ"] IN
       IF "QUIZ" \notin Tasks THEN Goto(r, "started")
       ELSE IF quiz # None /\ quiz.completed THEN Goto(r, "cleared")
       ELSE Leave(r, Refused)

\* getTrapHunter: a row never submitted has no traps to clear.
CheckTrapsCleared(r) ==
    /\ At(r, "cleared") /\ ReadOnly
    /\ LET quiz  == progress["QUIZ"]
           traps == IF quiz.lastId = None THEN {} ELSE readWrongAnswers(quiz.lastResult)
       IN  IF clearedAmong(traps, readTrapState(quiz)) = traps
           THEN Goto(r, "started") ELSE Leave(r, Refused)

\* startPractice itself skips this: it is what stamps the clock.
CheckStarted(r) ==
    /\ At(r, "started") /\ ReadOnly
    /\ IF \/ req[r].call.op = "start"
          \/ progress["PRACTICE"] # None /\ progress["PRACTICE"].started
       THEN Goto(r, "find") ELSE Leave(r, Refused)

-----------------------------------------------------------------------------
(* Reading and creating the progress row                                   *)

FindProgress(r) ==
    LET row == progress[req[r].call.task] IN
    /\ At(r, "find") /\ ReadOnly
    /\ req' = [req EXCEPT ![r] = [@ EXCEPT !.row = row,
                                           !.pc = IF row = None THEN "create" ELSE "decide"]]

\* The insert waits for another transaction's insert of the same row, and
\* violates (userId, taskId) if that one committed.
CreateProgress(r) ==
    LET call == req[r].call IN
    /\ At(r, "create") /\ ReadOnly
    /\ \A s \in Requests \ {r} : ~(req[s].creates /\ req[s].call.task = call.task)
    /\ IF progress[call.task] # None THEN Leave(r, Failed)
       ELSE req' = [req EXCEPT ![r] = [@ EXCEPT
                      !.row = NewRow(call.op # "submit"), !.creates = TRUE,
                      !.pc = IF call.op = "start" THEN "save" ELSE "decide"]]

-----------------------------------------------------------------------------
(* Deciding, from the row that was read                                    *)

\* startStudentAttempt returns an attempt in flight untouched.
DecideStart(r) ==
    /\ At(r, "decide") /\ req[r].call.op = "start" /\ ReadOnly
    /\ IF req[r].row.started THEN Leave(r, None) ELSE Goto(r, "save")

\* A different attempt id starts the record over.
attemptFor(row, id) ==
    IF row.current.id = id THEN row.current ELSE [id |-> id, answers |-> Unanswered]

\* An answered question is replayed: no re-grade, no write.
DecideAnswer(r) ==
    LET call == req[r].call IN
    /\ At(r, "decide") /\ call.op = "answer" /\ ReadOnly
    /\ IF call.task \notin Immediate THEN Leave(r, Refused)
       ELSE IF attemptFor(req[r].row, call.id).answers[call.question] # "none"
       THEN Leave(r, None)
       ELSE Goto(r, "save")

\* A replay is compared with what was submitted only under ON_SUBMIT: with
\* lastAnswers on the fast path, with the results of the history row, where a
\* question left out is there as null, on the deep one.
replay(r, previousAnswers, result) ==
    IF req[r].call.task \notin Immediate /\ previousAnswers # req[r].call.answers
    THEN Leave(r, Refused) ELSE Leave(r, result)

\* lessonTaskAttempt.findUnique by (userId, clientAttemptId).
priorAttempt(id) == {row \in history : row.id = id}

\* What the attempt is graded from: the recorded answers, or the sent ones.
gradedAnswers(r) ==
    IF req[r].call.task \in Immediate THEN req[r].row.current.answers ELSE req[r].call.answers

DecideSubmit(r) ==
    LET call == req[r].call  row == req[r].row IN
    /\ At(r, "decide") /\ call.op = "submit" /\ ReadOnly
    /\ IF row.lastId = call.id THEN replay(r, row.lastAnswers, row.lastResult)
       ELSE IF priorAttempt(call.id) # {}
       THEN \E prior \in priorAttempt(call.id) : replay(r, prior.result.answers, prior.result)
       ELSE IF /\ call.task \in Immediate
               /\ \E q \in Questions : gradedAnswers(r)[q] = "none"
       THEN Leave(r, Refused)
       ELSE Goto(r, "save")

-----------------------------------------------------------------------------
(* Writing                                                                 *)

\* The row a request writes over; its own insert if it created it.
current(r) == IF req[r].creates THEN req[r].row ELSE progress[req[r].call.task]

Write(r, row) ==
    /\ progress' = [progress EXCEPT ![req[r].call.task] = row]
    /\ raced' = (raced \/ current(r) # req[r].row)

SaveStart(r) ==
    /\ At(r, "save") /\ req[r].call.op = "start"
    /\ Write(r, [current(r) EXCEPT !.started = TRUE])
    /\ Leave(r, None)
    /\ UNCHANGED <<scene, history, paidTasks, paidTraps>>

SaveAnswer(r) ==
    LET call == req[r].call
        attempt == attemptFor(req[r].row, call.id)
    IN  /\ At(r, "save") /\ call.op = "answer"
        /\ Write(r, [current(r) EXCEPT !.current = [attempt EXCEPT
              !.answers[call.question] = IF call.right THEN "right" ELSE "wrong"]])
        /\ Leave(r, None)
        /\ UNCHANGED <<scene, history, paidTasks, paidTraps>>

(* Mutant: the comparison with the best score the wrong way round. *)
isNewWorst(row, correct) ==
    row.attemptsCount = 0 \/ accuracyPercent(correct) < accuracyPercent(row.score)

isNewBest(row, correct) ==
    row.attemptsCount = 0 \/ accuracyPercent(correct) > accuracyPercent(row.score)

responseBody(row, answers) ==
    LET correct == correctCount(answers) IN
    [answers |-> [q \in Questions |-> IF answers[q] = "none" THEN "null" ELSE answers[q]],
     attemptsCount |-> row.attemptsCount + 1,
     best |-> accuracyPercent(IF isNewBest(row, correct) THEN correct ELSE row.score)]

(* Mutant: only a pass at the first attempt pays. *)
passedFirst(row, answers) == row.attemptsCount = 0 /\ Passes(answers)

\* XP is due on the transition into passing, as the row that was read saw it.
justPassed(row, answers) == ~row.completed /\ Passes(answers)

\* The progress update: absolute values computed from the row that was read.
submittedRow(r, answers) ==
    LET row == req[r].row  correct == correctCount(answers) IN
    [current(r) EXCEPT
        !.attemptsCount = row.attemptsCount + 1,
        !.score = IF isNewBest(row, correct) THEN correct ELSE row.score,
        !.completed = row.completed \/ Passes(answers),
        !.started = FALSE, !.current = NoCurrent,
        !.lastId = req[r].call.id, !.lastAnswers = answers,
        !.lastResult = responseBody(row, answers)]

(* Mutant: no unique index on (userId, clientAttemptId). *)
attemptNeverTaken(id) == FALSE

\* The unique (userId, clientAttemptId) index refuses the history row.
attemptTaken(id) == \E row \in history : row.id = id

(* Mutant: a failed attempt is not worth a history row. *)
SavePasses(r) ==
    LET call == req[r].call  answers == gradedAnswers(r)
        body == responseBody(req[r].row, answers)
    IN  /\ At(r, "save") /\ call.op = "submit"
        /\ ~attemptTaken(call.id)
        /\ history' = IF Passes(answers)
                      THEN history \union {[by |-> r, task |-> call.task, id |-> call.id, result |-> body]}
                      ELSE history
        /\ Write(r, submittedRow(r, answers))
        /\ paidTasks' = IF justPassed(req[r].row, answers) THEN paidTasks \union {call.task}
                        ELSE paidTasks
        /\ Leave(r, body)
        /\ UNCHANGED <<scene, paidTraps>>

SaveSubmit(r) ==
    LET call == req[r].call  answers == gradedAnswers(r)
        body == responseBody(req[r].row, answers)
    IN  /\ At(r, "save") /\ call.op = "submit"
        /\ ~attemptTaken(call.id)
        /\ history' = history \union {[by |-> r, task |-> call.task, id |-> call.id, result |-> body]}
        /\ Write(r, submittedRow(r, answers))
        /\ paidTasks' = IF justPassed(req[r].row, answers) THEN paidTasks \union {call.task}
                        ELSE paidTasks
        /\ Leave(r, body)
        /\ UNCHANGED <<scene, paidTraps>>

SubmitTwice(r) ==
    /\ At(r, "save") /\ req[r].call.op = "submit" /\ attemptTaken(req[r].call.id)
    /\ Leave(r, Failed) /\ ReadOnly

-----------------------------------------------------------------------------
(* Trap hunter: the mistakes are loaded outside the transaction, the row   *)
(* is read again inside it                                                 *)

(* Mutant: any question of the quiz can be answered as a trap. *)
LoadAnyQuestion(r) ==
    LET row == progress["QUIZ"] IN
    /\ At(r, "load") /\ ReadOnly
    /\ IF row = None \/ row.lastId = None THEN Leave(r, Refused)
       ELSE req' = [req EXCEPT ![r] = [@ EXCEPT
                      !.traps = readWrongAnswers(row.lastResult), !.pc = "find"]]

LoadTraps(r) ==
    LET row == progress["QUIZ"]  call == req[r].call IN
    /\ At(r, "load") /\ ReadOnly
    /\ IF row = None \/ row.lastId = None \/ call.question \notin readWrongAnswers(row.lastResult)
       THEN Leave(r, Refused)
       ELSE req' = [req EXCEPT ![r] = [@ EXCEPT
                      !.traps = readWrongAnswers(row.lastResult), !.pc = "find"]]

recordFor(r) == readTrapState(req[r].row).traps[req[r].call.question]

\* A cleared trap is replayed, a hint already unlocked is not written again.
DecideTrap(r) ==
    LET call == req[r].call IN
    /\ At(r, "decide") /\ call.op \in {"trap", "hint"} /\ ReadOnly
    /\ IF \/ call.op = "trap" /\ recordFor(r).cleared
          \/ call.op = "hint" /\ call.level <= recordFor(r).hintLevel
       THEN Leave(r, None) ELSE Goto(r, "save")

updatedTrap(r) ==
    LET call == req[r].call IN
    IF call.op = "hint" THEN [recordFor(r) EXCEPT !.hintLevel = call.level]
    ELSE IF call.right THEN [recordFor(r) EXCEPT !.cleared = TRUE]
    ELSE [recordFor(r) EXCEPT !.attempts = @ + 1]

SaveTrap(r) ==
    LET call == req[r].call
        clears == call.op = "trap" /\ call.right
    IN  /\ At(r, "save") /\ call.op \in {"trap", "hint"}
        /\ Write(r, [current(r) EXCEPT
              !.traps = [readTrapState(req[r].row) EXCEPT !.traps[call.question] = updatedTrap(r)]])
        /\ paidTraps' = IF clears THEN paidTraps \union {call.question} ELSE paidTraps
        /\ Leave(r, None)
        /\ UNCHANGED <<scene, history, paidTasks>>

-----------------------------------------------------------------------------
Step(r) ==
    \/ Begin(r) \/ CheckQuizPassed(r) \/ CheckTrapsCleared(r) \/ CheckStarted(r)
    \/ FindProgress(r) \/ CreateProgress(r)
    \/ DecideStart(r) \/ DecideAnswer(r) \/ DecideSubmit(r) \/ DecideTrap(r)
    \/ SaveStart(r) \/ SaveAnswer(r) \/ SaveSubmit(r) \/ SubmitTwice(r)
    \/ LoadTraps(r) \/ SaveTrap(r)

Next == \E r \in Requests : Step(r)

Spec == Init /\ [][Next]_vars

-----------------------------------------------------------------------------
(* Properties                                                              *)

PCs == {"idle", "load", "passed", "cleared", "started", "find", "create", "decide", "save", "done"}
RequestStates ==
    [pc: PCs, call: CallType \union {NoCall}, row: ProgressRows \union {None},
     creates: BOOLEAN, traps: SUBSET Questions, reply: Results \union {None, Refused, Failed}]

\* Every variable keeps its type.
TypeOK ==
    /\ scene \in Scenes /\ raced \in BOOLEAN
    /\ progress \in [Tasks -> ProgressRows \union {None}]
    /\ history \subseteq AttemptRows
    /\ paidTasks \subseteq Tasks /\ paidTraps \subseteq Questions
    /\ req \in [Requests -> RequestStates]

passedAttempts(t) == passedAmong(attemptsOf(t, history))

\* "The cache below can never describe an attempt this table does not contain"
\* (submitTask): whatever the requests overwrite, what a progress row says of
\* the last attempt, the best score, the count and the pass is in the history.
CacheFromHistory == \A t \in Tasks : progress[t] # None => Backed(progress[t], t, history)

\* While no request wrote over a newer row, the progress row is exactly what
\* its history adds up to: nothing is counted twice, and no best is lost.
ExactUnlessRaced ==
    ~raced => \A t \in Tasks : progress[t] # None =>
        Exact(progress[t], attemptsOf(t, history))

\* An attempt id has one history row, and every submit of it that is answered
\* with a result is answered with that row's (submitTask's two idempotency paths).
OneOutcomePerAttempt ==
    /\ \A a, b \in history : a.id = b.id => a = b
    /\ \A r \in Requests : req[r].call.op = "submit" /\ req[r].reply \in Results =>
          \E a \in history : a.id = req[r].call.id /\ a.result = req[r].reply

\* The TASK_PASSED XP is paid for the tasks that have a passed attempt, even
\* when a race clears completedAt or two passes land at once.
PaidWhenPassed == \A t \in Tasks : t \in paidTasks <=> passedAttempts(t) # {}

\* TRAP_CLEARED XP is paid for a real mistake of some submitted quiz, and a
\* trap shown as cleared has been paid (answerTrap).
TrapsPaidForMistakes ==
    /\ \A q \in paidTraps :
          \E a \in history : a.task = "QUIZ" /\ q \in readWrongAnswers(a.result)
    /\ "QUIZ" \in Tasks /\ progress["QUIZ"] # None =>
          clearedAmong(Questions, progress["QUIZ"].traps) \subseteq paidTraps

\* No XP without what it is for, and none twice: both of the above.
PaidAsEarned == PaidWhenPassed /\ TrapsPaidForMistakes

\* "Set on first pass, never cleared on a later failed retry" (submitTask): a
\* task with a passed attempt stays completed.
CompletedStays == \A t \in Tasks : passedAttempts(t) # {} => progress[t].completed
=============================================================================
