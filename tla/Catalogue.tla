----------------------------- MODULE Catalogue -----------------------------
(***************************************************************************)
(* A course, its lessons and their tasks, as authors change them (course,  *)
(* lesson and quiz administration) and as one student works through them   *)
(* (src/lesson/progress): which stages a lesson offers, when it counts as  *)
(* completed, when practice opens, and what the course page sums up.       *)
(*                                                                         *)
(* An author's handler reads the row it checks, and writes later; saving a *)
(* task is one transaction behind the lock of its row.  The student's      *)
(* steps are atomic here, except that a submit grades the questions it     *)
(* loaded before its transaction (LessonSteps and LessonTasks interleave   *)
(* the rest).  A video of length n is watched to some point up to n; the   *)
(* server measures it by the minutes the author stated, or else by the     *)
(* length the player reported first.                                       *)
(***************************************************************************)
EXTENDS Absent, Naturals, FiniteSets

CONSTANTS
    Lessons,
    Authors,            \* the authors' requests, each of one call
    AuthorCalls,
    FreeLessons,        \* FREE_LESSON_LIMIT
    PassAt,             \* passing score, in percent
    Minute,             \* a minute, in the unit videos are measured by here
    ShortestVideo,      \* MIN_COMPLETABLE_DURATION_SECONDS, in that unit
    FirstLessons, FirstTasks,   \* the rows a scene starts from
    MaxRows, MaxTries   \* bounds: ids of tasks and questions, attempts of a task

Kinds == {"QUIZ", "PRACTICE"}

\* video: the length of the file, 0 without one; minutes: what the author says it
\* is, 0 when he does not; notes: a body, a heading without one, or None
LessonType == [at : Nat, on : BOOLEAN, video : Nat, minutes : Nat, audio : BOOLEAN,
               notes : {None, "heading", "text"}]
TaskType == [id : Nat, on : BOOLEAN, questions : SUBSET Nat]
\* the student's rows, and the submit on its way
WatchedType == [highest : Nat, frozen : Nat, done : BOOLEAN]
MarksType == [attempts : Nat, passed : BOOLEAN, wrong : SUBSET Nat, cleared : SUBSET Nat]
SittingType == [at : Lessons \X Kinds, id : Nat, questions : SUBSET Nat]

\* Lessons have places of their own, tasks are those of lessons, and a request
\* is one the DTOs let through; update() writes neither the place nor the switch.
ASSUME CatalogueAssumption ==
    /\ FreeLessons \in Nat /\ PassAt \in 1 .. 100 /\ Minute \in Nat /\ ShortestVideo \in Nat
    /\ MaxRows \in Nat /\ MaxTries \in Nat
    /\ IsFiniteSet(Lessons)
    /\ None \notin {"draft", "published", "heading", "text"} \cup LessonType \cup TaskType
                     \cup WatchedType \cup MarksType \cup SittingType
    /\ FirstLessons \in [Lessons -> LessonType \cup {None}]
    /\ FirstTasks \in [Lessons \X Kinds -> TaskType \cup {None}]
    /\ \A x \in Lessons \X Kinds : FirstTasks[x] # None => FirstLessons[x[1]] # None
    /\ \A l, m \in Lessons : l # m /\ FirstLessons[l] # None /\ FirstLessons[m] # None =>
                              FirstLessons[l].at # FirstLessons[m].at
    /\ \A call \in AuthorCalls :
          /\ call.lesson \in Lessons /\ call.kind \in Kinds
          /\ call.op = "save" => call.keep \in SUBSET Nat /\ IsFiniteSet(call.keep) /\ call.more \in Nat
          /\ call.op = "edit" =>
                /\ DOMAIN call.change \subseteq {"video", "minutes", "audio", "notes"}
                /\ "video" \in DOMAIN call.change => call.change.video \in Nat
                /\ "minutes" \in DOMAIN call.change => call.change.minutes \in Nat
                /\ "audio" \in DOMAIN call.change => call.change.audio \in BOOLEAN
                /\ "notes" \in DOMAIN call.change => call.change.notes \in {None, "heading", "text"}

VARIABLES
    course,     \* the Course row: "draft", "published", or None
    lessonRow,  \* Lesson rows
    taskRow,    \* LessonTask rows with their questions: [id, on, questions]
    nextId,     \* ids of tasks and questions are never used twice
    stepsOf,    \* LessonStepProgress of the student
    marks,      \* LessonTaskProgress of the student
    tries,      \* how many LessonTaskAttempt rows a task has
    sitting,    \* the submit on its way: [at, id, questions]
    paying,     \* the student has a live subscription
    author,     \* the authors' requests
    loose       \* history: lessons placed beside one created meanwhile

catalogueVars == <<course, lessonRow, taskRow, nextId, stepsOf, marks, tries, sitting, paying,
                   author, loose>>

NoSteps == [video |-> None, theory |-> "none"]
NewMarks == [attempts |-> 0, passed |-> FALSE, wrong |-> {}, cleared |-> {}]
NewAuthor == [pc |-> "new", call |-> [op |-> "none"], at |-> 0, orders |-> {}]

CatalogueInit ==
    /\ course = "published"
    /\ lessonRow = FirstLessons /\ taskRow = FirstTasks /\ nextId = 1
    /\ stepsOf = [l \in Lessons |-> NoSteps]
    /\ marks = [x \in Lessons \X Kinds |-> None]
    /\ tries = [x \in Lessons \X Kinds |-> 0]
    /\ sitting = None /\ paying = FALSE
    /\ author = [r \in Authors |-> NewAuthor] /\ loose = {}
-----------------------------------------------------------------------------
(* What a lesson offers and where the student stands                       *)

present(l) == lessonRow[l] # None
placed == {l \in Lessons : present(l)}
shown == {l \in placed : lessonRow[l].on}
tasksOf(l) == {k \in Kinds : taskRow[<<l, k>>] # None}
offered(l, k) == k \in tasksOf(l) /\ taskRow[<<l, k>>].on

\* assertLessonVisible, with isUserPremium
visible(l) ==
    /\ course = "published" /\ l \in shown
    /\ lessonRow[l].at < FreeLessons \/ paying

marksOf(l, k) == IF marks[<<l, k>>] = None THEN NewMarks ELSE marks[<<l, k>>]

\* loadTraps: the mistakes of the last attempt that are still questions.
traps(l) == IF "QUIZ" \in tasksOf(l)
            THEN marksOf(l, "QUIZ").wrong \cap taskRow[<<l, "QUIZ">>].questions ELSE {}
uncleared(l) == traps(l) \ marksOf(l, "QUIZ").cleared

\* lessonHasTheory: a heading without a body is none.
availableStages(l) ==
    {s \in {"video", "theory", "quiz", "traphunter", "practice"} :
        \/ s = "video" /\ lessonRow[l].video > 0
        \/ s = "theory" /\ lessonRow[l].notes = "text"
        \/ s = "quiz" /\ offered(l, "QUIZ")
        \/ s = "traphunter" /\ offered(l, "QUIZ") /\ traps(l) # {}
        \/ s = "practice" /\ offered(l, "PRACTICE")}

isStageCompleted(l, s) ==
    CASE s = "video"      -> stepsOf[l].video # None /\ stepsOf[l].video.done
      [] s = "theory"     -> stepsOf[l].theory = "done"
      [] s = "quiz"       -> marksOf(l, "QUIZ").passed
      [] s = "traphunter" -> traps(l) # {} /\ uncleared(l) = {}
      [] s = "practice"   -> marksOf(l, "PRACTICE").passed

isStageStarted(l, s) ==
    CASE s = "video"      -> stepsOf[l].video # None
      [] s = "theory"     -> stepsOf[l].theory # "none"
      [] s = "quiz"       -> marksOf(l, "QUIZ").attempts > 0
      [] s = "traphunter" -> uncleared(l) # traps(l)
      [] s = "practice"   -> marksOf(l, "PRACTICE").attempts > 0

openStages(l) == {s \in availableStages(l) : ~isStageCompleted(l, s)}

deriveLessonStatus(l) ==
    CASE availableStages(l) = {} -> "NO_CONTENT"
      [] availableStages(l) # {} /\ openStages(l) = {} -> "COMPLETED"
      [] openStages(l) # {} -> IF \E s \in availableStages(l) :
                                     isStageCompleted(l, s) \/ isStageStarted(l, s)
                               THEN "IN_PROGRESS" ELSE "NOT_STARTED"

(* Mutant: a lesson without a quiz has not passed it.                      *)
prerequisitesAsPassed(l) == marksOf(l, "QUIZ").passed /\ uncleared(l) = {}

\* resolvePracticePrerequisites: absence satisfies them, too.
resolvePracticePrerequisites(l) ==
    offered(l, "QUIZ") => marksOf(l, "QUIZ").passed /\ uncleared(l) = {}

\* deriveCourseSummary, from the status of every published lesson
statuses == [l \in shown |-> deriveLessonStatus(l)]
ofStatus(st, status) == {l \in DOMAIN st : st[l] = status}
countable(st) == DOMAIN st \ ofStatus(st, "NO_CONTENT")
progressPercent(st) ==
    IF countable(st) = {} THEN 0
    ELSE (Cardinality(ofStatus(st, "COMPLETED")) * 100) \div Cardinality(countable(st))
courseStatus(st) ==
    CASE countable(st) # {} /\ ofStatus(st, "COMPLETED") = countable(st) -> "COMPLETED"
      [] countable(st) = {} -> "NOT_STARTED"
      [] OTHER -> IF ofStatus(st, "COMPLETED") \cup ofStatus(st, "IN_PROGRESS") # {}
                  THEN "IN_PROGRESS" ELSE "NOT_STARTED"

\* resolveContinueLesson; lessons in the same place come in either order.
foremost(lessons) == {l \in lessons : \A m \in lessons : lessonRow[l].at <= lessonRow[m].at}
resolveContinueLesson(st) ==
    CASE ofStatus(st, "IN_PROGRESS") # {} -> foremost(ofStatus(st, "IN_PROGRESS"))
      [] ofStatus(st, "IN_PROGRESS") = {} /\ ofStatus(st, "NOT_STARTED") # {}
            -> foremost(ofStatus(st, "NOT_STARTED"))
      [] OTHER -> foremost(countable(st))
-----------------------------------------------------------------------------
(* The authors                                                             *)

asksFor(r, op, pc) == author[r].pc = pc /\ author[r].call.op = op
closes(r, reply) == author' = [author EXCEPT ![r] = [NewAuthor EXCEPT !.pc = reply]]
studentRows == <<stepsOf, marks, tries, sitting, paying>>
contentRows == <<course, lessonRow, taskRow, nextId, loose>>

orders == {lessonRow[l].at : l \in placed}
following(taken) == IF taken = {} THEN 0 ELSE 1 + CHOOSE n \in taken : \A m \in taken : m <= n

AskFor(r, call) ==
    /\ author[r].pc = "new"
    /\ author' = [author EXCEPT ![r] = [pc |-> "find", call |-> call, at |-> 0, orders |-> {}]]
    /\ UNCHANGED <<contentRows, studentRows>>

taskOfCall(r) == taskRow[<<author[r].call.lesson, author[r].call.kind>>]

\* findOneOrThrow, assertCourseExists, assertLessonExists, the task's own
\* findFirst, and the guards on what they return.
FindRow(r) ==
    LET call == author[r].call
        ofTask == call.op \in {"save", "publishTask", "unpublishTask", "deleteTask"}
        refused ==
            \/ call.op \in {"create", "publishCourse", "unpublishCourse", "removeCourse"}
                  /\ course = None
            \/ (ofTask \/ call.op \in {"edit", "publishLesson", "unpublishLesson", "removeLesson"})
                  /\ ~present(call.lesson)
            \/ ofTask /\ call.op # "save" /\ taskOfCall(r) = None
            \/ call.op = "publishTask" /\ taskOfCall(r) # None /\ taskOfCall(r).questions = {}
            \/ call.op = "publishLesson" /\ present(call.lesson)
                  /\ lessonRow[call.lesson].video = 0 /\ ~lessonRow[call.lesson].audio
    IN  /\ author[r].pc = "find"
        /\ IF refused THEN closes(r, "refused")
           ELSE author' = [author EXCEPT ![r] =
                   [pc |-> IF call.op \in {"create", "removeLesson", "removeCourse", "deleteTask"}
                           THEN "count" ELSE "write",
                    call |-> call,
                    at |-> IF ofTask /\ taskOfCall(r) # None THEN taskOfCall(r).id ELSE 0,
                    orders |-> {}]]
        /\ UNCHANGED <<contentRows, studentRows>>

\* The count before a delete, and the last place before a create.
CountRows(r) ==
    LET call == author[r].call
        x == <<call.lesson, call.kind>>
        refused == \/ call.op = "removeCourse" /\ placed # {}
                   \/ call.op = "removeLesson" /\ tasksOf(call.lesson) # {}
                   \/ call.op = "deleteTask" /\ (tries[x] > 0 \/ marksOf(x[1], x[2]).attempts > 0)
    IN  /\ author[r].pc = "count"
        /\ IF refused THEN closes(r, "refused")
           ELSE author' = [author EXCEPT ![r] =
                   [pc |-> "write", call |-> call,
                    at |-> IF call.op = "create" THEN following(orders) ELSE author[r].at,
                    orders |-> orders]]
        /\ UNCHANGED <<contentRows, studentRows>>

\* CourseService.publish, unpublish and remove
WriteCourse(r) ==
    /\ author[r].pc = "write"
    /\ author[r].call.op \in {"publishCourse", "unpublishCourse", "removeCourse"}
    /\ LET op == author[r].call.op
       IN  IF course = None \/ (op = "removeCourse" /\ placed # {})
           THEN closes(r, "failed") /\ UNCHANGED course
           ELSE /\ course' = CASE op = "publishCourse" -> "published"
                               [] op = "unpublishCourse" -> "draft"
                               [] op = "removeCourse" -> None
                /\ closes(r, "done")
    /\ UNCHANGED <<lessonRow, taskRow, nextId, loose, studentRows>>

CreateCourse(r) ==
    /\ asksFor(r, "createCourse", "find")
    /\ course = None /\ course' = "draft" /\ closes(r, "done")
    /\ UNCHANGED <<lessonRow, taskRow, nextId, loose, studentRows>>

\* LessonService.create: a draft after the last lesson that was seen
CreateLesson(r) ==
    /\ asksFor(r, "create", "write")
    /\ IF course = None THEN closes(r, "failed") /\ UNCHANGED <<lessonRow, loose>>
       ELSE \E l \in Lessons \ placed :
              /\ lessonRow' = [lessonRow EXCEPT ![l] =
                    [at |-> author[r].at, on |-> FALSE, video |-> 0, minutes |-> 0,
                     audio |-> FALSE, notes |-> None]]
              /\ loose' = IF orders = author[r].orders THEN loose ELSE loose \cup {l}
              /\ closes(r, "done")
    /\ UNCHANGED <<course, taskRow, nextId, studentRows>>

edited(row, change) ==
    [at |-> row.at, on |-> row.on,
     video |-> IF "video" \in DOMAIN change THEN change.video ELSE row.video,
     minutes |-> IF "minutes" \in DOMAIN change THEN change.minutes ELSE row.minutes,
     audio |-> IF "audio" \in DOMAIN change THEN change.audio ELSE row.audio,
     notes |-> IF "notes" \in DOMAIN change THEN change.notes ELSE row.notes]

\* update, publish and unpublish of a lesson
WriteLesson(r) ==
    /\ author[r].pc = "write"
    /\ author[r].call.op \in {"edit", "publishLesson", "unpublishLesson"}
    /\ LET call == author[r].call
           row == lessonRow[call.lesson]
       IN  IF ~present(call.lesson) THEN closes(r, "failed") /\ UNCHANGED lessonRow
           ELSE /\ lessonRow' = [lessonRow EXCEPT ![call.lesson] =
                        IF call.op = "edit" THEN edited(row, call.change)
                        ELSE [row EXCEPT !.on = call.op = "publishLesson"]]
                /\ closes(r, "done")
    /\ UNCHANGED <<course, taskRow, nextId, loose, studentRows>>

\* remove: its tasks forbid it, the student's steps go with it.
RemoveLesson(r) ==
    /\ asksFor(r, "removeLesson", "write")
    /\ LET l == author[r].call.lesson
       IN  IF ~present(l) \/ tasksOf(l) # {}
           THEN closes(r, "refused") /\ UNCHANGED <<lessonRow, stepsOf, loose>>
           ELSE /\ lessonRow' = [lessonRow EXCEPT ![l] = None]
                /\ stepsOf' = [stepsOf EXCEPT ![l] = NoSteps]
                /\ loose' = loose \ {l} /\ closes(r, "done")
    /\ UNCHANGED <<course, taskRow, nextId, marks, tries, sitting, paying>>

\* upsertTask, one transaction: questions the document leaves out go, those it
\* names stay, and whatever else it holds is a new question.
SaveTask(r) ==
    /\ asksFor(r, "save", "write")
    /\ LET call == author[r].call
           x == <<call.lesson, call.kind>>
           row == taskRow[x]
           old == IF row = None THEN {} ELSE row.questions
           id == IF row = None THEN nextId ELSE row.id
           first == IF row = None THEN nextId + 1 ELSE nextId
           new == Cardinality(call.keep \ old) + call.more
       IN  IF ~present(call.lesson) \/ author[r].at # (IF row = None THEN 0 ELSE row.id)
           THEN closes(r, "failed") /\ UNCHANGED <<taskRow, nextId>>
           ELSE /\ first + new <= MaxRows + 1
                /\ taskRow' = [taskRow EXCEPT ![x] =
                        [id |-> id, on |-> row # None /\ row.on,
                         questions |-> (old \cap call.keep) \cup (first .. first + new - 1)]]
                /\ nextId' = first + new
                /\ closes(r, "done")
    /\ UNCHANGED <<course, lessonRow, loose, studentRows>>

\* publishTask and unpublishTask, by the id that was found
PublishTask(r) ==
    /\ asksFor(r, "publishTask", "write") \/ asksFor(r, "unpublishTask", "write")
    /\ LET call == author[r].call
           x == <<call.lesson, call.kind>>
       IN  IF taskRow[x] = None \/ taskRow[x].id # author[r].at
           THEN closes(r, "failed") /\ UNCHANGED taskRow
           ELSE taskRow' = [taskRow EXCEPT ![x].on = call.op = "publishTask"] /\ closes(r, "done")
    /\ UNCHANGED <<course, lessonRow, nextId, loose, studentRows>>

(* Mutant: the statements commit one by one.                               *)
DeleteTaskPiecemeal(r) ==
    /\ asksFor(r, "deleteTask", "write")
    /\ LET x == <<author[r].call.lesson, author[r].call.kind>>
           gone == taskRow[x] = None \/ taskRow[x].id # author[r].at
       IN  /\ marks' = IF gone THEN marks ELSE [marks EXCEPT ![x] = None]
           /\ taskRow' = IF gone \/ tries[x] > 0 THEN taskRow ELSE [taskRow EXCEPT ![x] = None]
    /\ closes(r, "done")
    /\ UNCHANGED <<course, lessonRow, nextId, loose, stepsOf, tries, sitting, paying>>

\* deleteTask: progress rows, questions and task in one transaction, all of it
\* undone when an attempt still holds the task.
DeleteTask(r) ==
    /\ asksFor(r, "deleteTask", "write")
    /\ LET x == <<author[r].call.lesson, author[r].call.kind>>
       IN  IF taskRow[x] = None \/ taskRow[x].id # author[r].at \/ tries[x] > 0
           THEN closes(r, "failed") /\ UNCHANGED <<taskRow, marks>>
           ELSE /\ taskRow' = [taskRow EXCEPT ![x] = None]
                /\ marks' = [marks EXCEPT ![x] = None]
                /\ closes(r, "done")
    /\ UNCHANGED <<course, lessonRow, nextId, loose, stepsOf, tries, sitting, paying>>
-----------------------------------------------------------------------------
(* The student                                                             *)

authorsRest == UNCHANGED <<contentRows, author>>

\* The first report freezes the length, and the author's minutes go before it.
frozenLength(l) ==
    IF stepsOf[l].video = None THEN lessonRow[l].video ELSE stepsOf[l].video.frozen
measuredBy(l) ==
    IF lessonRow[l].minutes > 0 THEN lessonRow[l].minutes * Minute ELSE frozenLength(l)

\* VIDEO_COMPLETION_RATIO is nine tenths
canComplete(highest, length) == length >= ShortestVideo /\ 10 * highest >= 9 * length

\* The position only goes up, and what is completed stays so.
watchedTo(l, position) ==
    LET old == stepsOf[l].video
        highest == IF old # None /\ old.highest > position THEN old.highest ELSE position
    IN  [highest |-> highest, frozen |-> frozenLength(l),
         done |-> (old # None /\ old.done) \/ canComplete(highest, measuredBy(l))]

Watch(l, position) ==
    /\ visible(l) /\ lessonRow[l].video > 0 /\ position <= lessonRow[l].video
    /\ stepsOf' = [stepsOf EXCEPT ![l].video = watchedTo(l, position)]
    /\ authorsRest /\ UNCHANGED <<marks, tries, sitting, paying>>

\* startTheory and completeTheory take any notes that are not blank.
ReadTheory(l, how) ==
    /\ visible(l) /\ lessonRow[l].notes # None
    /\ stepsOf' = [stepsOf EXCEPT ![l].theory = IF @ = "done" THEN @ ELSE how]
    /\ authorsRest /\ UNCHANGED <<marks, tries, sitting, paying>>

\* submitTask loads the task and its questions ...
SitDown(l, k) ==
    /\ sitting = None /\ visible(l) /\ offered(l, k) /\ tries[<<l, k>>] < MaxTries
    /\ k = "PRACTICE" => resolvePracticePrerequisites(l)
    /\ sitting' = [at |-> <<l, k>>, id |-> taskRow[<<l, k>>].id, questions |-> taskRow[<<l, k>>].questions]
    /\ authorsRest /\ UNCHANGED <<stepsOf, marks, tries, paying>>

percentRight(questions, wrong) ==
    IF questions = {} THEN 0
    ELSE (Cardinality(questions \ wrong) * 100) \div Cardinality(questions)

(* Mutant: completedAt is that of the last attempt.                        *)
markedLast(row, questions, wrong) ==
    [attempts |-> row.attempts + 1, passed |-> percentRight(questions, wrong) >= PassAt,
     wrong |-> wrong, cleared |-> {}]

marked(row, questions, wrong) ==
    [attempts |-> row.attempts + 1,
     passed |-> row.passed \/ percentRight(questions, wrong) >= PassAt,
     wrong |-> wrong, cleared |-> {}]

\* ... and grades them, in a transaction that a deleted task fails.
HandIn(wrong) ==
    /\ sitting # None /\ wrong \subseteq sitting.questions
    /\ LET x == sitting.at
       IN  IF taskRow[x] = None \/ taskRow[x].id # sitting.id
           THEN UNCHANGED <<marks, tries>>
           ELSE /\ tries' = [tries EXCEPT ![x] = @ + 1]
                /\ marks' = [marks EXCEPT ![x] = marked(marksOf(x[1], x[2]), sitting.questions, wrong)]
    /\ sitting' = None
    /\ authorsRest /\ UNCHANGED <<stepsOf, paying>>

\* answerTrap, answered right
ClearTrap(l, q) ==
    /\ visible(l) /\ offered(l, "QUIZ") /\ q \in uncleared(l)
    /\ marks' = [marks EXCEPT ![<<l, "QUIZ">>].cleared = @ \cup {q}]
    /\ authorsRest /\ UNCHANGED <<stepsOf, tries, sitting, paying>>

Pay == paying' = ~paying /\ authorsRest /\ UNCHANGED <<stepsOf, marks, tries, sitting>>

CatalogueNext ==
    \/ \E r \in Authors :
         \/ \E call \in AuthorCalls : AskFor(r, call)
         \/ FindRow(r) \/ CountRows(r) \/ WriteCourse(r) \/ CreateCourse(r)
         \/ CreateLesson(r) \/ WriteLesson(r) \/ RemoveLesson(r)
         \/ SaveTask(r) \/ PublishTask(r) \/ DeleteTask(r)
    \/ \E l \in Lessons :
         \/ \E position \in 0 .. (IF present(l) THEN lessonRow[l].video ELSE 0) : Watch(l, position)
         \/ \E how \in {"started", "done"} : ReadTheory(l, how)
         \/ \E k \in Kinds : SitDown(l, k)
         \/ \E q \in uncleared(l) : ClearTrap(l, q)
    \/ \E wrong \in SUBSET (IF sitting = None THEN {} ELSE sitting.questions) : HandIn(wrong)
    \/ Pay

CatalogueSpec == CatalogueInit /\ [][CatalogueNext]_catalogueVars
-----------------------------------------------------------------------------
(* Properties                                                              *)

admits(l, s) ==
    CASE s = "video"      -> \E position \in 0 .. lessonRow[l].video : watchedTo(l, position).done
      [] s = "theory"     -> lessonRow[l].notes # None
      [] s = "quiz"       -> taskRow[<<l, "QUIZ">>].questions # {}
      [] s = "traphunter" -> uncleared(l) # {}
      [] s = "practice"   -> taskRow[<<l, "PRACTICE">>].questions # {} /\ resolvePracticePrerequisites(l)

\* A video that is measured by less than the least length, or that ends before
\* nine tenths of what it is measured by: the author states another length than
\* that of the file, or has replaced the file by a shorter one.
unwatchable(l) == ~canComplete(lessonRow[l].video, measuredBy(l))

\* What only the author can repair: a published task without questions, or
\* nothing left to do but to watch such a video.
misauthored(l) ==
    \/ \E k \in Kinds : offered(l, k) /\ taskRow[<<l, k>>].questions = {}
    \/ openStages(l) = {"video"} /\ unwatchable(l)

(* "A missing prerequisite must never create an impossible one": a lesson  *)
(* the student may open and has not completed offers him a stage he can    *)
(* complete, whatever the authors changed, removed or unpublished, unless  *)
(* it is the author who has to repair it.                                  *)
NeverStuck ==
    \A l \in Lessons :
        visible(l) /\ openStages(l) # {} /\ ~misauthored(l) =>
            \E s \in openStages(l) : admits(l, s)

(* An attempt keeps its task, its lesson, its course and the student's     *)
(* row, which counts every attempt, however deletes and submits race.      *)
WorkKept ==
    \A l \in Lessons, k \in Kinds :
        /\ tries[<<l, k>>] > 0 => taskRow[<<l, k>>] # None /\ marks[<<l, k>>] # None
        /\ marks[<<l, k>>] # None => marks[<<l, k>>].attempts = tries[<<l, k>>]
        /\ taskRow[<<l, k>>] # None => present(l) /\ course # None

(* Lessons have places of their own, and no more than the limit are free,  *)
(* unless two were created at a time.                                      *)
PlacesDistinct ==
    /\ \A l, m \in placed : l # m /\ lessonRow[l].at = lessonRow[m].at => {l, m} \cap loose # {}
    /\ loose = {} => Cardinality({l \in placed : lessonRow[l].at < FreeLessons}) <= FreeLessons

(* The course page says 100 percent and COMPLETED when, and only when,     *)
(* nothing that can be studied is left, and otherwise leads to a lesson    *)
(* that is not finished.                                                   *)
CourseShown ==
    LET st == statuses
    IN  /\ progressPercent(st) = 100 <=> courseStatus(st) = "COMPLETED"
        /\ countable(st) # {} =>
              (courseStatus(st) = "COMPLETED" <=> \A l \in shown : openStages(l) = {})
        /\ (\E l \in shown : openStages(l) # {}) =>
              /\ resolveContinueLesson(st) # {}
              /\ \A l \in resolveContinueLesson(st) : openStages(l) # {}

LessonsSound == NeverStuck /\ WorkKept /\ PlacesDistinct /\ CourseShown

(* Nothing a student does takes a completed lesson back, but a retake of   *)
(* its quiz, and that only by the mistakes it leaves to correct.           *)
CompletionKept ==
    [][<<stepsOf, marks>>' # <<stepsOf, marks>> /\ UNCHANGED <<lessonRow, taskRow>> =>
         \A l \in shown :
            deriveLessonStatus(l) = "COMPLETED" =>
               \/ (deriveLessonStatus(l) = "COMPLETED")'
               \/ openStages(l)' = {"traphunter"} /\ tries'[<<l, "QUIZ">>] > tries[<<l, "QUIZ">>]
      ]_catalogueVars
=============================================================================
