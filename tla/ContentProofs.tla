---------------------------- MODULE ContentProofs ----------------------------
(***************************************************************************)
(* What a student does in the tasks of a lesson, with the words he learns  *)
(* and in the community room, what editors make of decks and questions,    *)
(* and an operator who copies content to production, whoever else is at    *)
(* work at the same time.  One part for each component, with its           *)
(* invariant:                                                              *)
(*                                                                         *)
(*   Lesson         lesson tasks       XP, attempts, the progress rows     *)
(*   RoomInv        the room           pages, the live feed, the marks     *)
(*   BootInv        the copy           manifests, domains, migrations      *)
(*   PersonalInv    words saved        reviews, the free limit             *)
(*   DictionaryInv  words looked up    the cache, the quota                *)
(*   DecksInv       the library        decks, the word bank, progress      *)
(*   BankInv        the bank           questions the rules accept          *)
(*                                                                         *)
(* All of them meet the same difficulty: a request decides on what it read, *)
(* which may be stale.  Three things save it.  Where the past only grows   *)
(* (attempts, reviews), what a stale row said of it stays true, so that     *)
(* Lesson and PersonalInv ask of the rows requests carry what they ask of   *)
(* the stored ones.  Where rows come and go, a request that waits to write *)
(* has a reason why its row is there or was there, and the invariant names *)
(* it: issued ids, decks that are not outdated, rows that went.  Where two *)
(* writers meet in one statement the index or the foreign key decides.     *)
(***************************************************************************)
EXTENDS LessonTasks, CommunityChat, ContentBootstrap, Dictionary, PublishedTopics,
        QuestionRules, FiniteSetTheorems, WellFoundedInduction, TLAPS

Paid(row, traps) == clearedAmong(Questions, row.traps) \subseteq traps

Mistake(q, rows) == \E a \in rows : a.task = "QUIZ" /\ q \in readWrongAnswers(a.result)

\* A request and the rows it carries, against a history and the paid traps.
RequestInv(q, stored, rows, traps) ==
    /\ q \in RequestStates
    /\ q.pc = "idle" => q.row = None /\ q.reply = None
    /\ q.pc # "idle" => q.call \in CallType
    /\ q.pc \in {"decide", "save"} => q.row # None
    /\ q.row # None => q.call \in CallType /\ Backed(q.row, q.call.task, rows) /\ Paid(q.row, traps)
    /\ q.row # None /\ ~q.creates /\ q.pc \in {"decide", "save"} => stored[q.call.task] # None
    /\ q.call.op \in {"trap", "hint"} /\ q.pc \notin {"idle", "load", "done"}
          => Mistake(q.call.question, rows)
    /\ q.call.op = "submit" /\ q.reply \in Results
          => \E a \in rows : a.id = q.call.id /\ a.result = q.reply

Lesson ==
    /\ TypeOK /\ IsFiniteSet(history)
    /\ \A a, b \in history : a.id = b.id => a = b
    /\ \A t \in Tasks : progress[t] # None =>
          Backed(progress[t], t, history) /\ Paid(progress[t], paidTraps)
    /\ PaidWhenPassed
    /\ \A q \in paidTraps : Mistake(q, history)
    /\ \A r \in Requests : RequestInv(req[r], progress, history, paidTraps)

-----------------------------------------------------------------------------
(* Counting                                                                *)

\* The count of right answers and the percentage stay in their ranges.
LEMMA Counts ==
    ASSUME NEW sheet \in Answers
    PROVE  /\ correctCount(sheet) \in 0..Cardinality(Questions)
           /\ accuracyPercent(correctCount(sheet)) \in 0..100
<1> DEFINE right == {q \in Questions : sheet[q] = "right"}
           n == Cardinality(Questions)
           c == Cardinality(right)
<1>1. n \in Nat /\ n > 0  BY LessonAssumption, FS_CardinalityType, FS_EmptySet
<1>2. IsFiniteSet(right) /\ c \in Nat /\ c <= n
  BY LessonAssumption, FS_Subset, FS_CardinalityType
<1>3. c * 100 \in Nat /\ c * 100 <= n * 100  BY <1>1, <1>2
<1>4. (c * 100) \div n \in 0..100  BY <1>1, <1>3
<1>5. QED  BY <1>2, <1>4 DEF correctCount, accuracyPercent

\* What a row says of the history stays true of a longer one.
LEMMA BackedGrows ==
    ASSUME NEW old, NEW new, old \subseteq new, IsFiniteSet(new),
           NEW row \in ProgressRows, NEW t, Backed(row, t, old)
    PROVE  Backed(row, t, new)
<1>1. attemptsOf(t, old) \subseteq attemptsOf(t, new)  BY DEF attemptsOf
<1>2. IsFiniteSet(attemptsOf(t, new))  BY FS_Subset DEF attemptsOf
<1>3. /\ Cardinality(attemptsOf(t, old)) <= Cardinality(attemptsOf(t, new))
      /\ Cardinality(attemptsOf(t, old)) \in Nat /\ Cardinality(attemptsOf(t, new)) \in Nat
  BY <1>1, <1>2, FS_Subset, FS_CardinalityType
<1>4. row.attemptsCount \in Nat  BY DEF ProgressRows
<1>5. passedAmong(attemptsOf(t, old)) \subseteq passedAmong(attemptsOf(t, new))
  BY <1>1 DEF passedAmong
<1>6. QED  BY <1>1, <1>3, <1>4, <1>5 DEF Backed

\* Backed and Paid look at the scores and the traps of a row, nothing else.
LEMMA SameScores ==
    ASSUME NEW a \in ProgressRows, NEW b \in ProgressRows, NEW t, NEW rows,
           Backed(a, t, rows),
           b.completed = a.completed, b.lastId = a.lastId, b.lastResult = a.lastResult,
           b.attemptsCount = a.attemptsCount, b.score = a.score
    PROVE  Backed(b, t, rows)
BY DEF Backed

\* A freshly inserted row says nothing.
LEMMA FreshRow ==
    ASSUME NEW started \in BOOLEAN, NEW t, NEW rows, NEW traps
    PROVE  /\ NewRow(started) \in ProgressRows /\ NewRow(started) # None
           /\ Backed(NewRow(started), t, rows) /\ Paid(NewRow(started), traps)
<1>1. Unanswered \in Answers  BY DEF Unanswered, Answers
<1>2. NoCurrent \in [id: Ids \union {None}, answers: Answers]  BY <1>1 DEF NoCurrent
<1>3. [q \in Questions |-> [cleared |-> FALSE, attempts |-> 0, hintLevel |-> 0]] \in TrapRecords
  BY LessonAssumption DEF TrapRecords
<1>4. NoTraps \in [source: Ids \union {None}, traps: TrapRecords]  BY <1>3 DEF NoTraps
<1>5. NewRow(started) \in ProgressRows  BY <1>1, <1>2, <1>4 DEF NewRow, ProgressRows
<1>6. Backed(NewRow(started), t, rows)  BY DEF Backed, NewRow
<1>7. Paid(NewRow(started), traps)  BY DEF Paid, clearedAmong, NewRow, NoTraps
<1>8. QED  BY <1>5, <1>6, <1>7, SceneAssumption

-----------------------------------------------------------------------------
(* Steps that respect what is there                                        *)

\* A request keeps its invariant while rows appear and the history grows.
LEMMA RequestGrows ==
    ASSUME NEW q, NEW stored, NEW rows, NEW traps, RequestInv(q, stored, rows, traps),
           NEW stored2, NEW rows2, NEW traps2,
           rows \subseteq rows2, IsFiniteSet(rows2), traps \subseteq traps2,
           \A t \in Tasks : stored[t] # None => stored2[t] # None
    PROVE  RequestInv(q, stored2, rows2, traps2)
<1>1. q \in RequestStates  BY DEF RequestInv
<1>2. q.row # None => q.row \in ProgressRows  BY <1>1 DEF RequestStates
<1>3. q.row # None => Backed(q.row, q.call.task, rows2)
  BY <1>2, BackedGrows DEF RequestInv
<1>4. q.row # None => Paid(q.row, traps2)  BY DEF RequestInv, Paid
<1>5. q.call \in CallType => q.call.task \in Tasks  BY DEF CallType
<1>6. Mistake(q.call.question, rows) => Mistake(q.call.question, rows2)  BY DEF Mistake
<1>7. QED  BY <1>3, <1>4, <1>5, <1>6 DEF RequestInv

\* The conditions under which a step of request r preserves the invariant.
LEMMA SafeStep ==
    ASSUME Lesson, NEW r \in Requests, NEW new, req' = [req EXCEPT ![r] = new],
           RequestInv(new, progress', history', paidTraps'),
           scene' = scene, raced' \in BOOLEAN,
           history \subseteq history', history' \subseteq AttemptRows, IsFiniteSet(history'),
           \A a, b \in history' : a.id = b.id => a = b,
           progress' \in [Tasks -> ProgressRows \union {None}],
           \A t \in Tasks : progress[t] # None => progress'[t] # None,
           \A t \in Tasks : progress'[t] # None =>
              Backed(progress'[t], t, history') /\ Paid(progress'[t], paidTraps'),
           paidTraps \subseteq paidTraps', paidTraps' \subseteq Questions,
           \A q \in paidTraps' : Mistake(q, history'),
           paidTasks' \subseteq Tasks, PaidWhenPassed'
    PROVE  Lesson'
<1>1. req \in [Requests -> RequestStates] /\ scene \in Scenes  BY DEF Lesson, TypeOK
<1>2. new \in RequestStates  BY DEF RequestInv
<1>3. TypeOK'  BY <1>1, <1>2 DEF TypeOK
<1>4. ASSUME NEW s \in Requests  PROVE RequestInv(req'[s], progress', history', paidTraps')
  <2>1. CASE s = r  BY <2>1, <1>1
  <2>2. CASE s # r
    <3>1. req'[s] = req[s]  BY <2>2, <1>1
    <3>2. RequestInv(req[s], progress, history, paidTraps)  BY DEF Lesson
    <3>3. RequestInv(req[s], progress', history', paidTraps')  BY <3>2, RequestGrows
    <3>4. QED  BY <3>1, <3>3
  <2>3. QED  BY <2>1, <2>2
<1>5. QED  BY <1>3, <1>4 DEF Lesson

\* A step that only reads has to keep the invariant of its request.
LEMMA ReadStep ==
    ASSUME Lesson, NEW r \in Requests, NEW new, req' = [req EXCEPT ![r] = new], ReadOnly,
           RequestInv(new, progress, history, paidTraps)
    PROVE  Lesson'
<1>1. /\ scene' = scene /\ raced' = raced /\ history' = history /\ progress' = progress
      /\ paidTraps' = paidTraps /\ paidTasks' = paidTasks
  BY DEF ReadOnly
<1>2. PaidWhenPassed'  BY <1>1 DEF Lesson, PaidWhenPassed, passedAttempts
<1>3. QED  BY <1>1, <1>2, SafeStep DEF Lesson, TypeOK

\* A request that moves on without a new row keeps its invariant.
LEMMA MoveInv ==
    ASSUME NEW q, NEW stored, NEW rows, NEW traps, RequestInv(q, stored, rows, traps),
           NEW pc \in PCs \ {"idle"}, q.pc \notin {"idle", "load", "done"},
           pc \in {"decide", "save"} => q.pc \in {"decide", "save"}
    PROVE  RequestInv([q EXCEPT !.pc = pc], stored, rows, traps)
BY DEF RequestInv, RequestStates

\* A request that is answered keeps its invariant if a result is in the history.
LEMMA LeaveInv ==
    ASSUME NEW q, NEW stored, NEW rows, NEW traps, RequestInv(q, stored, rows, traps),
           q.pc # "idle", NEW reply \in Results \union {None, Refused, Failed},
           q.call.op = "submit" /\ reply \in Results =>
              \E a \in rows : a.id = q.call.id /\ a.result = reply
    PROVE  RequestInv([q EXCEPT !.pc = "done", !.reply = reply, !.creates = FALSE],
                      stored, rows, traps)
<1> DEFINE new == [q EXCEPT !.pc = "done", !.reply = reply, !.creates = FALSE]
<1>1. q \in RequestStates  BY DEF RequestInv
<1>2. /\ new \in RequestStates /\ new.pc = "done" /\ new.reply = reply
      /\ new.row = q.row /\ new.call = q.call
  BY <1>1 DEF RequestStates, PCs
<1> HIDE DEF new
<1>3. RequestInv(new, stored, rows, traps)  BY <1>2 DEF RequestInv
<1>4. QED  BY <1>3 DEF new

-----------------------------------------------------------------------------
(* The steps that only read                                                *)

\* What the invariant says of one request.
LEMMA OfRequest ==
    ASSUME Lesson, NEW r \in Requests
    PROVE  /\ req \in [Requests -> RequestStates] /\ req[r] \in RequestStates
           /\ RequestInv(req[r], progress, history, paidTraps)
BY DEF Lesson, TypeOK

\* Answering a request without writing.
LEMMA LeaveStep ==
    ASSUME Lesson, NEW r \in Requests, ReadOnly, req[r].pc # "idle",
           NEW reply \in Results \union {None, Refused, Failed}, Leave(r, reply),
           req[r].call.op = "submit" /\ reply \in Results =>
              \E a \in history : a.id = req[r].call.id /\ a.result = reply
    PROVE  Lesson'
<1> DEFINE new == [req[r] EXCEPT !.pc = "done", !.reply = reply, !.creates = FALSE]
<1>1. req' = [req EXCEPT ![r] = new]  BY DEF Leave
<1>2. RequestInv(new, progress, history, paidTraps)  BY OfRequest, LeaveInv
<1> HIDE DEF new
<1>3. QED  BY <1>1, <1>2, ReadStep

\* Refusing, failing, and an answer without a result are safe anywhere.
LEMMA LeaveQuietly ==
    ASSUME Lesson, NEW r \in Requests, ReadOnly, req[r].pc # "idle",
           Leave(r, None) \/ Leave(r, Refused) \/ Leave(r, Failed)
    PROVE  Lesson'
<1>1. None \notin Results /\ Refused \notin Results /\ Failed \notin Results
  BY SceneAssumption
<1>2. QED  BY <1>1, LeaveStep

\* Going on to another step of the same request.
LEMMA GotoStep ==
    ASSUME Lesson, NEW r \in Requests, ReadOnly, NEW pc \in PCs \ {"idle"}, Goto(r, pc),
           req[r].pc \notin {"idle", "load", "done"},
           pc \in {"decide", "save"} => req[r].pc \in {"decide", "save"}
    PROVE  Lesson'
<1> DEFINE new == [req[r] EXCEPT !.pc = pc]
<1>1. req' = [req EXCEPT ![r] = new]  BY OfRequest DEF Goto
<1>2. RequestInv(new, progress, history, paidTraps)  BY OfRequest, MoveInv
<1> HIDE DEF new
<1>3. QED  BY <1>1, <1>2, ReadStep

LEMMA BeginStep == ASSUME Lesson, NEW r \in Requests, Begin(r) PROVE Lesson'
<1>1. PICK call \in Calls(scene) :
         req' = [req EXCEPT ![r] = [req[r] EXCEPT !.call = call, !.pc = FirstStep(call)]]
  BY OfRequest DEF Begin
<1> DEFINE new == [req[r] EXCEPT !.call = call, !.pc = FirstStep(call)]
<1>2. call \in CallType  BY SceneAssumption DEF Lesson, TypeOK
<1>3. /\ FirstStep(call) \in PCs \ {"idle", "create", "decide", "save"}
      /\ FirstStep(call) # "load" => call.op \notin {"trap", "hint"}
  BY <1>2 DEF FirstStep, PCs, CallType
<1>4. req[r].pc = "idle" /\ ReadOnly  BY DEF Begin, At
<1>5. RequestInv(new, progress, history, paidTraps)
  <2>1. /\ new.call = call /\ new.pc = FirstStep(call) /\ new.row = None /\ new.reply = None
        /\ new \in RequestStates
    BY <1>2, <1>3, <1>4, OfRequest DEF RequestStates, RequestInv
  <2> HIDE DEF new
  <2>2. None \notin Results  BY SceneAssumption
  <2>3. QED  BY <1>2, <1>3, <2>1, <2>2 DEF RequestInv
<1> HIDE DEF new
<1>6. QED  BY <1>1, <1>4, <1>5, ReadStep DEF new

LEMMA GateStep ==
    ASSUME Lesson, NEW r \in Requests,
           CheckQuizPassed(r) \/ CheckTrapsCleared(r) \/ CheckStarted(r)
    PROVE  Lesson'
<1>1. CASE CheckQuizPassed(r)
  BY <1>1, LeaveQuietly, GotoStep DEF CheckQuizPassed, At, PCs
<1>2. CASE CheckTrapsCleared(r)
  BY <1>2, LeaveQuietly, GotoStep DEF CheckTrapsCleared, At, PCs
<1>3. CASE CheckStarted(r)
  BY <1>3, LeaveQuietly, GotoStep DEF CheckStarted, At, PCs
<1>4. QED  BY <1>1, <1>2, <1>3

LEMMA LoadTrapsStep == ASSUME Lesson, NEW r \in Requests, LoadTraps(r) PROVE Lesson'
<1> DEFINE row == progress["QUIZ"]
           refused == \/ row = None \/ row.lastId = None
                      \/ req[r].call.question \notin readWrongAnswers(row.lastResult)
<1>1. req[r].pc = "load" /\ ReadOnly  BY DEF LoadTraps, At
<1>2. CASE refused  BY <1>1, <1>2, LeaveQuietly DEF LoadTraps
<1>3. CASE ~refused
  <2> DEFINE new == [req[r] EXCEPT !.traps = readWrongAnswers(row.lastResult), !.pc = "find"]
  <2>1. req' = [req EXCEPT ![r] = new]  BY <1>3 DEF LoadTraps
  <2>2. /\ new.call = req[r].call /\ new.row = req[r].row /\ new.reply = req[r].reply
        /\ new.pc = "find" /\ new.creates = req[r].creates /\ new \in RequestStates
    BY OfRequest DEF RequestStates, PCs, readWrongAnswers
  <2>3. req[r].call.op \in {"trap", "hint"} => Mistake(req[r].call.question, history)
    <3>1. req[r].call \in CallType  BY <1>1, OfRequest DEF RequestInv
    <3>2. SUFFICES ASSUME req[r].call.op \in {"trap", "hint"}
                   PROVE  Mistake(req[r].call.question, history)
      OBVIOUS
    <3>3. "QUIZ" \in Tasks  BY <3>1, <3>2 DEF CallType
    <3>4. Backed(row, "QUIZ", history)  BY <1>3, <3>3 DEF Lesson
    <3>5. PICK a \in history : a.task = "QUIZ" /\ a.result = row.lastResult
      BY <1>3, <3>4 DEF Backed, attemptsOf
    <3>6. QED  BY <1>3, <3>5 DEF Mistake
  <2> HIDE DEF new
  <2>4. RequestInv(new, progress, history, paidTraps)
    BY <1>1, <2>2, <2>3, OfRequest DEF RequestInv
  <2>5. QED  BY <1>1, <2>1, <2>4, ReadStep
<1>4. QED  BY <1>2, <1>3

LEMMA FindStep == ASSUME Lesson, NEW r \in Requests, FindProgress(r) PROVE Lesson'
<1> DEFINE row == progress[req[r].call.task]
           new == [req[r] EXCEPT !.row = row, !.pc = IF row = None THEN "create" ELSE "decide"]
<1>1. req[r].pc = "find" /\ ReadOnly /\ req' = [req EXCEPT ![r] = new]
  BY DEF FindProgress, At
<1>2. req[r].call \in CallType /\ req[r].call.task \in Tasks
  BY <1>1, OfRequest DEF RequestInv, CallType
<1>3. row \in ProgressRows \union {None}  BY <1>2 DEF Lesson, TypeOK
<1>4. row # None => Backed(row, req[r].call.task, history) /\ Paid(row, paidTraps)
  BY <1>2 DEF Lesson
<1>5. /\ new.call = req[r].call /\ new.row = row /\ new.reply = req[r].reply
      /\ new.pc = IF row = None THEN "create" ELSE "decide"
      /\ new \in RequestStates
  BY <1>3, OfRequest DEF RequestStates, PCs
<1> HIDE DEF new
<1>6. RequestInv(new, progress, history, paidTraps)
  BY <1>1, <1>2, <1>4, <1>5, OfRequest DEF RequestInv
<1>7. QED  BY <1>1, <1>6, ReadStep

LEMMA CreateStep == ASSUME Lesson, NEW r \in Requests, CreateProgress(r) PROVE Lesson'
<1> DEFINE call == req[r].call
           row == NewRow(call.op # "submit")
           new == [req[r] EXCEPT !.row = row, !.creates = TRUE,
                                 !.pc = IF call.op = "start" THEN "save" ELSE "decide"]
<1>1. req[r].pc = "create" /\ ReadOnly  BY DEF CreateProgress, At
<1>2. CASE progress[call.task] # None
  BY <1>1, <1>2, LeaveQuietly DEF CreateProgress
<1>3. CASE progress[call.task] = None
  <2>1. req' = [req EXCEPT ![r] = new]  BY <1>3 DEF CreateProgress
  <2>2. /\ row \in ProgressRows /\ row # None /\ Backed(row, call.task, history)
        /\ Paid(row, paidTraps)
    BY FreshRow
  <2>3. /\ new.call = call /\ new.row = row /\ new.reply = req[r].reply /\ new.creates = TRUE
        /\ new.pc = IF call.op = "start" THEN "save" ELSE "decide"
        /\ new \in RequestStates
    BY <2>2, OfRequest DEF RequestStates, PCs
  <2> HIDE DEF new, row
  <2>4. RequestInv(new, progress, history, paidTraps)
    BY <1>1, <2>2, <2>3, OfRequest DEF RequestInv
  <2>5. QED  BY <1>1, <2>1, <2>4, ReadStep
<1>4. QED  BY <1>2, <1>3

\* A replay answers with a result of the history, whichever path found it.
LEMMA ReplayStep ==
    ASSUME Lesson, NEW r \in Requests, ReadOnly, req[r].pc # "idle",
           NEW previous, NEW result \in Results, replay(r, previous, result),
           \E a \in history : a.id = req[r].call.id /\ a.result = result
    PROVE  Lesson'
<1>1. CASE Leave(r, Refused)  BY <1>1, LeaveQuietly
<1>2. CASE Leave(r, result)  BY <1>2, LeaveStep
<1>3. QED  BY <1>1, <1>2 DEF replay

LEMMA DecideStep ==
    ASSUME Lesson, NEW r \in Requests,
           DecideStart(r) \/ DecideAnswer(r) \/ DecideTrap(r) \/ DecideSubmit(r)
    PROVE  Lesson'
<1>1. CASE DecideStart(r)
  BY <1>1, LeaveQuietly, GotoStep DEF DecideStart, At, PCs
<1>2. CASE DecideAnswer(r)
  BY <1>2, LeaveQuietly, GotoStep DEF DecideAnswer, At, PCs
<1>3. CASE DecideTrap(r)
  BY <1>3, LeaveQuietly, GotoStep DEF DecideTrap, At, PCs
<1>4. CASE DecideSubmit(r)
  <2> DEFINE call == req[r].call
             row == req[r].row
  <2>1. /\ req[r].pc = "decide" /\ ReadOnly /\ call \in CallType /\ row \in ProgressRows
        /\ call.op = "submit" /\ call.id \in Ids /\ Backed(row, call.task, history)
    BY <1>4, OfRequest DEF DecideSubmit, At, RequestInv, RequestStates, CallType
  <2>2. CASE row.lastId = call.id
    <3>1. row.lastId # None  BY <2>1, <2>2, LessonAssumption
    <3>2. PICK a \in history : a.id = row.lastId /\ a.result = row.lastResult
      BY <2>1, <3>1 DEF Backed, attemptsOf
    <3>3. row.lastResult \in Results  BY <3>2 DEF Lesson, TypeOK, AttemptRows
    <3>4. replay(r, row.lastAnswers, row.lastResult)  BY <1>4, <2>2 DEF DecideSubmit
    <3>5. QED  BY <2>1, <2>2, <3>2, <3>3, <3>4, ReplayStep
  <2>3. CASE row.lastId # call.id /\ priorAttempt(call.id) # {}
    <3>1. PICK a \in priorAttempt(call.id) : replay(r, a.result.answers, a.result)
      BY <1>4, <2>3 DEF DecideSubmit
    <3>2. a \in history /\ a.id = call.id /\ a.result \in Results
      BY DEF priorAttempt, Lesson, TypeOK, AttemptRows
    <3>3. QED  BY <2>1, <3>1, <3>2, ReplayStep
  <2>4. CASE row.lastId # call.id /\ priorAttempt(call.id) = {}
    BY <1>4, <2>1, <2>4, LeaveQuietly, GotoStep DEF DecideSubmit, PCs
  <2>5. QED  BY <2>2, <2>3, <2>4
<1>5. QED  BY <1>1, <1>2, <1>3, <1>4

-----------------------------------------------------------------------------
(* Counting without races                                                  *)
(*                                                                         *)
(* What a request writes is exact when it computed it from the row it      *)
(* writes over, and that row was exact.  A request that creates the row is *)
(* alone with it: nobody else creates it, and it has no attempt yet.       *)

Creating(q, stored) ==
    /\ q.pc \in {"decide", "save"} /\ q.row.attemptsCount = 0 /\ ~q.row.completed
    /\ stored[q.call.task] = None

Counted ==
    /\ \A t \in Tasks : progress[t] = None => attemptsOf(t, history) = {}
    /\ ExactUnlessRaced
    /\ \A r \in Requests : req[r].creates => Creating(req[r], progress)
    /\ \A r, s \in Requests :
          req[r].creates /\ req[s].creates /\ req[r].call.task = req[s].call.task => r = s

\* A step that only reads, of a request that creates nothing after it.
LEMMA CountedRead ==
    ASSUME Lesson, Counted, ReadOnly, NEW r \in Requests, NEW new,
           req' = [req EXCEPT ![r] = new], new.creates => Creating(new, progress),
           \A s \in Requests \ {r} :
              ~(new.creates /\ req[s].creates /\ req[s].call.task = new.call.task)
    PROVE  Counted'
<1>1. req \in [Requests -> RequestStates]  BY OfRequest
<1>2. progress' = progress /\ history' = history /\ raced' = raced  BY DEF ReadOnly
<1>3. req'[r] = new /\ \A s \in Requests \ {r} : req'[s] = req[s]  BY <1>1
<1>4. \A s \in Requests : req'[s].creates => Creating(req'[s], progress)  BY <1>3 DEF Counted
<1>5. \A s \in Requests : req'[s].creates => Creating(req'[s], progress')
  BY <1>2, <1>4
<1>6. ExactUnlessRaced'  BY <1>2 DEF Counted, ExactUnlessRaced
<1>7. \A a, b \in Requests :
         req'[a].creates /\ req'[b].creates /\ req'[a].call.task = req'[b].call.task => a = b
  BY <1>3 DEF Counted
<1>8. QED  BY <1>2, <1>5, <1>6, <1>7 DEF Counted

\* Going on, and ending without a write.
LEMMA CountedMove ==
    ASSUME Lesson, Counted, ReadOnly, NEW r \in Requests,
           \/ \E pc \in PCs : Goto(r, pc) /\ (req[r].creates => pc \in {"decide", "save"})
           \/ \E reply : Leave(r, reply)
    PROVE  Counted'
<1>1. req \in [Requests -> RequestStates]  BY OfRequest
<1>2. CASE \E pc \in PCs : Goto(r, pc) /\ (req[r].creates => pc \in {"decide", "save"})
  <2>1. PICK pc \in PCs : Goto(r, pc) /\ (req[r].creates => pc \in {"decide", "save"})
    BY <1>2
  <2> DEFINE new == [req[r] EXCEPT !.pc = pc]
  <2>2. req' = [req EXCEPT ![r] = new]  BY <1>1, <2>1 DEF Goto
  <2>3. /\ new.creates = req[r].creates /\ new.call = req[r].call /\ new.row = req[r].row
        /\ new.pc = pc
    BY <1>1 DEF RequestStates
  <2> HIDE DEF new
  <2>4. new.creates => Creating(new, progress)  BY <2>1, <2>3 DEF Counted, Creating
  <2>5. ASSUME NEW s \in Requests \ {r}
        PROVE  ~(new.creates /\ req[s].creates /\ req[s].call.task = new.call.task)
    BY <2>3 DEF Counted
  <2>6. QED  BY <2>2, <2>4, <2>5, CountedRead
<1>3. CASE \E reply : Leave(r, reply)
  <2>1. PICK reply : Leave(r, reply)  BY <1>3
  <2> DEFINE new == [req[r] EXCEPT !.pc = "done", !.reply = reply, !.creates = FALSE]
  <2>2. req' = [req EXCEPT ![r] = new]  BY <2>1 DEF Leave
  <2>3. ~new.creates  BY <1>1 DEF RequestStates
  <2> HIDE DEF new
  <2>4. QED  BY <2>2, <2>3, CountedRead
<1>4. QED  BY <1>2, <1>3

LEMMA CountedReads ==
    ASSUME Lesson, Counted, NEW r \in Requests,
           \/ Begin(r) \/ CheckQuizPassed(r) \/ CheckTrapsCleared(r) \/ CheckStarted(r)
           \/ LoadTraps(r) \/ FindProgress(r) \/ CreateProgress(r) \/ SubmitTwice(r)
           \/ DecideStart(r) \/ DecideAnswer(r) \/ DecideSubmit(r) \/ DecideTrap(r)
    PROVE  Counted'
<1>1. req \in [Requests -> RequestStates]  BY OfRequest
<1>2. req[r].creates => req[r].pc \in {"decide", "save"}  BY DEF Counted, Creating
<1>3. CASE Begin(r)
  <2>1. PICK call \in Calls(scene) :
           req' = [req EXCEPT ![r] = [req[r] EXCEPT !.call = call, !.pc = FirstStep(call)]]
    BY <1>1, <1>3 DEF Begin
  <2> DEFINE new == [req[r] EXCEPT !.call = call, !.pc = FirstStep(call)]
  <2>2. ReadOnly /\ ~req[r].creates  BY <1>2, <1>3 DEF Begin, At
  <2>3. ~new.creates  BY <1>1, <2>2 DEF RequestStates
  <2> HIDE DEF new
  <2>4. QED  BY <2>1, <2>2, <2>3, CountedRead DEF new
<1>4. CASE CheckQuizPassed(r)
  BY <1>2, <1>4, CountedMove DEF CheckQuizPassed, At, PCs
<1>5. CASE CheckTrapsCleared(r)
  BY <1>2, <1>5, CountedMove DEF CheckTrapsCleared, At, PCs
<1>6. CASE CheckStarted(r)
  BY <1>2, <1>6, CountedMove DEF CheckStarted, At, PCs
<1>7. CASE LoadTraps(r)
  <2> DEFINE new == [req[r] EXCEPT !.traps = readWrongAnswers(progress["QUIZ"].lastResult),
                                   !.pc = "find"]
  <2>1. ReadOnly /\ ~req[r].creates  BY <1>2, <1>7 DEF LoadTraps, At
  <2>2. Leave(r, Refused) \/ req' = [req EXCEPT ![r] = new]  BY <1>7 DEF LoadTraps
  <2>3. ~new.creates  BY <1>1, <2>1 DEF RequestStates
  <2> HIDE DEF new
  <2>4. QED  BY <2>1, <2>2, <2>3, CountedMove, CountedRead
<1>8. CASE FindProgress(r)
  <2> DEFINE row == progress[req[r].call.task]
             new == [req[r] EXCEPT !.row = row, !.pc = IF row = None THEN "create" ELSE "decide"]
  <2>1. ReadOnly /\ ~req[r].creates /\ req' = [req EXCEPT ![r] = new]
    BY <1>2, <1>8 DEF FindProgress, At
  <2>2. ~new.creates  BY <1>1, <2>1 DEF RequestStates
  <2> HIDE DEF new
  <2>3. QED  BY <2>1, <2>2, CountedRead
<1>9. CASE CreateProgress(r)
  <2> DEFINE call == req[r].call
             row == NewRow(call.op # "submit")
             new == [req[r] EXCEPT !.row = row, !.creates = TRUE,
                                   !.pc = IF call.op = "start" THEN "save" ELSE "decide"]
  <2>1. /\ ReadOnly /\ req[r].pc = "create"
        /\ \A s \in Requests \ {r} : ~(req[s].creates /\ req[s].call.task = call.task)
    BY <1>9 DEF CreateProgress, At
  <2>2. CASE progress[call.task] # None
    BY <1>9, <2>1, <2>2, CountedMove DEF CreateProgress
  <2>3. CASE progress[call.task] = None
    <3>1. req' = [req EXCEPT ![r] = new]  BY <1>9, <2>3 DEF CreateProgress
    <3>2. /\ new.call = call /\ new.row = row
          /\ new.pc = IF call.op = "start" THEN "save" ELSE "decide"
      BY <1>1 DEF RequestStates
    <3>3. row.attemptsCount = 0 /\ ~row.completed  BY DEF NewRow
    <3> HIDE DEF new, row
    <3>4. Creating(new, progress)  BY <2>3, <3>2, <3>3 DEF Creating
    <3>5. ASSUME NEW s \in Requests \ {r}
          PROVE  ~(new.creates /\ req[s].creates /\ req[s].call.task = new.call.task)
      BY <2>1, <3>2
    <3>6. QED  BY <2>1, <3>1, <3>4, <3>5, CountedRead
  <2>4. QED  BY <2>2, <2>3
<1>10. CASE SubmitTwice(r)  BY <1>10, CountedMove DEF SubmitTwice
<1>11. CASE DecideStart(r)  BY <1>11, CountedMove DEF DecideStart, PCs
<1>12. CASE DecideAnswer(r)  BY <1>12, CountedMove DEF DecideAnswer, PCs
<1>13. CASE DecideSubmit(r)
  <2>1. /\ ReadOnly
        /\ \/ \E reply : Leave(r, reply)
           \/ Goto(r, "save")
    BY <1>13 DEF DecideSubmit, replay
  <2>2. QED  BY <2>1, CountedMove DEF PCs
<1>14. CASE DecideTrap(r)  BY <1>14, CountedMove DEF DecideTrap, PCs
<1>15. QED
  BY <1>3, <1>4, <1>5, <1>6, <1>7, <1>8, <1>9, <1>10, <1>11, <1>12, <1>13, <1>14

-----------------------------------------------------------------------------
(* The steps that write                                                    *)

\* The row a request writes over exists, and is as sound as any stored one.
LEMMA CurrentRow ==
    ASSUME Lesson, NEW r \in Requests, req[r].pc = "save"
    PROVE  /\ req[r].call \in CallType /\ req[r].call.task \in Tasks
           /\ req[r].row \in ProgressRows /\ current(r) \in ProgressRows
           /\ Backed(req[r].row, req[r].call.task, history) /\ Paid(req[r].row, paidTraps)
           /\ Backed(current(r), req[r].call.task, history) /\ Paid(current(r), paidTraps)
<1>1. /\ req[r].call \in CallType /\ req[r].row # None /\ req[r].row \in ProgressRows
      /\ Backed(req[r].row, req[r].call.task, history) /\ Paid(req[r].row, paidTraps)
      /\ ~req[r].creates => progress[req[r].call.task] # None
  BY OfRequest DEF RequestInv, RequestStates
<1>2. req[r].call.task \in Tasks  BY <1>1 DEF CallType
<1>3. progress[req[r].call.task] # None =>
        /\ progress[req[r].call.task] \in ProgressRows
        /\ Backed(progress[req[r].call.task], req[r].call.task, history)
        /\ Paid(progress[req[r].call.task], paidTraps)
  BY <1>2 DEF Lesson, TypeOK
<1>4. QED  BY <1>1, <1>2, <1>3 DEF current

\* Writing a row and answering, when the history and what is paid only grow.
LEMMA WriteStep ==
    ASSUME Lesson, NEW r \in Requests, req[r].pc = "save", scene' = scene,
           NEW row \in ProgressRows, Write(r, row),
           NEW reply \in Results \union {None, Refused, Failed}, Leave(r, reply),
           req[r].call.op = "submit" /\ reply \in Results =>
              \E a \in history' : a.id = req[r].call.id /\ a.result = reply,
           history \subseteq history', history' \subseteq AttemptRows, IsFiniteSet(history'),
           \A a, b \in history' : a.id = b.id => a = b,
           paidTraps \subseteq paidTraps', paidTraps' \subseteq Questions,
           \A q \in paidTraps' : Mistake(q, history'),
           Backed(row, req[r].call.task, history'), Paid(row, paidTraps'),
           paidTasks' \subseteq Tasks, PaidWhenPassed'
    PROVE  Lesson'
<1> DEFINE task == req[r].call.task
           new == [req[r] EXCEPT !.pc = "done", !.reply = reply, !.creates = FALSE]
<1>1. task \in Tasks  BY CurrentRow
<1>2. progress \in [Tasks -> ProgressRows \union {None}] /\ raced \in BOOLEAN
  BY DEF Lesson, TypeOK
<1>3. /\ progress' = [progress EXCEPT ![task] = row] /\ raced' \in BOOLEAN
  BY <1>2 DEF Write
<1>4. progress' \in [Tasks -> ProgressRows \union {None}]  BY <1>1, <1>2, <1>3
<1>5. row # None  BY SceneAssumption
<1>6. \A t \in Tasks : progress[t] # None => progress'[t] # None  BY <1>1, <1>2, <1>3, <1>5
<1>7. ASSUME NEW t \in Tasks, progress'[t] # None
      PROVE  Backed(progress'[t], t, history') /\ Paid(progress'[t], paidTraps')
  <2>1. CASE t = task  BY <2>1, <1>1, <1>2, <1>3
  <2>2. CASE t # task
    <3>1. progress'[t] = progress[t]  BY <2>2, <1>2, <1>3
    <3>2. /\ progress[t] \in ProgressRows /\ Backed(progress[t], t, history)
          /\ Paid(progress[t], paidTraps)
      BY <3>1, <1>2, <1>7 DEF Lesson
    <3>3. Backed(progress[t], t, history')  BY <3>2, BackedGrows
    <3>4. QED  BY <3>1, <3>2, <3>3 DEF Paid
  <2>3. QED  BY <2>1, <2>2
<1>8. req' = [req EXCEPT ![r] = new]  BY DEF Leave
<1>9. RequestInv(req[r], progress', history', paidTraps')
  BY <1>6, OfRequest, RequestGrows
<1>10. RequestInv(new, progress', history', paidTraps')  BY <1>9, LeaveInv
<1> HIDE DEF new, task
<1>11. QED  BY <1>3, <1>4, <1>6, <1>7, <1>8, <1>10, SafeStep

\* The row written over is exact as long as nobody raced.
LEMMA ExactCurrent ==
    ASSUME Lesson, Counted, NEW r \in Requests, req[r].pc = "save", ~raced
    PROVE  Exact(current(r), attemptsOf(req[r].call.task, history))
<1> DEFINE task == req[r].call.task
<1>1. task \in Tasks  BY CurrentRow
<1>2. CASE req[r].creates
  <2>1. Creating(req[r], progress) /\ current(r) = req[r].row  BY <1>2 DEF Counted, current
  <2>2. attemptsOf(task, history) = {}  BY <1>1, <2>1 DEF Counted, Creating
  <2>3. QED  BY <2>1, <2>2, FS_EmptySet DEF Creating, Exact, passedAmong
<1>3. CASE ~req[r].creates
  <2>1. current(r) = progress[task] /\ progress[task] # None
    BY <1>3, OfRequest DEF current, RequestInv
  <2>2. QED  BY <1>1, <2>1 DEF Counted, ExactUnlessRaced
<1>4. QED  BY <1>2, <1>3

\* A write keeps the counting if, when nobody raced, what it writes is exact.
LEMMA CountedWrite ==
    ASSUME Lesson, Counted, NEW r \in Requests, req[r].pc = "save",
           NEW row \in ProgressRows, Write(r, row), NEW reply, Leave(r, reply),
           \A t \in Tasks \ {req[r].call.task} : attemptsOf(t, history') = attemptsOf(t, history),
           ~raced' => Exact(row, attemptsOf(req[r].call.task, history'))
    PROVE  Counted'
<1> DEFINE task == req[r].call.task
           new == [req[r] EXCEPT !.pc = "done", !.reply = reply, !.creates = FALSE]
<1>1. /\ task \in Tasks /\ req \in [Requests -> RequestStates]
      /\ progress \in [Tasks -> ProgressRows \union {None}]
  BY CurrentRow, OfRequest DEF Lesson, TypeOK
<1>2. /\ progress' = [progress EXCEPT ![task] = row] /\ raced' = (raced \/ current(r) # req[r].row)
      /\ req' = [req EXCEPT ![r] = new] /\ row # None
  BY SceneAssumption DEF Write, Leave
<1>3. ~new.creates  BY <1>1 DEF RequestStates
<1> HIDE DEF new
<1>4. ~req'[r].creates /\ \A s \in Requests \ {r} : req'[s] = req[s]  BY <1>1, <1>2, <1>3
<1>5. progress'[task] = row /\ \A t \in Tasks \ {task} : progress'[t] = progress[t]
  BY <1>1, <1>2
<1>6. \A t \in Tasks : progress'[t] = None => attemptsOf(t, history') = {}
  BY <1>2, <1>5 DEF Counted
<1>7. ExactUnlessRaced'
  <2> SUFFICES ASSUME ~raced', NEW t \in Tasks, progress'[t] # None
               PROVE  Exact(progress'[t], attemptsOf(t, history'))
    BY DEF ExactUnlessRaced
  <2>1. CASE t = task  BY <2>1, <1>5
  <2>2. CASE t # task  BY <2>2, <1>2, <1>5 DEF Counted, ExactUnlessRaced
  <2>3. QED  BY <2>1, <2>2
<1>8. ASSUME NEW s \in Requests, req'[s].creates  PROVE Creating(req'[s], progress')
  <2>1. s # r /\ req'[s] = req[s] /\ Creating(req[s], progress)  BY <1>4, <1>8 DEF Counted
  <2>2. req[s].call.task \in Tasks
    <3>1. req[s].call \in CallType  BY <2>1, OfRequest DEF Creating, RequestInv
    <3>2. QED  BY <3>1 DEF CallType
  <2>3. req[s].call.task # task
    <3>1. CASE req[r].creates  BY <1>4, <1>8, <2>1, <3>1 DEF Counted
    <3>2. CASE ~req[r].creates
      BY <2>1, <3>2, OfRequest DEF RequestInv, Creating
    <3>3. QED  BY <3>1, <3>2
  <2>4. QED  BY <1>5, <2>1, <2>2, <2>3 DEF Creating
<1>9. \A a, b \in Requests :
         req'[a].creates /\ req'[b].creates /\ req'[a].call.task = req'[b].call.task => a = b
  BY <1>4 DEF Counted
<1>10. QED  BY <1>6, <1>7, <1>8, <1>9 DEF Counted

\* Start, answer, trap and hint leave the score of the current row alone.
LEMMA CountedKeep ==
    ASSUME Lesson, Counted, NEW r \in Requests, req[r].pc = "save", history' = history,
           NEW row \in ProgressRows, Write(r, row), Leave(r, None),
           row.completed = current(r).completed, row.score = current(r).score,
           row.attemptsCount = current(r).attemptsCount
    PROVE  Counted'
<1>1. ~raced' => ~raced  BY DEF Write
<1>2. ~raced' => Exact(row, attemptsOf(req[r].call.task, history))
  BY <1>1, ExactCurrent DEF Exact
<1>3. QED  BY <1>2, CountedWrite

\* A write that leaves history and score alone: start, answer, trap and hint.
LEMMA KeepScore ==
    ASSUME Lesson, NEW r \in Requests, req[r].pc = "save", scene' = scene,
           NEW row \in ProgressRows, Write(r, row), Leave(r, None),
           UNCHANGED <<history, paidTasks>>,
           row.completed = current(r).completed, row.lastId = current(r).lastId,
           row.lastResult = current(r).lastResult,
           row.attemptsCount = current(r).attemptsCount, row.score = current(r).score,
           paidTraps \subseteq paidTraps', paidTraps' \subseteq Questions,
           \A q \in paidTraps' : Mistake(q, history), Paid(row, paidTraps')
    PROVE  Lesson' /\ (Counted => Counted')
<1>1. Backed(row, req[r].call.task, history)  BY CurrentRow, SameScores
<1>2. history' = history /\ paidTasks' = paidTasks  OBVIOUS
<1>3. PaidWhenPassed'  BY <1>2 DEF Lesson, PaidWhenPassed, passedAttempts
<1>4. None \notin Results  BY SceneAssumption
<1>5. Lesson'  BY <1>1, <1>2, <1>3, <1>4, WriteStep DEF Lesson, TypeOK
<1>6. Counted => Counted'  BY <1>2, CountedKeep
<1>7. QED  BY <1>5, <1>6

LEMMA StartAndAnswer ==
    ASSUME Lesson, NEW r \in Requests, SaveStart(r) \/ SaveAnswer(r)
    PROVE  Lesson' /\ (Counted => Counted')
<1>1. current(r) \in ProgressRows /\ Paid(current(r), paidTraps)
  BY CurrentRow DEF SaveStart, SaveAnswer, At
<1>2. \A q \in paidTraps : Mistake(q, history)  BY DEF Lesson
<1>3. paidTraps \subseteq Questions  BY DEF Lesson, TypeOK
<1>4. CASE SaveStart(r)
  <2> DEFINE row == [current(r) EXCEPT !.started = TRUE]
  <2>1. row \in ProgressRows /\ row.traps = current(r).traps  BY <1>1 DEF ProgressRows
  <2>2. Paid(row, paidTraps)  BY <1>1, <2>1 DEF Paid
  <2>3. /\ row.completed = current(r).completed /\ row.lastId = current(r).lastId
        /\ row.lastResult = current(r).lastResult
        /\ row.attemptsCount = current(r).attemptsCount /\ row.score = current(r).score
    BY <1>1 DEF ProgressRows
  <2>4. /\ req[r].pc = "save" /\ Write(r, row) /\ Leave(r, None) /\ scene' = scene
        /\ UNCHANGED <<history, paidTasks>> /\ paidTraps' = paidTraps
    BY <1>4 DEF SaveStart, At
  <2> HIDE DEF row
  <2>5. QED  BY <1>2, <1>3, <2>1, <2>2, <2>3, <2>4, KeepScore
<1>5. CASE SaveAnswer(r)
  <2> DEFINE call == req[r].call
             attempt == attemptFor(req[r].row, call.id)
             verdict == IF call.right THEN "right" ELSE "wrong"
             recorded == [attempt EXCEPT !.answers[call.question] = verdict]
             row == [current(r) EXCEPT !.current = recorded]
  <2>1. req[r].pc = "save" /\ call.op = "answer"  BY <1>5 DEF SaveAnswer, At
  <2>2. call \in CallType /\ req[r].row \in ProgressRows  BY <2>1, CurrentRow
  <2>3. call.id \in Ids  BY <2>1, <2>2 DEF CallType
  <2>4. attempt \in [id: Ids \union {None}, answers: Answers]
    BY <2>2, <2>3 DEF attemptFor, ProgressRows, Unanswered, Answers
  <2>5. [attempt.answers EXCEPT ![call.question] = verdict] \in Answers
    BY <2>4 DEF Answers
  <2>6. recorded \in [id: Ids \union {None}, answers: Answers]  BY <2>4, <2>5
  <2>7. Write(r, row) /\ Leave(r, None) /\ scene' = scene
        /\ UNCHANGED <<history, paidTasks>> /\ paidTraps' = paidTraps
    BY <1>5 DEF SaveAnswer
  <2> HIDE DEF recorded
  <2>8. row \in ProgressRows /\ row.traps = current(r).traps  BY <1>1, <2>6 DEF ProgressRows
  <2>9. Paid(row, paidTraps)  BY <1>1, <2>8 DEF Paid
  <2>10. /\ row.completed = current(r).completed /\ row.lastId = current(r).lastId
         /\ row.lastResult = current(r).lastResult
         /\ row.attemptsCount = current(r).attemptsCount /\ row.score = current(r).score
    BY <1>1 DEF ProgressRows
  <2> HIDE DEF row
  <2>11. QED  BY <1>2, <1>3, <2>1, <2>7, <2>8, <2>9, <2>10, KeepScore
<1>6. QED  BY <1>4, <1>5

LEMMA TrapStep ==
    ASSUME Lesson, NEW r \in Requests, SaveTrap(r)
    PROVE  Lesson' /\ (Counted => Counted')
<1> DEFINE call == req[r].call
           read == req[r].row
           state == readTrapState(read)
           trap == updatedTrap(r)
           savedState == [state EXCEPT !.traps[call.question] = trap]
           row == [current(r) EXCEPT !.traps = savedState]
<1>1. /\ req[r].pc = "save" /\ call.op \in {"trap", "hint"} /\ scene' = scene
      /\ Write(r, row) /\ Leave(r, None) /\ UNCHANGED <<history, paidTasks>>
      /\ paidTraps' = IF call.op = "trap" /\ call.right
                      THEN paidTraps \union {call.question} ELSE paidTraps
  BY DEF SaveTrap, At
<1>2. /\ call \in CallType /\ read \in ProgressRows /\ current(r) \in ProgressRows
      /\ Paid(read, paidTraps)
  BY <1>1, CurrentRow
<1>3. call.question \in Questions /\ call.level \in 0..MaxHint  BY <1>1, <1>2 DEF CallType
<1>4. Mistake(call.question, history)  BY <1>1, OfRequest DEF RequestInv
<1>5. /\ state \in [source: Ids \union {None}, traps: TrapRecords]
      /\ clearedAmong(Questions, state) \subseteq paidTraps
  <2>1. CASE read.traps.source = read.lastId
    BY <1>2, <2>1 DEF readTrapState, ProgressRows, Paid
  <2>2. CASE read.traps.source # read.lastId
    <3>1. NoTraps \in [source: Ids \union {None}, traps: TrapRecords]
      <4>1. [q \in Questions |-> [cleared |-> FALSE, attempts |-> 0, hintLevel |-> 0]]
              \in TrapRecords
        BY LessonAssumption DEF TrapRecords
      <4>2. QED  BY <4>1 DEF NoTraps
    <3>2. state = [NoTraps EXCEPT !.source = read.lastId]  BY <2>2 DEF readTrapState
    <3>3. read.lastId \in Ids \union {None}  BY <1>2 DEF ProgressRows
    <3>4. state.traps = NoTraps.traps  BY <3>1, <3>2
    <3>5. clearedAmong(Questions, state) = {}  BY <3>4 DEF clearedAmong, NoTraps
    <3>6. QED  BY <3>1, <3>2, <3>3, <3>5
  <2>3. QED  BY <2>1, <2>2
<1>6. /\ trap \in [cleared: BOOLEAN, attempts: Nat, hintLevel: 0..MaxHint]
      /\ trap.cleared => state.traps[call.question].cleared \/ call.question \in paidTraps'
  <2>1. state.traps[call.question] \in [cleared: BOOLEAN, attempts: Nat, hintLevel: 0..MaxHint]
    BY <1>3, <1>5 DEF TrapRecords
  <2>2. recordFor(r) = state.traps[call.question]  BY DEF recordFor
  <2>3. CASE call.op = "hint"
    BY <1>3, <2>1, <2>2, <2>3 DEF updatedTrap
  <2>4. CASE call.op = "trap" /\ call.right
    BY <1>1, <2>1, <2>2, <2>4, Zenon DEF updatedTrap
  <2>5. CASE call.op = "trap" /\ ~call.right
    <3> DEFINE record == recordFor(r)
    <3>1. trap = [record EXCEPT !.attempts = record.attempts + 1]
      BY <2>5 DEF updatedTrap
    <3>2. record \in [cleared: BOOLEAN, attempts: Nat, hintLevel: 0..MaxHint]
          /\ record.cleared = state.traps[call.question].cleared
      BY <2>1, <2>2
    <3> HIDE DEF record, trap, state, call
    <3>3. trap \in [cleared: BOOLEAN, attempts: Nat, hintLevel: 0..MaxHint]
          /\ trap.cleared = record.cleared
      BY <3>1, <3>2
    <3> QED  BY <3>2, <3>3
  <2>6. QED  BY <1>1, <2>3, <2>4, <2>5
<1> HIDE DEF trap, state
<1>7. /\ savedState \in [source: Ids \union {None}, traps: TrapRecords]
      /\ savedState.traps = [state.traps EXCEPT ![call.question] = trap]
  BY <1>3, <1>5, <1>6 DEF TrapRecords
<1>8. clearedAmong(Questions, savedState) \subseteq paidTraps'
  <2>1. ASSUME NEW q \in Questions, savedState.traps[q].cleared  PROVE q \in paidTraps'
    <3>1. CASE q = call.question
      <4>1. trap.cleared  BY <1>5, <1>7, <2>1, <3>1 DEF TrapRecords
      <4>2. QED  BY <1>1, <1>5, <1>6, <3>1, <4>1 DEF clearedAmong
    <3>2. CASE q # call.question
      <4>1. state.traps[q].cleared  BY <1>5, <1>7, <2>1, <3>2 DEF TrapRecords
      <4>2. QED  BY <1>1, <1>5, <4>1 DEF clearedAmong
    <3>3. QED  BY <3>1, <3>2
  <2>2. QED  BY <2>1 DEF clearedAmong
<1> HIDE DEF savedState
<1>9. row \in ProgressRows /\ row.traps = savedState  BY <1>2, <1>7 DEF ProgressRows
<1>10. Paid(row, paidTraps')  BY <1>8, <1>9 DEF Paid
<1>11. /\ row.completed = current(r).completed /\ row.lastId = current(r).lastId
       /\ row.lastResult = current(r).lastResult
       /\ row.attemptsCount = current(r).attemptsCount /\ row.score = current(r).score
  BY <1>2 DEF ProgressRows
<1>12. /\ paidTraps \subseteq paidTraps' /\ paidTraps' \subseteq Questions
       /\ \A q \in paidTraps' : Mistake(q, history)
  BY <1>1, <1>3, <1>4 DEF Lesson, TypeOK
<1> HIDE DEF row
<1>13. QED  BY <1>1, <1>9, <1>10, <1>11, <1>12, KeepScore

\* The result of a submit has the right answers of what was graded.
LEMMA SameVerdict ==
    ASSUME NEW row \in ProgressRows, NEW sheet \in Answers, NEW t,
           NEW rows \in SUBSET AttemptRows, Backed(row, t, rows),
           NEW body, body = responseBody(row, sheet)
    PROVE  /\ body \in Results
           /\ correctCount(body.answers) = correctCount(sheet)
           /\ Passes(body.answers) <=> Passes(sheet)
<1> DEFINE results == [q \in Questions |-> IF sheet[q] = "none" THEN "null" ELSE sheet[q]]
           correct == correctCount(sheet)
           best == accuracyPercent(IF isNewBest(row, correct) THEN correct ELSE row.score)
<1>1. results \in Answers  BY DEF Answers
<1>2. {q \in Questions : results[q] = "right"} = {q \in Questions : sheet[q] = "right"}
  OBVIOUS
<1>3. body = [answers |-> results, attemptsCount |-> row.attemptsCount + 1, best |-> best]
  BY DEF responseBody
<1>4. correctCount(body.answers) = correct  BY <1>2, <1>3 DEF correctCount
<1>5. row.attemptsCount \in Nat  BY DEF ProgressRows
<1>6. best \in 0..100
  <2>1. CASE isNewBest(row, correct)  BY <2>1, Counts
  <2>2. CASE ~isNewBest(row, correct)
    <3>1. row.attemptsCount > 0  BY <1>5, <2>2 DEF isNewBest
    <3>2. PICK a \in rows : correctCount(a.result.answers) = row.score
      BY <3>1 DEF Backed, attemptsOf
    <3>3. a.result.answers \in Answers  BY <3>2 DEF AttemptRows, Results
    <3>4. accuracyPercent(row.score) \in 0..100  BY <3>2, <3>3, Counts
    <3>5. QED  BY <2>2, <3>4
  <2>3. QED  BY <2>1, <2>2
<1> HIDE DEF best
<1>7. body \in Results  BY <1>1, <1>3, <1>5, <1>6 DEF Results
<1>8. QED  BY <1>4, <1>7 DEF Passes

LEMMA SubmitStep ==
    ASSUME Lesson, NEW r \in Requests, SaveSubmit(r)
    PROVE  Lesson' /\ (Counted => Counted')
<1> DEFINE call == req[r].call
           read == req[r].row
           sheet == gradedAnswers(r)
           correct == correctCount(sheet)
           body == responseBody(read, sheet)
           added == [by |-> r, task |-> call.task, id |-> call.id, result |-> body]
           row == submittedRow(r, sheet)
<1>1. /\ req[r].pc = "save" /\ call.op = "submit" /\ ~attemptTaken(call.id) /\ scene' = scene
      /\ history' = history \union {added} /\ Write(r, row) /\ Leave(r, body)
      /\ paidTasks' = IF justPassed(read, sheet) THEN paidTasks \union {call.task}
                      ELSE paidTasks
      /\ paidTraps' = paidTraps
  BY DEF SaveSubmit, At
<1>2. /\ call \in CallType /\ call.task \in Tasks /\ call.id \in Ids /\ call.answers \in Answers
      /\ read \in ProgressRows /\ current(r) \in ProgressRows
      /\ Backed(read, call.task, history) /\ Paid(current(r), paidTraps)
  BY <1>1, CurrentRow DEF CallType
<1>3. sheet \in Answers  BY <1>2 DEF gradedAnswers, ProgressRows
<1>4. history \in SUBSET AttemptRows /\ IsFiniteSet(history)  BY DEF Lesson, TypeOK
<1> HIDE DEF sheet
<1>5. /\ body \in Results /\ correctCount(body.answers) = correct
      /\ Passes(body.answers) <=> Passes(sheet)
  BY <1>2, <1>3, <1>4, SameVerdict
<1>6. correct \in Nat  BY <1>3, Counts, FS_CardinalityType, LessonAssumption
<1> DEFINE score == IF isNewBest(read, correct) THEN correct ELSE read.score
           completed == read.completed \/ Passes(sheet)
<1>7. row = [current(r) EXCEPT
        !.attemptsCount = read.attemptsCount + 1, !.score = score, !.completed = completed,
        !.started = FALSE, !.current = NoCurrent,
        !.lastId = call.id, !.lastAnswers = sheet, !.lastResult = body]
  BY DEF submittedRow
<1> HIDE DEF body, correct
<1>8. NoCurrent \in [id: Ids \union {None}, answers: Answers]
  BY DEF NoCurrent, Unanswered, Answers
<1>9. completed \in BOOLEAN /\ score \in Nat /\ read.attemptsCount + 1 \in Nat
  BY <1>2, <1>6 DEF ProgressRows
<1> HIDE DEF row, score, completed
<1>10. /\ row \in ProgressRows /\ row.traps = current(r).traps
       /\ row.attemptsCount = read.attemptsCount + 1 /\ row.lastId = call.id
       /\ row.score = score /\ row.completed = completed /\ row.lastResult = body
  BY <1>2, <1>3, <1>5, <1>7, <1>8, <1>9 DEF ProgressRows
<1>11. Paid(row, paidTraps')  BY <1>1, <1>2, <1>10 DEF Paid
<1>12. added \in AttemptRows /\ added.task = call.task /\ added.id = call.id /\ added.result = body
  BY <1>2, <1>5 DEF AttemptRows
<1> HIDE DEF added
<1>13. /\ history \subseteq history' /\ history' \subseteq AttemptRows /\ IsFiniteSet(history')
  BY <1>1, <1>4, <1>12, FS_AddElement
<1>14. \A a \in history : a.id # added.id  BY <1>1, <1>12 DEF attemptTaken
<1>15. \A a, b \in history' : a.id = b.id => a = b  BY <1>1, <1>14 DEF Lesson
<1> DEFINE old == attemptsOf(call.task, history)
           grown == attemptsOf(call.task, history')
<1>16. grown = old \union {added} /\ added \notin old
  BY <1>1, <1>12, <1>14 DEF attemptsOf
<1>17. passedAmong(grown) = passedAmong(old) \union (IF Passes(sheet) THEN {added} ELSE {})
  BY <1>5, <1>12, <1>16 DEF passedAmong
<1>18. Backed(row, call.task, history')
  <2>1. IsFiniteSet(old)  BY <1>4, FS_Subset DEF attemptsOf
  <2>2. Cardinality(grown) = Cardinality(old) + 1 /\ Cardinality(old) \in Nat
    BY <1>16, <2>1, FS_AddElement, FS_CardinalityType
  <2>3. read.attemptsCount \in Nat  BY <1>2 DEF ProgressRows
  <2>4. row.attemptsCount > 0 /\ row.attemptsCount <= Cardinality(grown)
    BY <1>2, <1>10, <2>2, <2>3 DEF Backed
  <2>5. \E a \in grown : a.id = row.lastId /\ a.result = row.lastResult
    BY <1>10, <1>12, <1>16
  <2>6. \E a \in grown : correctCount(a.result.answers) = row.score
    <3>1. CASE isNewBest(read, correct)  BY <1>5, <1>10, <1>12, <1>16, <3>1 DEF score
    <3>2. CASE ~isNewBest(read, correct)
      <4>1. read.attemptsCount > 0  BY <2>3, <3>2 DEF isNewBest
      <4>2. QED  BY <1>2, <1>10, <1>16, <3>2, <4>1 DEF Backed, score
    <3>3. QED  BY <3>1, <3>2
  <2>7. row.completed => passedAmong(grown) # {}  BY <1>2, <1>10, <1>17 DEF Backed, completed
  <2>8. QED  BY <2>4, <2>5, <2>6, <2>7 DEF Backed
<1>19. PaidWhenPassed'
  <2>1. ASSUME NEW t \in Tasks  PROVE t \in paidTasks' <=> passedAmong(attemptsOf(t, history')) # {}
    <3>1. t \in paidTasks <=> passedAmong(attemptsOf(t, history)) # {}
      BY DEF Lesson, PaidWhenPassed, passedAttempts
    <3>2. CASE t # call.task
      <4>1. attemptsOf(t, history') = attemptsOf(t, history)
        BY <1>1, <1>12, <3>2 DEF attemptsOf
      <4>2. QED  BY <1>1, <3>1, <3>2, <4>1
    <3>3. CASE t = call.task
      <4>1. read.completed => passedAmong(old) # {}  BY <1>2 DEF Backed
      <4>2. justPassed(read, sheet) <=> ~read.completed /\ Passes(sheet)
        BY DEF justPassed
      <4>3. QED  BY <1>1, <1>17, <3>1, <3>3, <4>1, <4>2
    <3>4. QED  BY <3>2, <3>3
  <2>2. QED  BY <2>1 DEF PaidWhenPassed, passedAttempts
<1>20. paidTasks' \subseteq Tasks  BY <1>1, <1>2 DEF Lesson, TypeOK
<1>21. \A q \in paidTraps' : Mistake(q, history')  BY <1>1, <1>13 DEF Lesson, Mistake
<1>22. \E a \in history' : a.id = req[r].call.id /\ a.result = body  BY <1>1, <1>12
<1>23. paidTraps \subseteq paidTraps' /\ paidTraps' \subseteq Questions
  BY <1>1 DEF Lesson, TypeOK
<1>24. Lesson'
  BY <1>1, <1>5, <1>10, <1>11, <1>13, <1>15, <1>18, <1>19, <1>20, <1>21, <1>22, <1>23, WriteStep
<1>25. ASSUME Counted  PROVE Counted'
  <2>1. \A t \in Tasks \ {call.task} : attemptsOf(t, history') = attemptsOf(t, history)
    BY <1>1, <1>12 DEF attemptsOf
  <2>2. ASSUME ~raced'  PROVE Exact(row, grown)
    <3>1. ~raced /\ current(r) = read  BY <1>1, <2>2 DEF Write
    <3>2. Exact(read, old)  BY <1>1, <1>25, <3>1, ExactCurrent
    <3>3. IsFiniteSet(old)  BY <1>4, FS_Subset DEF attemptsOf
    <3>4. Cardinality(grown) = Cardinality(old) + 1 /\ Cardinality(old) \in Nat
      BY <1>16, <3>3, FS_AddElement, FS_CardinalityType
    <3>5. row.attemptsCount = Cardinality(grown)  BY <1>10, <3>2, <3>4 DEF Exact
    <3>6. row.completed <=> passedAmong(grown) # {}
      BY <1>10, <1>17, <3>2 DEF Exact, completed
    <3>7. ASSUME NEW a \in grown
          PROVE  accuracyPercent(correctCount(a.result.answers)) <= accuracyPercent(score)
      <4>1. /\ correct \in Nat /\ read.score \in Nat /\ read.attemptsCount = Cardinality(old)
            /\ \A k \in Nat : accuracyPercent(k) \in Int
        <5>1. Cardinality(Questions) \in Nat \ {0}
          BY LessonAssumption, FS_CardinalityType, FS_EmptySet
        <5>2. QED  BY <1>2, <1>6, <3>2, <5>1 DEF Exact, accuracyPercent, ProgressRows
      <4>2. CASE a = added  BY <1>5, <1>12, <4>1, <4>2 DEF score, isNewBest
      <4>3. CASE a \in old
        <5>1. a.result.answers \in Answers /\ correctCount(a.result.answers) \in Nat
          <6>1. a.result.answers \in Answers
            BY <1>4, <4>3 DEF attemptsOf, AttemptRows, Results
          <6>2. QED  BY <6>1, Counts, FS_CardinalityType, LessonAssumption
        <5>2. accuracyPercent(correctCount(a.result.answers)) <= accuracyPercent(read.score)
          BY <3>2, <4>3 DEF Exact
        <5>3. read.attemptsCount # 0  BY <3>3, <4>1, <4>3, FS_EmptySet
        <5>4. QED  BY <4>1, <5>1, <5>2, <5>3 DEF score, isNewBest
      <4>4. QED  BY <1>16, <3>7, <4>2, <4>3
    <3>8. QED  BY <1>10, <3>5, <3>6, <3>7 DEF Exact
  <2> HIDE DEF old, grown
  <2>3. QED  BY <1>1, <1>10, <1>24, <1>25, <2>1, <2>2, CountedWrite DEF grown
<1>26. QED  BY <1>24, <1>25

-----------------------------------------------------------------------------
(* The theorems                                                            *)

LEMMA Start == Init => Lesson /\ Counted
<1> SUFFICES ASSUME Init PROVE Lesson /\ Counted  OBVIOUS
<1>1. /\ history \subseteq AttemptRows /\ IsFiniteSet(history)
      /\ \A a, b \in history : a.id = b.id => a = b
      /\ progress \in [Tasks -> ProgressRows \union {None}]
      /\ \A t \in Tasks : progress[t] # None =>
            Backed(progress[t], t, history) /\ Paid(progress[t], paidTraps)
  BY SceneAssumption DEF Init, Paid
<1>2. Idle \in RequestStates  BY DEF Idle, RequestStates, PCs
<1>3. TypeOK
  <2>1. paidTasks \subseteq Tasks  BY <1>1 DEF Init, passedAmong, AttemptRows
  <2>2. req \in [Requests -> RequestStates]  BY <1>2 DEF Init
  <2>3. QED  BY <1>1, <2>1, <2>2 DEF Init, TypeOK
<1>4. PaidWhenPassed  BY DEF Init, PaidWhenPassed, passedAttempts, passedAmong, attemptsOf
<1>5. None \notin Results  BY SceneAssumption
<1>6. ASSUME NEW r \in Requests  PROVE RequestInv(req[r], progress, history, paidTraps)
  BY <1>2, <1>5 DEF Init, Idle, NoCall, RequestInv
<1>7. Lesson  BY <1>1, <1>3, <1>4, <1>6 DEF Lesson, Init
<1>8. Counted
  BY SceneAssumption DEF Counted, ExactUnlessRaced, Init, Idle
<1>9. QED  BY <1>7, <1>8

LEMMA Preserved == Lesson /\ [Next]_vars => Lesson' /\ (Counted => Counted')
<1> SUFFICES ASSUME Lesson, [Next]_vars PROVE Lesson' /\ (Counted => Counted')  OBVIOUS
<1>1. CASE UNCHANGED vars
  BY <1>1 DEF Lesson, vars, TypeOK, PaidWhenPassed, passedAttempts, Counted, Creating,
              ExactUnlessRaced
<1>2. ASSUME NEW r \in Requests, SubmitTwice(r)  PROVE Lesson'
  BY <1>2, LeaveQuietly DEF SubmitTwice, At
<1>3. ASSUME NEW r \in Requests, Step(r)  PROVE Lesson' /\ (Counted => Counted')
  BY <1>2, <1>3, BeginStep, GateStep, LoadTrapsStep, FindStep, CreateStep, DecideStep,
     CountedReads, StartAndAnswer, TrapStep, SubmitStep DEF Step
<1>4. QED  BY <1>1, <1>3 DEF Next

LEMMA Always == Spec => [](Lesson /\ Counted)
BY Start, Preserved, PTL DEF Spec

\* Every variable keeps its type.
THEOREM Typed == Spec => []TypeOK
<1>1. Lesson => TypeOK  BY DEF Lesson
<1>2. QED  BY <1>1, Always, PTL

\* The progress rows say nothing the attempt history does not contain.
THEOREM CacheAlwaysFromHistory == Spec => []CacheFromHistory
<1>1. Lesson => CacheFromHistory  BY DEF Lesson, CacheFromHistory
<1>2. QED  BY <1>1, Always, PTL

\* An attempt id has one history row, and one result for all its submits.
THEOREM OneOutcomeAlways == Spec => []OneOutcomePerAttempt
<1>1. Lesson => OneOutcomePerAttempt  BY DEF Lesson, OneOutcomePerAttempt, RequestInv
<1>2. QED  BY <1>1, Always, PTL

\* The XP of a task is paid exactly when the history has a passed attempt.
THEOREM PassAlwaysPaid == Spec => []PaidWhenPassed
<1>1. Lesson => PaidWhenPassed  BY DEF Lesson
<1>2. QED  BY <1>1, Always, PTL

\* Trap XP is for mistakes that were made, and no cleared trap is unpaid.
THEOREM TrapsAlwaysPaid == Spec => []TrapsPaidForMistakes
<1>1. Lesson => TrapsPaidForMistakes
  BY DEF Lesson, TrapsPaidForMistakes, Mistake, Paid
<1>2. QED  BY <1>1, Always, PTL

\* XP is paid for what was passed or corrected, and all of it is (submitTask,
\* answerTrap).
THEOREM AlwaysPaidAsEarned == Spec => []PaidAsEarned
  BY PassAlwaysPaid, TrapsAlwaysPaid, PTL DEF PaidAsEarned
-----------------------------------------------------------------------------

\* While no request overwrote a newer row, nothing is counted twice and no best
\* percentage is lost.
THEOREM ExactAlwaysUnlessRaced == Spec => []ExactUnlessRaced
<1>1. Counted => ExactUnlessRaced  BY DEF Counted
<1>2. QED  BY <1>1, Always, PTL
-----------------------------------------------------------------------------
(***************************************************************************)
(* The community room.  Rows are ordered by their time and, within one     *)
(* millisecond, by their ids: strictly and totally, whatever the order     *)
(* they were committed in.                                                 *)
(***************************************************************************)
RowType == [id : messages, at : Nat, rank : Nat]

RowsSane(rows) ==
    /\ IsFiniteSet(rows) /\ rows \in SUBSET RowType
    /\ \A a \in rows : \A b \in rows : (a.id = b.id => a = b) /\ (a.rank = b.rank => a = b)

LEMMA OlderOrders ==
    /\ \A a \in RowType : ~older(a, a)
    /\ \A a \in RowType : \A b \in RowType : \A c \in RowType :
          older(a, b) /\ older(b, c) => older(a, c)
    /\ \A a \in RowType : \A b \in RowType : a.rank # b.rank => older(a, b) \/ older(b, a)
BY DEF older, RowType

\* A set of rows without a row before all the others would have to be infinite.
LEMMA Extreme ==
    ASSUME NEW S, IsFiniteSet(S), S # {}, NEW B,
           \A a \in S : <<a, a>> \notin B,
           \A a \in S : \A b \in S : \A c \in S :
              <<a, b>> \in B /\ <<b, c>> \in B => <<a, c>> \in B
    PROVE  \E x \in S : \A y \in S : <<y, x>> \notin B
<1> DEFINE under(x) == {y \in S : <<y, x>> \in B}
           unders == {under(x) : x \in S}
<1>1. unders \subseteq FiniteSubsetsOf(S) /\ unders # {}
  <2>1. FiniteSubsetsOf(S) = SUBSET S
    BY FS_FiniteSubsetsOfFinite
  <2>3. unders \subseteq SUBSET S
    <3> SUFFICES ASSUME NEW x \in S PROVE under(x) \subseteq S
      BY ZenonT(60)
    <3> QED OBVIOUS
  <2>4. PICK x \in S : TRUE
    OBVIOUS
  <2>5. under(x) \in unders
    BY <2>4
  <2> QED BY <2>1, <2>3, <2>5
<1>2. IsWellFoundedOn(StrictSubsetOrdering(S), FiniteSubsetsOf(S))
  BY FS_StrictSubsetOrderingWellFounded
<1>3. \E u \in unders : \A v \in unders : <<v, u>> \notin StrictSubsetOrdering(S)
  <2> HIDE DEF unders
  <2> QED BY <1>1, <1>2, WFMin
<1>4. PICK x \in S : \A v \in unders : <<v, under(x)>> \notin StrictSubsetOrdering(S)
  BY <1>3
<1>5. SUFFICES ASSUME NEW y \in S, <<y, x>> \in B PROVE FALSE
  OBVIOUS
<1>6. under(y) \subseteq under(x) /\ y \in under(x) /\ y \notin under(y)
  BY <1>5
<1>7. <<under(y), under(x)>> \in StrictSubsetOrdering(S)
  <2> DEFINE a == under(y)  b == under(x)
  <2>1. a \subseteq S /\ b \subseteq S /\ a \subseteq b /\ a # b
    BY <1>6
  <2> HIDE DEF a, b
  <2>2. <<a, b>> \in StrictSubsetOrdering(S)
    BY <2>1 DEF StrictSubsetOrdering
  <2> QED BY <2>2 DEF a, b
<1> QED BY <1>4, <1>7

LEMMA OldestFirst ==
    ASSUME NEW rows, RowsSane(rows), rows # {}
    PROVE  /\ oldest(rows) \in rows
           /\ \A other \in rows \ {oldest(rows)} : older(oldest(rows), other)
<1> DEFINE B == {ab \in rows \X rows : older(ab[1], ab[2])}
<1>1. \A a \in rows : \A b \in rows : <<a, b>> \in B <=> older(a, b)
  OBVIOUS
<1>2. rows \subseteq RowType /\ IsFiniteSet(rows)
  BY DEF RowsSane
<1>3. \A a \in rows : <<a, a>> \notin B
  BY <1>1, <1>2, OlderOrders
<1>4. \A a \in rows : \A b \in rows : \A c \in rows :
         <<a, b>> \in B /\ <<b, c>> \in B => <<a, c>> \in B
  BY <1>1, <1>2, OlderOrders
<1> HIDE DEF B
<1>5. PICK x \in rows : \A y \in rows : <<y, x>> \notin B
  BY <1>2, <1>3, <1>4, Extreme
<1>6. \A other \in rows \ {x} : older(x, other)
  <2> SUFFICES ASSUME NEW other \in rows, other # x PROVE older(x, other)
    OBVIOUS
  <2>1. ~older(other, x)
    BY <1>1, <1>5
  <2>2. other.rank # x.rank
    BY DEF RowsSane
  <2> QED BY <1>2, <2>1, <2>2, OlderOrders
<1> QED BY <1>6 DEF oldest

\* A row that is not on the page of the n newest has more than n in the room,
\* is older than all that are on the page, and there are some.
LEMMA PageEnds ==
    ASSUME NEW rows, RowsSane(rows), NEW n \in Nat \ {0}, NEW row \in rows,
           row \notin newest(rows, n)
    PROVE  /\ Cardinality(rows) > n
           /\ newest(rows, n) # {}
           /\ \A x \in newest(rows, n) : older(row, x)
<1> DEFINE above(x) == {other \in rows : older(x, other)}
<1>1. rows \subseteq RowType /\ IsFiniteSet(rows) /\ Cardinality(rows) \in Nat
  BY FS_CardinalityType DEF RowsSane
<1>2. \A x \in rows : IsFiniteSet(above(x)) /\ Cardinality(above(x)) \in Nat
  BY <1>1, FS_Subset, FS_CardinalityType
<1>3. \A x \in rows : x \in newest(rows, n) <=> Cardinality(above(x)) < n
  BY DEF newest
<1>4. Cardinality(above(row)) >= n
  BY <1>2, <1>3
<1>5. Cardinality(rows) > n
  <2>1. row \notin above(row) /\ above(row) \subseteq rows
    BY <1>1, OlderOrders
  <2> DEFINE A == above(row)
  <2>2. A \cup {row} \subseteq rows /\ row \notin A /\ IsFiniteSet(A)
    BY <1>2, <2>1
  <2>3. Cardinality(A) \in Nat /\ Cardinality(A) >= n
    BY <1>2, <1>4
  <2> HIDE DEF A
  <2>4. Cardinality(A \cup {row}) = Cardinality(A) + 1
    BY <2>2, FS_AddElement
  <2>5. Cardinality(A \cup {row}) <= Cardinality(rows)
    BY <1>1, <2>2, FS_Subset
  <2> QED BY <1>1, <2>3, <2>4, <2>5
<1>6. newest(rows, n) # {}
  <2> DEFINE B == {ab \in rows \X rows : older(ab[2], ab[1])}
  <2>1. \A a \in rows : \A b \in rows : <<a, b>> \in B <=> older(b, a)
    OBVIOUS
  <2>2. \A a \in rows : <<a, a>> \notin B
    BY <1>1, <2>1, OlderOrders
  <2>3. \A a \in rows : \A b \in rows : \A c \in rows :
           <<a, b>> \in B /\ <<b, c>> \in B => <<a, c>> \in B
    BY <1>1, <2>1, OlderOrders
  <2> HIDE DEF B
  <2>4. PICK x \in rows : \A y \in rows : <<y, x>> \notin B
    BY <1>1, <2>2, <2>3, Extreme
  <2>5. above(x) = {}
    BY <2>1, <2>4
  <2>6. Cardinality(above(x)) = 0
    BY <2>5, FS_EmptySet
  <2> QED BY <1>3, <2>6
<1>7. ASSUME NEW x \in newest(rows, n) PROVE older(row, x)
  <2>1. x \in rows /\ Cardinality(above(x)) < n /\ x # row
    BY <1>3 DEF newest
  <2>2. SUFFICES ASSUME ~older(row, x) PROVE FALSE
    OBVIOUS
  <2>3. older(x, row)
    BY <1>1, <2>1, <2>2, OlderOrders DEF RowsSane
  <2>4. above(row) \subseteq above(x)
    BY <1>1, <2>1, <2>3, OlderOrders
  <2>5. Cardinality(above(row)) <= Cardinality(above(x))
    BY <1>2, <2>1, <2>4, FS_Subset
  <2> QED BY <1>2, <1>4, <2>1, <2>5
<1> QED BY <1>5, <1>6, <1>7

(***************************************************************************)
(* A row of the history that is not listed is above everything that is,    *)
(* and there is more to load: this is what survives one more page.         *)
(***************************************************************************)
ScrollType ==
    [rows : SUBSET RowType, more : BOOLEAN, first : (SUBSET RowType) \cup {None}, live : BOOLEAN]
PostType ==
    [pc : {"new", "insert", "broadcast", "answered"}, at : Nat, row : RowType \cup {None}]

Above(row, held) == held.more /\ held.rows # {} /\ \A x \in held.rows : older(row, x)
Listed(row, held) == row \in held.rows \/ Above(row, held)

ScrollInv(rows, held) ==
    /\ held \in ScrollType
    /\ held.rows \subseteq rows
    /\ held.first # None => /\ held.first \subseteq rows
                            /\ \A row \in held.first : Listed(row, held)

OnAir(row, posts) == \E p \in Posts : posts[p].pc = "broadcast" /\ posts[p].row = row

HeardInv(rows, held, line, heard, lost, posts) ==
    held.live => /\ line.pc = "open"
                 /\ \A row \in rows : \/ Listed(row, held) \/ row \in heard
                                      \/ row \in lost \/ OnAir(row, posts)

ClockType == [now : Nat, restarts : Nat]

RoomInv ==
    /\ clock \in ClockType /\ post \in [Posts -> PostType]
    /\ RowsSane(room)
    /\ ScrollInv(room, scroll)
    /\ HeardInv(room, scroll, socket, received, unheard, post)

LEMMA AboveScrolls ==
    ASSUME RoomInv, NEW row
    PROVE  Above(row, scroll) /\ row \in room <=> toScroll(row) /\ row \in room
<1>1. CASE scroll.rows = {}
  BY <1>1 DEF Above, toScroll
<1>2. CASE scroll.rows # {}
  <2>1. RowsSane(scroll.rows)
    BY FS_Subset DEF RoomInv, ScrollInv, ScrollType, RowsSane
  <2>2. /\ oldest(scroll.rows) \in scroll.rows
        /\ \A other \in scroll.rows \ {oldest(scroll.rows)} : older(oldest(scroll.rows), other)
    BY <1>2, <2>1, OldestFirst
  <2>3. scroll.rows \subseteq RowType /\ room \subseteq RowType
    BY DEF RoomInv, ScrollInv, ScrollType, RowsSane
  <2> DEFINE o == oldest(scroll.rows)
  <2>4. o \in RowType
    BY <2>2, <2>3
  <2> HIDE DEF o
  <2>5. ASSUME older(row, o), row \in room PROVE \A x \in scroll.rows : older(row, x)
    <3> SUFFICES ASSUME NEW x \in scroll.rows, x # o PROVE older(row, x)
      BY <2>5
    <3>1. older(o, x)
      BY <2>2 DEF o
    <3> QED BY <2>3, <2>4, <2>5, <3>1, OlderOrders
  <2> QED BY <2>2, <2>5 DEF Above, toScroll, o
<1> QED BY <1>1, <1>2

\* What is listed or above stays so when the page above is added.
LEMMA ScrollStep ==
    ASSUME RoomInv, ScrollUp
    PROVE  /\ scroll' \in ScrollType /\ scroll'.rows \subseteq room
           /\ scroll'.first = scroll.first /\ scroll'.live = scroll.live
           /\ \A row \in room : Listed(row, scroll) => Listed(row, scroll')
<1> DEFINE o == oldest(scroll.rows)
           rest == {row \in room : before(row, o)}
           page == newest(rest, PageSize)
           new == [scroll EXCEPT !.rows = @ \cup page, !.more = Cardinality(rest) > PageSize]
<1>1. scroll.more /\ scroll.rows # {} /\ scroll' = new
  BY DEF ScrollUp
<1>2. RowsSane(scroll.rows) /\ RowsSane(rest) /\ rest \subseteq room
  BY FS_Subset DEF RoomInv, ScrollInv, ScrollType, RowsSane
<1>3. scroll \in ScrollType /\ page \subseteq rest /\ room \subseteq RowType
      /\ scroll.rows \subseteq room
  BY DEF RoomInv, ScrollInv, newest, RowsSane
<1>4. page \in SUBSET RowType
  BY <1>2, <1>3
<1> DEFINE more == Cardinality(rest) > PageSize
<1>5. more \in BOOLEAN
  OBVIOUS
<1> HIDE DEF page, more
<1>6. /\ new.rows = scroll.rows \cup page /\ new.more = more
      /\ new.first = scroll.first /\ new.live = scroll.live
      /\ new \in ScrollType
  BY <1>3, <1>4, <1>5 DEF ScrollType, more
<1>7. \A row \in room : Listed(row, scroll) => Listed(row, new)
  <2> SUFFICES ASSUME NEW row \in room, Listed(row, scroll), row \notin new.rows
               PROVE  Above(row, new)
    BY DEF Listed
  <2>1. Above(row, scroll)
    BY <1>6 DEF Listed
  <2>2. o \in scroll.rows
    BY <1>1, <1>2, OldestFirst
  <2>3. row \in rest
    BY <2>1, <2>2 DEF Above, before
  <2>4. row \notin page
    BY <1>6
  <2>5. Cardinality(rest) > PageSize /\ \A x \in page : older(row, x)
    <3> USE DEF page
    <3> HIDE DEF rest
    <3> QED BY <1>2, <2>3, <2>4, PageEnds, CommunityAssumption
  <2> QED BY <1>1, <1>6, <2>1, <2>5 DEF Above, more
<1> HIDE DEF new
<1> QED BY <1>1, <1>2, <1>3, <1>6, <1>7

\* The first page lists all of the room, or there is more above it.
LEMMA FirstPage ==
    ASSUME RoomInv, OpenHistory
    PROVE  /\ scroll' \in ScrollType /\ scroll'.rows \subseteq room
           /\ scroll'.first = room /\ (scroll'.live => socket.pc = "open")
           /\ \A row \in room : Listed(row, scroll')
<1> DEFINE page == newest(room, PageSize)  more == Cardinality(room) > PageSize
           open == socket.pc = "open"
           new == [rows |-> page, more |-> more, first |-> room, live |-> open]
<1>1. scroll' = new
  BY DEF OpenHistory
<1>2. page \subseteq room /\ room \in SUBSET RowType /\ RowsSane(room)
  BY DEF RoomInv, newest, RowsSane
<1>3. page \in SUBSET RowType /\ more \in BOOLEAN /\ open \in BOOLEAN
  BY <1>2
<1>4. \A row \in room : row \in page \/ (more /\ page # {} /\ \A x \in page : older(row, x))
  BY <1>2, PageEnds, CommunityAssumption
<1>5. open => socket.pc = "open"
  OBVIOUS
<1> HIDE DEF page, more, open
<1>6. new \in ScrollType
  BY <1>2, <1>3 DEF ScrollType
<1>7. \A row \in room : Listed(row, new)
  BY <1>4 DEF Listed, Above
<1> QED BY <1>1, <1>2, <1>5, <1>6, <1>7

LEMMA RoomInitial == RoomInit => RoomInv
<1> SUFFICES ASSUME RoomInit PROVE RoomInv
  OBVIOUS
<1>1. RowsSane(room)
  BY FS_EmptySet DEF RoomInit, RowsSane
<1>2. NewPost \in PostType
  BY DEF NewPost, PostType
<1>3. post \in [Posts -> PostType] /\ clock \in ClockType
  BY <1>2 DEF RoomInit, ClockType
<1>4. NewScroll \in ScrollType
  <2>1. {} \in SUBSET RowType /\ None \in (SUBSET RowType) \cup {None}
    OBVIOUS
  <2> DEFINE kept == SUBSET RowType  opened == (SUBSET RowType) \cup {None}
  <2>2. {} \in kept /\ None \in opened
    BY <2>1
  <2> HIDE DEF kept, opened
  <2>3. [rows |-> {}, more |-> TRUE, first |-> None, live |-> FALSE] \in
           [rows : kept, more : BOOLEAN, first : opened, live : BOOLEAN]
    BY <2>2
  <2> QED BY <2>3 DEF NewScroll, ScrollType, kept, opened
<1>5. NewScroll.rows = {} /\ NewScroll.first = None /\ ~NewScroll.live
  BY DEF NewScroll
<1>6. scroll = NewScroll
  BY DEF RoomInit
<1> QED BY <1>1, <1>3, <1>4, <1>5, <1>6 DEF RoomInv, ScrollInv, HeardInv

\* What is not a POST, a page or the socket touches none of it.
LEMMA RoomAside ==
    ASSUME RoomInv, clock' \in ClockType,
           UNCHANGED <<room, post, socket, received, scroll, unheard>>
    PROVE  RoomInv'
BY DEF RoomInv, HeardInv, OnAir

LEMMA StampKeeps == ASSUME RoomInv, NEW p \in Posts, Stamp(p) PROVE RoomInv'
<1> DEFINE v == [pc |-> "insert", at |-> clock.now, row |-> None]
<1>1. post[p].pc = "new" /\ post' = [post EXCEPT ![p] = v]
      /\ UNCHANGED <<clock, room, socket, received, scroll, unheard>>
  BY DEF Stamp
<1>2. v \in PostType /\ v.pc = "insert"
  BY DEF PostType, RoomInv, ClockType
<1> HIDE DEF v
<1>3. post' \in [Posts -> PostType]
  BY <1>1, <1>2 DEF RoomInv
<1>4. \A row : OnAir(row, post) => OnAir(row, post')
  BY <1>1 DEF OnAir, RoomInv
<1>5. HeardInv(room, scroll, socket, received, unheard, post')
  BY <1>4 DEF RoomInv, HeardInv
<1> QED BY <1>1, <1>3, <1>5 DEF RoomInv

LEMMA InsertKeeps == ASSUME RoomInv, NEW p \in Posts, Insert(p) PROVE RoomInv'
<1>1. post[p].pc = "insert" /\ UNCHANGED <<clock, socket, received, scroll, unheard>>
      /\ post \in [Posts -> PostType]
  BY DEF Insert, RoomInv
<1>2. CASE \E row \in room : row.id = messageOf[p]
  <2>1. post' = [post EXCEPT ![p].pc = "answered"] /\ room' = room
    BY <1>2 DEF Insert
  <2>2. post' \in [Posts -> PostType]
    BY <1>1, <2>1 DEF PostType
  <2>3. \A row : OnAir(row, post) => OnAir(row, post')
    BY <1>1, <2>1 DEF OnAir
  <2>4. HeardInv(room, scroll, socket, received, unheard, post')
    BY <2>3 DEF RoomInv, HeardInv
  <2> QED BY <1>1, <2>1, <2>2, <2>4 DEF RoomInv
<1>3. CASE ~ \E row \in room : row.id = messageOf[p]
  <2>1. PICK rank \in 1 .. Cardinality(messages) \ {row.rank : row \in room} :
           LET row == [id |-> messageOf[p], at |-> post[p].at, rank |-> rank]
           IN  /\ post' = [post EXCEPT ![p].pc = "broadcast", ![p].row = row]
               /\ room' = room \cup {row}
    BY <1>3 DEF Insert
  <2> DEFINE new == [id |-> messageOf[p], at |-> post[p].at, rank |-> rank]
  <2>2. rank \in Nat /\ \A row \in room : row.rank # rank
    <3>1. IsFiniteSet(messages)
      <4> DEFINE f == [q \in Posts |-> messageOf[q]]
      <4>1. f \in Surjection(Posts, messages)
        BY DEF Surjection, messages
      <4> HIDE DEF f
      <4> QED BY <4>1, CommunityAssumption, FS_Surjection
    <3>2. Cardinality(messages) \in Nat
      BY <3>1, FS_CardinalityType
    <3> QED BY <3>2
  <2>3. new \in RowType /\ new.id = messageOf[p] /\ new.rank = rank
    BY <1>1, <2>2 DEF RowType, PostType, messages
  <2>4. post' = [post EXCEPT ![p].pc = "broadcast", ![p].row = new] /\ room' = room \cup {new}
    BY <2>1
  <2> HIDE DEF new
  <2>5. post' \in [Posts -> PostType]
    BY <1>1, <2>3, <2>4 DEF PostType
  <2>6. RowsSane(room')
    BY <1>3, <2>2, <2>3, <2>4, FS_AddElement DEF RoomInv, RowsSane
  <2>7. ScrollInv(room', scroll)
    BY <2>4 DEF RoomInv, ScrollInv
  <2>8. OnAir(new, post') /\ \A row : OnAir(row, post) => OnAir(row, post')
    BY <1>1, <2>4 DEF OnAir
  <2>9. HeardInv(room', scroll, socket, received, unheard, post')
    BY <2>4, <2>8 DEF RoomInv, HeardInv
  <2> QED BY <1>1, <2>5, <2>6, <2>7, <2>9 DEF RoomInv
<1> QED BY <1>2, <1>3

LEMMA BroadcastKeeps == ASSUME RoomInv, NEW p \in Posts, Broadcast(p) PROVE RoomInv'
<1>1. /\ post[p].pc = "broadcast" /\ post' = [post EXCEPT ![p].pc = "answered"]
      /\ received' = IF socket.pc = "open" THEN received \cup {post[p].row} ELSE received
      /\ UNCHANGED <<clock, room, socket, scroll, unheard>> /\ post \in [Posts -> PostType]
  BY DEF Broadcast, RoomInv
<1>2. post' \in [Posts -> PostType]
  BY <1>1 DEF PostType
<1>3. \A row : OnAir(row, post) => OnAir(row, post') \/ row = post[p].row
  BY <1>1 DEF OnAir
<1>4. HeardInv(room, scroll, socket, received', unheard, post')
  BY <1>1, <1>3 DEF RoomInv, HeardInv
<1> QED BY <1>1, <1>2, <1>4 DEF RoomInv

LEMMA ConnectKeeps ==
    ASSUME RoomInv, socket.pc # "open", UNCHANGED <<clock, room, post, received, scroll, unheard>>
    PROVE  RoomInv'
<1>1. ~scroll.live
  BY DEF RoomInv, HeardInv
<1> QED BY <1>1 DEF RoomInv, HeardInv

\* The reader who is no longer there, with or without the process.
LEMMA LeaveKeeps ==
    ASSUME RoomInv, clock' \in ClockType, scroll' = [scroll EXCEPT !.live = FALSE],
           post' \in [Posts -> PostType], UNCHANGED room
    PROVE  RoomInv'
<1>1. scroll' \in ScrollType
  <2>1. scroll \in ScrollType /\ FALSE \in BOOLEAN
    BY DEF RoomInv, ScrollInv
  <2> QED BY <2>1 DEF ScrollType
<1>2. scroll'.rows = scroll.rows /\ scroll'.more = scroll.more /\ scroll'.first = scroll.first
      /\ ~scroll'.live
  BY DEF RoomInv, ScrollInv, ScrollType
<1>3. ScrollInv(room, scroll')
  BY <1>1, <1>2 DEF RoomInv, ScrollInv, Listed, Above
<1>4. HeardInv(room, scroll', socket', received', unheard', post')
  BY <1>2 DEF HeardInv
<1> QED BY <1>3, <1>4 DEF RoomInv

LEMMA OpenKeeps == ASSUME RoomInv, OpenHistory PROVE RoomInv'
<1>1. UNCHANGED <<clock, room, post, socket, unheard>>
  BY DEF OpenHistory
<1>2. ScrollInv(room, scroll')
  BY FirstPage DEF ScrollInv
<1>3. HeardInv(room, scroll', socket, received', unheard, post)
  BY FirstPage DEF HeardInv
<1> QED BY <1>1, <1>2, <1>3 DEF RoomInv

LEMMA ScrollKeeps == ASSUME RoomInv, ScrollUp PROVE RoomInv'
<1>1. UNCHANGED <<clock, room, post, socket, received, unheard>>
  BY DEF ScrollUp
<1>2. ScrollInv(room, scroll')
  BY ScrollStep DEF RoomInv, ScrollInv
<1>3. HeardInv(room, scroll', socket, received, unheard, post)
  BY ScrollStep DEF RoomInv, HeardInv
<1> QED BY <1>1, <1>2, <1>3 DEF RoomInv

LEMMA RoomKeeps == RoomInv /\ [RoomNext]_roomVars => RoomInv'
<1> SUFFICES ASSUME RoomInv, [RoomNext]_roomVars PROVE RoomInv'
  OBVIOUS
<1>0. clock \in ClockType
  BY DEF RoomInv
<1>1. CASE UNCHANGED roomVars
  BY <1>1, <1>0, RoomAside DEF roomVars
<1>2. ASSUME NEW p \in Posts, Stamp(p) \/ Insert(p) \/ Broadcast(p) PROVE RoomInv'
  BY <1>2, StampKeeps, InsertKeeps, BroadcastKeeps
<1>3. ASSUME NEW t \in Tickets, IssueTicket(t) \/ ExpireTicket(t) PROVE RoomInv'
  BY <1>3, <1>0, RoomAside DEF IssueTicket, ExpireTicket
<1>4. ASSUME NEW t \in Tickets, Connect(t) PROVE RoomInv'
  BY <1>4, ConnectKeeps DEF Connect
<1>5. CASE Admit
  BY <1>5, ConnectKeeps DEF Admit
<1>6. CASE Disconnect
  <2>1. post' \in [Posts -> PostType] /\ clock' \in ClockType
    BY <1>6 DEF Disconnect, RoomInv
  <2> QED BY <1>6, <2>1, LeaveKeeps DEF Disconnect
<1>7. CASE OpenHistory
  BY <1>7, OpenKeeps
<1>8. CASE ScrollUp
  BY <1>8, ScrollKeeps
<1>9. ASSUME NEW c \in CursorCalls, UnreadCount(c) \/ TakeNow(c) \/ Advance(c) \/ CreateCursor(c)
      PROVE  RoomInv'
  <2>1. UNCHANGED <<clock, room, post, socket, received, scroll, unheard>>
    BY <1>9 DEF UnreadCount, TakeNow, Advance, CreateCursor
  <2> QED BY <1>0, <2>1, RoomAside
<1>10. CASE Pass
  <2>1. clock' = [clock EXCEPT !.now = @ + 1]
        /\ UNCHANGED <<room, post, socket, received, scroll, unheard>>
    BY <1>10 DEF Pass
  <2>2. clock' \in ClockType
    BY <1>0, <2>1 DEF ClockType
  <2> QED BY <2>1, <2>2, RoomAside
<1>11. CASE Restart
  <2>1. clock' = [clock EXCEPT !.restarts = @ + 1] /\ scroll' = [scroll EXCEPT !.live = FALSE]
        /\ post' = [p \in Posts |-> IF post[p].pc = "answered" THEN post[p] ELSE NewPost]
        /\ UNCHANGED room
    BY <1>11 DEF Restart
  <2>2. NewPost \in PostType
    BY DEF NewPost, PostType
  <2>3. post' \in [Posts -> PostType] /\ clock' \in ClockType
    BY <1>0, <2>1, <2>2 DEF RoomInv, ClockType
  <2> QED BY <2>1, <2>3, LeaveKeeps
<1> QED BY <1>1, <1>2, <1>3, <1>4, <1>5, <1>6, <1>7, <1>8, <1>9, <1>10, <1>11 DEF RoomNext

(***************************************************************************)
(* The read cursor.  A mark that found it created since has read nothing   *)
(* for good; any other one only ever meets a later time.                   *)
(***************************************************************************)
MarkType == [pc : {"new", "update", "upsert", "done"}, now : Nat]

MarksInv ==
    /\ clock \in ClockType /\ cursor \in Nat \cup {None}
    /\ marking \in [CursorCalls -> MarkType]
    /\ \A c \in CursorCalls \ overtaken :
          /\ marking[c].pc = "new" => marking[c].now = 0
          /\ marking[c].pc = "done" => cursor # None /\ cursor >= marking[c].now
          /\ marking[c].pc = "upsert" => cursor = None \/ cursor >= marking[c].now

LEMMA MarksInitial == RoomInit => MarksInv
<1> SUFFICES ASSUME RoomInit PROVE MarksInv
  OBVIOUS
<1>1. [pc |-> "new", now |-> 0] \in MarkType
  BY DEF MarkType
<1> QED BY <1>1 DEF RoomInit, MarksInv, ClockType

LEMMA MarksKeep == MarksInv /\ [RoomNext]_roomVars => MarksInv'
<1> SUFFICES ASSUME MarksInv, [RoomNext]_roomVars PROVE MarksInv'
  OBVIOUS
<1>0. clock \in ClockType /\ clock.now \in Nat /\ cursor \in Nat \cup {None} /\ None \notin Nat
      /\ marking \in [CursorCalls -> MarkType]
  BY CommunityAssumption DEF MarksInv, ClockType
<1>1. CASE clock' \in ClockType /\ UNCHANGED <<cursor, marking, overtaken>>
  BY <1>1 DEF MarksInv
<1>2. CASE UNCHANGED roomVars
  BY <1>0, <1>1, <1>2 DEF roomVars
<1>3. ASSUME NEW p \in Posts, Stamp(p) \/ Insert(p) \/ Broadcast(p) PROVE MarksInv'
  BY <1>0, <1>1, <1>3 DEF Stamp, Insert, Broadcast
<1>4. ASSUME NEW t \in Tickets, IssueTicket(t) \/ ExpireTicket(t) \/ Connect(t) PROVE MarksInv'
  BY <1>0, <1>1, <1>4 DEF IssueTicket, ExpireTicket, Connect
<1>5. CASE Admit \/ Disconnect \/ OpenHistory \/ ScrollUp
  BY <1>0, <1>1, <1>5 DEF Admit, Disconnect, OpenHistory, ScrollUp
<1>6. CASE Pass \/ Restart
  <2>1. clock' \in ClockType
    BY <1>0, <1>6 DEF Pass, Restart, ClockType
  <2> QED BY <1>1, <1>6, <2>1 DEF Pass, Restart
<1>7. ASSUME NEW c \in CursorCalls, UnreadCount(c) PROVE MarksInv'
  <2>1. /\ marking[c].pc = "new" /\ marking' = [marking EXCEPT ![c].pc = "done"]
        /\ cursor' = IF cursor = None THEN clock.now ELSE cursor
        /\ overtaken' = IF cursor = None
                        THEN overtaken \cup {d \in CursorCalls : marking[d].pc = "upsert"}
                        ELSE overtaken
        /\ UNCHANGED clock
    BY <1>7 DEF UnreadCount
  <2>2. marking' \in [CursorCalls -> MarkType] /\ cursor' \in Nat
    BY <1>0, <2>1 DEF MarkType
  <2>3. ASSUME NEW d \in CursorCalls \ overtaken'
        PROVE  /\ marking'[d].pc = "new" => marking'[d].now = 0
               /\ marking'[d].pc = "done" => cursor' # None /\ cursor' >= marking'[d].now
               /\ marking'[d].pc = "upsert" => cursor' = None \/ cursor' >= marking'[d].now
    <3>1. d \notin overtaken /\ marking[d] \in MarkType /\ marking[d].now \in Nat
      BY <1>0, <2>1, <2>3 DEF MarkType
    <3>2. CASE d = c
      <4>1. marking'[d].pc = "done" /\ marking'[d].now = marking[d].now
        BY <1>0, <2>1, <3>2 DEF MarkType
      <4>2. marking[d].now = 0
        BY <2>1, <3>1, <3>2 DEF MarksInv
      <4> QED BY <1>0, <2>2, <4>1, <4>2
    <3>3. CASE d # c
      <4>1. marking'[d] = marking[d]
        BY <1>0, <2>1, <3>3
      <4> QED BY <1>0, <2>1, <2>3, <3>1, <4>1 DEF MarksInv
    <3> QED BY <3>2, <3>3
  <2> QED BY <1>0, <2>1, <2>2, <2>3 DEF MarksInv
<1>8. ASSUME NEW c \in CursorCalls, TakeNow(c) PROVE MarksInv'
  <2> DEFINE v == [pc |-> "update", now |-> clock.now]
  <2>1. marking' = [marking EXCEPT ![c] = v] /\ UNCHANGED <<clock, cursor, overtaken>>
    BY <1>8 DEF TakeNow
  <2>2. v \in MarkType /\ v.pc = "update"
    BY <1>0 DEF MarkType
  <2> HIDE DEF v
  <2> QED BY <1>0, <2>1, <2>2 DEF MarksInv
<1>9. ASSUME NEW c \in CursorCalls, Advance(c) PROVE MarksInv'
  <2>1. marking[c] \in MarkType /\ marking[c].now \in Nat /\ marking[c].pc = "update"
        /\ UNCHANGED <<clock, overtaken>>
    BY <1>0, <1>9 DEF Advance, MarkType
  <2>2. CASE cursor # None /\ cursor < marking[c].now
    <3>1. cursor' = marking[c].now /\ marking' = [marking EXCEPT ![c].pc = "done"]
      BY <1>9, <2>2 DEF Advance
    <3>2. marking' \in [CursorCalls -> MarkType]
      BY <1>0, <3>1 DEF MarkType
    <3>3. marking'[c].pc = "done" /\ marking'[c].now = marking[c].now
          /\ \A d \in CursorCalls : d # c => marking'[d] = marking[d] /\ marking[d].now \in Nat
      BY <1>0, <3>1 DEF MarkType
    <3> QED BY <1>0, <2>1, <2>2, <3>1, <3>2, <3>3 DEF MarksInv
  <2>3. CASE ~(cursor # None /\ cursor < marking[c].now)
    <3>1. cursor' = cursor /\ marking' = [marking EXCEPT ![c].pc = "upsert"]
      BY <1>9, <2>3 DEF Advance
    <3>2. marking' \in [CursorCalls -> MarkType]
      BY <1>0, <3>1 DEF MarkType
    <3>3. marking'[c].pc = "upsert" /\ marking'[c].now = marking[c].now
          /\ \A d \in CursorCalls : d # c => marking'[d] = marking[d]
      BY <1>0, <3>1 DEF MarkType
    <3> QED BY <1>0, <2>1, <2>3, <3>1, <3>2, <3>3 DEF MarksInv
  <2> QED BY <2>2, <2>3
<1>10. ASSUME NEW c \in CursorCalls, CreateCursor(c) PROVE MarksInv'
  <2>1. /\ marking[c].pc = "upsert" /\ marking' = [marking EXCEPT ![c].pc = "done"]
        /\ cursor' = IF cursor = None THEN marking[c].now ELSE cursor
        /\ overtaken' = IF cursor = None
                        THEN overtaken \cup {d \in CursorCalls \ {c} : marking[d].pc = "upsert"}
                        ELSE overtaken
        /\ UNCHANGED clock
    BY <1>10 DEF CreateCursor
  <2>2. marking' \in [CursorCalls -> MarkType] /\ cursor' \in Nat /\ marking[c].now \in Nat
    BY <1>0, <2>1 DEF MarkType
  <2>3. marking'[c].pc = "done" /\ marking'[c].now = marking[c].now
        /\ \A d \in CursorCalls : d # c => marking'[d] = marking[d]
    BY <1>0, <2>1 DEF MarkType
  <2>4. ASSUME NEW d \in CursorCalls \ overtaken'
        PROVE  /\ marking'[d].pc = "new" => marking'[d].now = 0
               /\ marking'[d].pc = "done" => cursor' # None /\ cursor' >= marking'[d].now
               /\ marking'[d].pc = "upsert" => cursor' = None \/ cursor' >= marking'[d].now
    <3>1. d \notin overtaken /\ marking[d].now \in Nat
      BY <1>0, <2>1, <2>4 DEF MarkType
    <3>2. CASE d = c
      BY <1>0, <2>1, <2>2, <2>3, <3>1, <3>2 DEF MarksInv
    <3>3. CASE d # c
      BY <1>0, <2>1, <2>2, <2>3, <2>4, <3>1, <3>3 DEF MarksInv
    <3> QED BY <3>2, <3>3
  <2> QED BY <1>0, <2>1, <2>2, <2>4 DEF MarksInv
<1> QED BY <1>2, <1>3, <1>4, <1>5, <1>6, <1>7, <1>8, <1>9, <1>10 DEF RoomNext

\* What RoomSound says of a reachable state.
LEMMA RoomTells == RoomInv /\ MarksInv => RoomSound
<1> SUFFICES ASSUME RoomInv, MarksInv PROVE RoomSound
  OBVIOUS
<1>1. \A row \in room : Listed(row, scroll) <=> row \in scroll.rows \/ toScroll(row)
  BY AboveScrolls DEF Listed
<1>2. HistoryExact
  BY <1>1 DEF HistoryExact, RoomInv, ScrollInv, RowsSane
<1>3. NothingMissed
  BY <1>1 DEF NothingMissed, RoomInv, HeardInv, OnAir
<1>4. MarksHold
  BY DEF MarksHold, MarksInv
<1> QED BY <1>2, <1>3, <1>4 DEF RoomSound

(* A reader of the room scrolls past no message, misses none while his     *)
(* socket is open, and no mark that was answered is taken back             *)
(* (CommunityChatService: listMessages, sendMessage, markRead).            *)
THEOREM RoomAlwaysSound == RoomSpec => []RoomSound
<1>1. RoomInit => RoomInv /\ MarksInv
  BY RoomInitial, MarksInitial
<1>2. RoomInv /\ MarksInv /\ [RoomNext]_roomVars => RoomInv' /\ MarksInv'
  BY RoomKeeps, MarksKeep
<1>3. RoomInv /\ MarksInv => RoomSound
  BY RoomTells
<1> QED BY <1>1, <1>2, <1>3, PTL DEF RoomSpec
-----------------------------------------------------------------------------
(***************************************************************************)
(* The bootstrap.  What a run may write was settled while it compared: the *)
(* rows that production lacked, each with the words the source had.  From  *)
(* its manifest on, the domains still to come are pending, and none of     *)
(* their rows is written.                                                  *)
(***************************************************************************)
RowContents == Contents \cup {None}
DiffType ==
    [insert : SUBSET RowIds, conflict : SUBSET RowIds, rows : [RowIds -> RowContents]]
DiffOrNone == DiffType \cup {<<>>}
Steps == {"new", "refused", "diff", "ended", "manifest", "domain", "committed", "failed",
          "verified"}
Modes == {"read", "apply", "unconfirmed", None}
ModelLists == Seq(DOMAIN Models)
DomainLists == Seq(Domains)
RunType ==
    [pc : Steps, mode : Modes, todo : ModelLists, diff : DiffOrNone, domains : DomainLists,
     count : {None}]

Once(models) == \A i \in DOMAIN models : \A j \in DOMAIN models : models[i] = models[j] => i = j

\* The rows to insert are those of models that were read, with their words.
Compared(run) ==
    /\ run.diff \in DiffType
    /\ \A x \in run.diff.insert : run.diff.rows[x] # None /\ x.model \notin ToSet(run.todo)

NoFixture(run) == \A x \in run.diff.insert : run.diff.rows[x] # "__test__"

planned(man, d) == domainRows(man.planned, d)
Untouched(man, made, d) == man.status[d] = "pending" /\ planned(man, d) \cap made = {}

\* The part of RollbackIsSafe that is about one run.
Undoable(r, man, made, vague) ==
    /\ made # {} => man # None /\ made \subseteq man.planned
    /\ man # None =>
          \A d \in Domains :
             /\ man.status[d] = "committed" => planned(man, d) \subseteq made
             /\ man.status[d] = "failed" /\ <<r, d>> \notin vague => planned(man, d) \cap made = {}
             /\ planned(man, d) \cap made \in {{}, planned(man, d)}

RunInv(r, run, man, made, vague) ==
    /\ Undoable(r, man, made, vague)
    /\ run.pc \in {"new", "refused", "diff", "manifest"} => man = None /\ made = {}
    /\ run.pc \in {"diff", "manifest", "domain", "committed", "failed"} =>
          Compared(run) /\ Once(run.todo)
    /\ run.pc \in {"manifest", "domain", "committed", "failed"} => NoFixture(run)
    /\ run.pc \in {"domain", "committed", "failed"} =>
          man # None /\ man.planned = run.diff.insert /\ Once(run.domains)
    /\ run.pc = "domain" => \A i \in DOMAIN run.domains : Untouched(man, made, run.domains[i])
    /\ run.pc \in {"committed", "failed"} =>
          /\ run.domains # <<>>
          /\ \A i \in DOMAIN run.domains : i # 1 => Untouched(man, made, run.domains[i])
    /\ run.pc = "committed" => planned(man, run.domains[1]) \subseteq made
    /\ run.pc = "failed" /\ <<r, run.domains[1]>> \notin vague =>
          planned(man, run.domains[1]) \cap made = {}

BootInv ==
    /\ source \in [RowIds -> RowContents] /\ production \in [RowIds -> RowContents]
    /\ changes \in Nat /\ ContentWhole
    /\ script \in [Runs -> RunType]
    /\ manifests \in [Runs -> ManifestType \cup {None}] /\ wrote \in [Runs -> SUBSET RowIds]
    /\ \A r \in Runs : RunInv(r, script[r], manifests[r], wrote[r], unsure)

LEMMA NewRunSane ==
    /\ NewRun \in RunType /\ NewRun.pc = "new"
    /\ NewRun = [pc |-> "new", mode |-> None, todo |-> <<>>, diff |-> <<>>, domains |-> <<>>,
                 count |-> None]
<1>1. "new" \in Steps /\ None \in Modes /\ <<>> \in DiffOrNone
  BY DEF Steps, Modes, DiffOrNone
<1>2. <<>> \in ModelLists /\ <<>> \in DomainLists
  BY DEF ModelLists, DomainLists
<1> QED BY <1>1, <1>2 DEF NewRun, RunType

LEMMA NothingDone == ASSUME NEW r, NEW vague PROVE Undoable(r, None, {}, vague)
BY DEF Undoable

LEMMA BootInitial == BootstrapInit => BootInv
<1> SUFFICES ASSUME BootstrapInit PROVE BootInv
  OBVIOUS
<1>1. /\ source \in [RowIds -> RowContents] /\ production \in [RowIds -> RowContents]
      /\ changes \in Nat /\ ContentWhole
  BY BootstrapAssumption DEF BootstrapInit, ContentWhole, RowContents
<1>2. script \in [Runs -> RunType] /\ manifests \in [Runs -> ManifestType \cup {None}]
      /\ wrote \in [Runs -> SUBSET RowIds]
  BY NewRunSane DEF BootstrapInit
<1>3. ASSUME NEW r \in Runs PROVE RunInv(r, script[r], manifests[r], wrote[r], unsure)
  <2>1. script[r] = NewRun /\ manifests[r] = None /\ wrote[r] = {}
    BY DEF BootstrapInit
  <2>2. NewRun.pc = "new"
    BY NewRunSane
  <2> QED BY <2>1, <2>2, NothingDone DEF RunInv
<1> QED BY <1>1, <1>2, <1>3 DEF BootInv

\* What is known better stays known of the other runs.
LEMMA VagueMore ==
    ASSUME NEW r, NEW run, NEW man, NEW made, NEW vague, NEW more,
           RunInv(r, run, man, made, vague), vague \subseteq more
    PROVE  RunInv(r, run, man, made, more)
<1>1. Undoable(r, man, made, more)
  BY DEF RunInv, Undoable
<1> QED BY <1>1 DEF RunInv

\* What a step of a run owes.
LEMMA RunOwes ==
    ASSUME BootInv, NEW r \in Runs, NEW run \in RunType, NEW man \in ManifestType \cup {None},
           NEW made \in SUBSET RowIds, unsure \subseteq unsure',
           script' = [script EXCEPT ![r] = run],
           manifests' = [manifests EXCEPT ![r] = man], wrote' = [wrote EXCEPT ![r] = made],
           RunInv(r, run, man, made, unsure'), UNCHANGED <<source, changes>>,
           production' \in [RowIds -> RowContents], ContentWhole'
    PROVE  BootInv'
<1>1. script' \in [Runs -> RunType] /\ manifests' \in [Runs -> ManifestType \cup {None}]
      /\ wrote' \in [Runs -> SUBSET RowIds]
  BY DEF BootInv
<1>2. ASSUME NEW q \in Runs PROVE RunInv(q, script'[q], manifests'[q], wrote'[q], unsure')
  <2>1. CASE q = r
    <3>1. script'[q] = run /\ manifests'[q] = man /\ wrote'[q] = made
      BY <2>1 DEF BootInv
    <3> QED BY <2>1, <3>1
  <2>2. CASE q # r
    <3>1. script'[q] = script[q] /\ manifests'[q] = manifests[q] /\ wrote'[q] = wrote[q]
      BY <2>2 DEF BootInv
    <3>2. RunInv(q, script[q], manifests[q], wrote[q], unsure)
      BY DEF BootInv
    <3> QED BY <3>1, <3>2, VagueMore
  <2> QED BY <2>1, <2>2
<1> QED BY <1>1, <1>2 DEF BootInv

\* ... when it is no more than a step of the script.
LEMMA ScriptOwes ==
    ASSUME BootInv, NEW r \in Runs, NEW run \in RunType, keeps(r, run),
           RunInv(r, run, manifests[r], wrote[r], unsure),
           UNCHANGED <<source, production, manifests, wrote, changes, unsure>>
    PROVE  BootInv'
<1>1. /\ manifests' = [manifests EXCEPT ![r] = manifests[r]]
      /\ wrote' = [wrote EXCEPT ![r] = wrote[r]]
      /\ manifests[r] \in ManifestType \cup {None} /\ wrote[r] \in SUBSET RowIds
  BY DEF BootInv
<1>2. production' \in [RowIds -> RowContents] /\ ContentWhole'
  BY DEF BootInv, ContentWhole
<1> QED BY <1>1, <1>2, RunOwes DEF keeps

LEMMA PcSet ==
    ASSUME NEW run \in RunType, NEW pc \in Steps
    PROVE  LET q == [run EXCEPT !.pc = pc]
           IN  /\ q \in RunType /\ q.pc = pc
               /\ q.todo = run.todo /\ q.diff = run.diff /\ q.domains = run.domains
BY DEF RunType

LEMMA StartSet ==
    ASSUME NEW run \in RunType, NEW pc \in Steps, NEW models \in ModelLists, NEW mode \in Modes,
           NEW diff \in DiffOrNone
    PROVE  LET q == [run EXCEPT !.pc = pc, !.todo = models, !.mode = mode, !.diff = diff]
           IN  /\ q \in RunType /\ q.pc = pc
               /\ q.todo = models /\ q.diff = diff /\ q.domains = run.domains
BY DEF RunType

LEMMA StepsAre ==
    /\ "new" \in Steps /\ "refused" \in Steps /\ "diff" \in Steps /\ "ended" \in Steps
    /\ "manifest" \in Steps /\ "domain" \in Steps /\ "committed" \in Steps
    /\ "failed" \in Steps /\ "verified" \in Steps
BY DEF Steps

\* A run that stops, or that never wrote, is past the obligations of a running one.
LEMMA StopKeeps ==
    ASSUME BootInv, NEW r \in Runs, NEW pc \in {"refused", "ended", "verified"},
           pc = "refused" => script[r].pc = "new", keeps(r, [script[r] EXCEPT !.pc = pc]),
           UNCHANGED <<source, production, manifests, wrote, changes, unsure>>
    PROVE  BootInv'
<1> DEFINE q == [script[r] EXCEPT !.pc = pc]
<1>1. script[r] \in RunType /\ RunInv(r, script[r], manifests[r], wrote[r], unsure)
  BY DEF BootInv
<1>2. q \in RunType /\ q.pc = pc
  BY <1>1, PcSet, StepsAre
<1> HIDE DEF q
<1>3. RunInv(r, q, manifests[r], wrote[r], unsure)
  BY <1>1, <1>2 DEF RunInv
<1> QED BY <1>2, <1>3, ScriptOwes DEF q

LEMMA LaunchKeeps == ASSUME BootInv, NEW r \in Runs, Launch(r) PROVE BootInv'
<1>1. script[r].pc = "new" /\ RunInv(r, script[r], manifests[r], wrote[r], unsure)
      /\ UNCHANGED <<source, production, manifests, wrote, changes, unsure>>
  BY DEF Launch, BootInv
<1>2. PICK arguments \in Arguments, t \in Targets :
         IF ~preflight(t) THEN keeps(r, [NewRun EXCEPT !.pc = "refused"])
         ELSE keeps(r, [NewRun EXCEPT !.pc = "diff", !.todo = ModelOrder,
                          !.mode = IF arguments.mode # "apply" THEN "read"
                                   ELSE IF confirmed(arguments, t) THEN "apply" ELSE "unconfirmed",
                          !.diff = [insert |-> {}, conflict |-> {}, rows |-> [x \in RowIds |-> None]]])
  BY DEF Launch
<1>3. Undoable(r, manifests[r], wrote[r], unsure) /\ manifests[r] = None /\ wrote[r] = {}
  BY <1>1 DEF RunInv
<1>4. CASE ~preflight(t)
  <2> DEFINE q == [NewRun EXCEPT !.pc = "refused"]
  <2>1. q \in RunType /\ q.pc = "refused"
    BY NewRunSane, PcSet, StepsAre
  <2>2. keeps(r, q)
    BY <1>2, <1>4
  <2> HIDE DEF q
  <2>3. RunInv(r, q, manifests[r], wrote[r], unsure)
    BY <1>3, <2>1 DEF RunInv
  <2> QED BY <1>1, <2>1, <2>2, <2>3, ScriptOwes
<1>5. CASE preflight(t)
  <2> DEFINE mode == IF arguments.mode # "apply" THEN "read"
                     ELSE IF confirmed(arguments, t) THEN "apply" ELSE "unconfirmed"
             diff == [insert |-> {}, conflict |-> {}, rows |-> [x \in RowIds |-> None]]
             q == [NewRun EXCEPT !.pc = "diff", !.todo = ModelOrder, !.mode = mode, !.diff = diff]
  <2>1. mode \in Modes
    BY DEF Modes
  <2>2. diff \in DiffType /\ diff.insert = {}
    BY DEF DiffType, RowContents
  <2>3. ModelOrder \in ModelLists /\ Once(ModelOrder)
    BY BootstrapAssumption DEF ModelLists, Once, IsInjective
  <2>4. keeps(r, q)
    BY <1>2, <1>5
  <2> HIDE DEF mode, diff
  <2>5. diff \in DiffOrNone
    BY <2>2 DEF DiffOrNone
  <2>6. q \in RunType /\ q.pc = "diff" /\ q.todo = ModelOrder /\ q.diff = diff
    <3>1. NewRun \in RunType /\ "diff" \in Steps
      BY NewRunSane, StepsAre
    <3>2. ModelOrder \in ModelLists
      BY <2>3
    <3> QED BY <2>1, <2>5, <3>1, <3>2 DEF RunType
  <2> HIDE DEF q
  <2>7. RunInv(r, q, manifests[r], wrote[r], unsure)
    BY <1>3, <2>2, <2>3, <2>6 DEF RunInv, Compared
  <2> QED BY <1>1, <2>4, <2>6, <2>7, ScriptOwes
<1> QED BY <1>4, <1>5

LEMMA OnceTail ==
    ASSUME NEW S, NEW models \in Seq(S), models # <<>>, Once(models)
    PROVE  /\ Tail(models) \in Seq(S) /\ Once(Tail(models)) /\ Head(models) \notin ToSet(Tail(models))
           /\ ToSet(Tail(models)) \subseteq ToSet(models) /\ Head(models) = models[1]
           /\ 1 \in DOMAIN models
           /\ \A i \in DOMAIN Tail(models) : i + 1 \in DOMAIN models /\ i + 1 # 1
                                           /\ Tail(models)[i] = models[i + 1]
<1>1. Tail(models) \in Seq(S) /\ Len(Tail(models)) = Len(models) - 1 /\ Head(models) = models[1]
      /\ Len(models) \in Nat /\ Len(models) # 0 /\ DOMAIN models = 1 .. Len(models)
      /\ DOMAIN Tail(models) = 1 .. Len(models) - 1
  OBVIOUS
<1>2. \A i \in DOMAIN Tail(models) : i + 1 \in DOMAIN models /\ i + 1 # 1
                                   /\ Tail(models)[i] = models[i + 1]
  BY <1>1
<1>3. 1 \in DOMAIN models
  BY <1>1
<1>4. Once(Tail(models))
  <2> SUFFICES ASSUME NEW i \in DOMAIN Tail(models), NEW j \in DOMAIN Tail(models),
                      Tail(models)[i] = Tail(models)[j]
               PROVE  i = j
    BY DEF Once
  <2>1. i + 1 = j + 1
    BY <1>2 DEF Once
  <2> QED BY <1>1, <2>1
<1>5. Head(models) \notin ToSet(Tail(models))
  BY <1>1, <1>2, <1>3 DEF Once, ToSet
<1>6. ToSet(Tail(models)) \subseteq ToSet(models)
  BY <1>2 DEF ToSet
<1> QED BY <1>1, <1>2, <1>3, <1>4, <1>5, <1>6

LEMMA DiffKeeps == ASSUME BootInv, NEW r \in Runs, DiffModel(r) PROVE BootInv'
<1> DEFINE run   == script[r]
           model == Head(run.todo)
           rows  == [x \in RowIds |-> IF x.model = model THEN source[x] ELSE None]
           found == diffRows(rows, production)
           diff  == [insert   |-> run.diff.insert \cup found.insert,
                     conflict |-> run.diff.conflict \cup found.conflict,
                     rows     |-> [x \in RowIds |-> IF x.model = model THEN rows[x] ELSE run.diff.rows[x]]]
           q     == [run EXCEPT !.todo = Tail(run.todo), !.diff = diff]
<1>1. run \in RunType /\ run.pc = "diff" /\ run.todo # <<>>
      /\ RunInv(r, run, manifests[r], wrote[r], unsure)
      /\ UNCHANGED <<source, production, manifests, wrote, changes, unsure>>
  BY DEF DiffModel, BootInv
<1>2. keeps(r, q)
  BY DEF DiffModel
<1>3. run.todo \in Seq(DOMAIN Models) /\ Once(run.todo) /\ Compared(run)
  BY <1>1 DEF RunInv, RunType, ModelLists
<1>4. Tail(run.todo) \in ModelLists /\ Once(Tail(run.todo)) /\ model \notin ToSet(Tail(run.todo))
      /\ ToSet(Tail(run.todo)) \subseteq ToSet(run.todo) /\ model \in ToSet(run.todo)
  BY <1>1, <1>3, OnceTail DEF ModelLists, ToSet
<1>5. source \in [RowIds -> RowContents] /\ run.diff \in DiffType
  BY <1>3 DEF BootInv, Compared
<1>6. rows \in [RowIds -> RowContents]
  BY <1>5 DEF RowContents
<1>7. found.insert \subseteq RowIds /\ found.conflict \subseteq RowIds
      /\ \A x \in found.insert : x.model = model /\ rows[x] # None
  BY DEF diffRows
<1>8. diff \in DiffType
  <2>1. run.diff.insert \in SUBSET RowIds /\ run.diff.conflict \in SUBSET RowIds
        /\ run.diff.rows \in [RowIds -> RowContents]
    BY <1>5 DEF DiffType
  <2> HIDE DEF run, model, rows, found
  <2> QED BY <1>6, <1>7, <2>1 DEF DiffType
<1>9. \A x \in diff.insert : diff.rows[x] # None /\ x.model \notin ToSet(Tail(run.todo))
  <2> SUFFICES ASSUME NEW x \in diff.insert
               PROVE  diff.rows[x] # None /\ x.model \notin ToSet(Tail(run.todo))
    OBVIOUS
  <2>1. x \in RowIds
    BY <1>8 DEF DiffType
  <2>2. CASE x \in found.insert
    BY <1>4, <1>7, <2>1, <2>2
  <2>3. CASE x \in run.diff.insert
    <3>1. run.diff.rows[x] # None /\ x.model \notin ToSet(run.todo)
      BY <1>3, <2>3 DEF Compared
    <3>2. x.model # model
      BY <1>4, <3>1
    <3> QED BY <1>4, <2>1, <3>1, <3>2
  <2> QED BY <2>2, <2>3
<1> HIDE DEF diff
<1>10. diff \in DiffOrNone
  BY <1>8 DEF DiffOrNone
<1>11. q \in RunType /\ q.pc = "diff" /\ q.todo = Tail(run.todo) /\ q.diff = diff
  <2> DEFINE models == Tail(run.todo)
  <2>1. run \in RunType /\ run.pc = "diff" /\ models \in ModelLists
    BY <1>1, <1>4
  <2> HIDE DEF run, models
  <2>2. LET p == [run EXCEPT !.todo = models, !.diff = diff]
        IN  p \in RunType /\ p.pc = run.pc /\ p.todo = models /\ p.diff = diff
    BY <1>10, <2>1 DEF RunType
  <2> QED BY <2>1, <2>2 DEF models
<1> HIDE DEF q
<1>12. Compared(q)
  BY <1>8, <1>9, <1>11 DEF Compared
<1>13. RunInv(r, q, manifests[r], wrote[r], unsure)
  BY <1>1, <1>4, <1>11, <1>12 DEF RunInv
<1> QED BY <1>1, <1>2, <1>11, <1>13, ScriptOwes

LEMMA EndDiffKeeps == ASSUME BootInv, NEW r \in Runs, EndDiff(r) PROVE BootInv'
<1> DEFINE pc == IF contaminated(r) \/ script[r].mode # "apply" THEN "ended" ELSE "manifest"
           q == [script[r] EXCEPT !.pc = pc]
<1>1. script[r] \in RunType /\ script[r].pc = "diff" /\ keeps(r, q)
      /\ RunInv(r, script[r], manifests[r], wrote[r], unsure)
      /\ UNCHANGED <<source, production, manifests, wrote, changes, unsure>>
  BY DEF EndDiff, BootInv
<1>2. CASE pc = "ended"
  BY <1>1, <1>2, StopKeeps
<1>3. CASE pc = "manifest"
  <2>1. ~contaminated(r)
    BY <1>3
  <2>2. NoFixture(script[r])
    BY <1>1, <2>1 DEF contaminated, NoFixture, RunInv, Compared, DiffType
  <2>3. q \in RunType /\ q.pc = "manifest" /\ q.todo = script[r].todo /\ q.diff = script[r].diff
    BY <1>1, <1>3, PcSet, StepsAre
  <2> HIDE DEF q, pc
  <2>4. RunInv(r, q, manifests[r], wrote[r], unsure)
    BY <1>1, <2>2, <2>3 DEF RunInv, Compared, NoFixture
  <2> QED BY <1>1, <2>3, <2>4, ScriptOwes
<1> QED BY <1>2, <1>3

LEMMA ManifestKeeps == ASSUME BootInv, NEW r \in Runs, WriteManifest(r) PROVE BootInv'
<1> DEFINE man == [planned |-> script[r].diff.insert, status |-> [d \in Domains |-> "pending"]]
           q == [script[r] EXCEPT !.pc = "domain", !.domains = DOMAIN_ORDER]
<1>1. script[r] \in RunType /\ script[r].pc = "manifest" /\ keeps(r, q)
      /\ manifests' = [manifests EXCEPT ![r] = man]
      /\ RunInv(r, script[r], manifests[r], wrote[r], unsure)
      /\ UNCHANGED <<source, production, wrote, changes, unsure>>
      /\ wrote' = [wrote EXCEPT ![r] = wrote[r]] /\ wrote[r] \in SUBSET RowIds
  BY DEF WriteManifest, BootInv
<1>2. Compared(script[r]) /\ NoFixture(script[r]) /\ wrote[r] = {} /\ Once(script[r].todo)
  BY <1>1 DEF RunInv
<1>3. man \in ManifestType /\ man.planned = script[r].diff.insert
      /\ \A d \in Domains : man.status[d] = "pending"
  <2>1. script[r].diff.insert \in SUBSET RowIds
    BY <1>2 DEF Compared, DiffType
  <2> QED BY <2>1 DEF ManifestType
<1>4. man # None
  BY <1>3, BootstrapAssumption
<1>5. DOMAIN_ORDER \in DomainLists /\ Once(DOMAIN_ORDER)
      /\ \A i \in DOMAIN DOMAIN_ORDER : DOMAIN_ORDER[i] \in Domains
  BY BootstrapAssumption DEF DomainLists, Once, IsInjective
<1>6. q \in RunType /\ q.pc = "domain" /\ q.todo = script[r].todo /\ q.diff = script[r].diff
      /\ q.domains = DOMAIN_ORDER
  <2>1. script[r] \in RunType /\ "domain" \in Steps
    BY <1>1, StepsAre
  <2> QED BY <1>5, <2>1 DEF RunType
<1> HIDE DEF man, q
<1>7. Undoable(r, man, wrote[r], unsure)
  BY <1>2, <1>3 DEF Undoable
<1>8. RunInv(r, q, man, wrote[r], unsure)
  BY <1>2, <1>3, <1>4, <1>5, <1>6, <1>7 DEF RunInv, Compared, NoFixture, Untouched
<1>9. production' \in [RowIds -> RowContents] /\ ContentWhole'
  BY <1>1 DEF BootInv, ContentWhole
<1> QED BY <1>1, <1>3, <1>6, <1>8, <1>9, RunOwes DEF keeps

\* Rows of one domain are not rows of another.
LEMMA DomainsApart ==
    ASSUME NEW plan, NEW d, NEW e, d # e
    PROVE  domainRows(plan, d) \cap domainRows(plan, e) = {}
BY DEF domainRows

LEMMA WriteKeeps == ASSUME BootInv, NEW r \in Runs, WriteDomain(r) PROVE BootInv'
<1> DEFINE run    == script[r]
           domain == Head(run.domains)
           rows   == domainRows(run.diff.insert, domain)
           written == [x \in RowIds |-> IF x \in rows THEN run.diff.rows[x] ELSE production[x]]
           man    == manifests[r]
           made   == wrote[r] \cup rows
           failing == [run EXCEPT !.pc = "failed"]
           done    == [run EXCEPT !.pc = "committed"]
<1>1. run \in RunType /\ run.pc = "domain" /\ run.domains # <<>>
      /\ RunInv(r, run, man, wrote[r], unsure) /\ UNCHANGED <<source, manifests, changes>>
      /\ man \in ManifestType \cup {None} /\ wrote[r] \in SUBSET RowIds
      /\ manifests' = [manifests EXCEPT ![r] = man]
      /\ wrote = [wrote EXCEPT ![r] = wrote[r]]
  BY DEF WriteDomain, BootInv
<1>2. /\ Compared(run) /\ NoFixture(run) /\ man # None /\ man.planned = run.diff.insert
      /\ Once(run.domains) /\ Once(run.todo)
      /\ \A i \in DOMAIN run.domains : Untouched(man, wrote[r], run.domains[i])
      /\ Undoable(r, man, wrote[r], unsure)
  BY <1>1 DEF RunInv
<1>3. 1 \in DOMAIN run.domains /\ domain = run.domains[1] /\ domain \in Domains
      /\ \A i \in DOMAIN run.domains : run.domains[i] \in Domains
                                       /\ (i # 1 => run.domains[i] # domain)
  <2>1. run.domains \in Seq(Domains)
    BY <1>1 DEF RunType, DomainLists
  <2>2. 1 \in DOMAIN run.domains /\ domain = run.domains[1]
    BY <1>1, <1>2, <2>1, OnceTail
  <2> QED BY <1>2, <2>1, <2>2 DEF Once
<1>4. rows = planned(man, domain) /\ rows \subseteq run.diff.insert /\ rows \subseteq RowIds
      /\ rows \cap wrote[r] = {} /\ man.status[domain] = "pending"
  BY <1>2, <1>3 DEF planned, domainRows, Untouched, Compared, DiffType
<1>5. /\ failing \in RunType /\ failing.pc = "failed" /\ failing.todo = run.todo
      /\ failing.diff = run.diff /\ failing.domains = run.domains
      /\ done \in RunType /\ done.pc = "committed" /\ done.todo = run.todo
      /\ done.diff = run.diff /\ done.domains = run.domains
  BY <1>1, PcSet, StepsAre
<1> HIDE DEF failing, done
<1>6. CASE domainRows(run.diff.conflict, domain) # {} \/ ~mayCreate(rows)
  <2>1. keeps(r, failing) /\ UNCHANGED <<production, wrote, unsure>>
    BY <1>6 DEF WriteDomain, failing
  <2>2. RunInv(r, failing, man, wrote[r], unsure)
    BY <1>1, <1>2, <1>3, <1>4, <1>5 DEF RunInv, Compared, NoFixture
  <2> QED BY <1>1, <1>5, <2>1, <2>2, ScriptOwes
<1>7. CASE ~(domainRows(run.diff.conflict, domain) # {} \/ ~mayCreate(rows))
  <2>1. /\ production' = written /\ wrote' = [wrote EXCEPT ![r] = made]
        /\ \/ keeps(r, done) /\ UNCHANGED unsure
           \/ unsure' = unsure \cup {<<r, domain>>} /\ keeps(r, failing)
    BY <1>7 DEF WriteDomain, failing, done
  <2>2. production' \in [RowIds -> RowContents] /\ ContentWhole'
    <3>1. run.diff.rows \in [RowIds -> RowContents] /\ production \in [RowIds -> RowContents]
      BY <1>2 DEF Compared, DiffType, BootInv
    <3>2. \A x \in rows : run.diff.rows[x] # None /\ run.diff.rows[x] # "__test__"
      BY <1>2, <1>4 DEF Compared, NoFixture
    <3>3. \A x \in rows : x.parent # None => production[x.parent] # None \/ x.parent \in rows
      BY <1>7 DEF mayCreate
    <3>4. \A x \in RowIds : x.parent # None => x.parent \in RowIds
      BY BootstrapAssumption
    <3>5. ContentWhole
      BY DEF BootInv
    <3> HIDE DEF rows, run
    <3>6. written \in [RowIds -> RowContents]
      BY <3>1
    <3>7. \A x \in RowIds : production[x] # None => written[x] # None
      BY <3>2
    <3>8. \A x \in rows : written[x] = run.diff.rows[x]
      BY <1>4
    <3>9. \A x \in RowIds \ rows : written[x] = production[x]
      OBVIOUS
    <3> HIDE DEF written
    <3>10. ASSUME NEW x \in RowIds, written[x] # None
           PROVE  written[x] # "__test__" /\ (x.parent # None => written[x.parent] # None)
      <4>1. CASE x \in rows
        BY <1>4, <3>2, <3>3, <3>4, <3>7, <3>8, <4>1
      <4>2. CASE x \notin rows
        BY <3>4, <3>5, <3>7, <3>9, <3>10, <4>2 DEF ContentWhole
      <4> QED BY <4>1, <4>2
    <3> QED BY <2>1, <3>6, <3>10 DEF ContentWhole
  <2>3. made \in SUBSET RowIds /\ wrote[r] \subseteq made /\ rows \subseteq made
    BY <1>1, <1>4
  <2>4. \A d \in Domains : d # domain => planned(man, d) \cap made = planned(man, d) \cap wrote[r]
    BY <1>4, DomainsApart DEF planned
  <2>5. planned(man, domain) \cap made = planned(man, domain)
    BY <1>4, <2>3
  <2>6. made \subseteq man.planned
    BY <1>2, <1>4 DEF Undoable
  <2> HIDE DEF made, rows, run, domain, man
  <2>7. \A vague : unsure \subseteq vague => Undoable(r, man, made, vague)
    <3> SUFFICES ASSUME NEW vague, unsure \subseteq vague PROVE Undoable(r, man, made, vague)
      OBVIOUS
    <3>1. ASSUME NEW d \in Domains
          PROVE  /\ man.status[d] = "committed" => planned(man, d) \subseteq made
                 /\ man.status[d] = "failed" /\ <<r, d>> \notin vague => planned(man, d) \cap made = {}
                 /\ planned(man, d) \cap made \in {{}, planned(man, d)}
      <4>1. CASE d = domain
        BY <1>4, <2>5, <4>1
      <4>2. CASE d # domain
        BY <1>2, <2>3, <2>4, <4>2 DEF Undoable
      <4> QED BY <4>1, <4>2
    <3> QED BY <1>2, <2>6, <3>1 DEF Undoable
  <2>8. \A i \in DOMAIN run.domains : i # 1 => Untouched(man, made, run.domains[i])
    BY <1>2, <1>3, <2>4 DEF Untouched
  <2>9. CASE keeps(r, done) /\ UNCHANGED unsure
    <3>1. RunInv(r, done, man, made, unsure)
      BY <1>2, <1>3, <1>5, <2>5, <2>7, <2>8 DEF RunInv, Compared, NoFixture
    <3> QED BY <1>1, <1>5, <2>1, <2>2, <2>3, <2>9, <3>1, RunOwes DEF keeps
  <2>10. CASE unsure' = unsure \cup {<<r, domain>>} /\ keeps(r, failing)
    <3>1. unsure \subseteq unsure' /\ <<r, domain>> \in unsure'
      BY <2>10
    <3>2. RunInv(r, failing, man, made, unsure')
      BY <1>2, <1>3, <1>5, <2>7, <2>8, <3>1 DEF RunInv, Compared, NoFixture
    <3> QED BY <1>1, <1>5, <2>1, <2>2, <2>3, <2>10, <3>1, <3>2, RunOwes DEF keeps
  <2> QED BY <2>1, <2>9, <2>10
<1> QED BY <1>6, <1>7

LEMMA MarkKeeps == ASSUME BootInv, NEW r \in Runs, MarkDomain(r) PROVE BootInv'
<1> DEFINE run   == script[r]
           man   == manifests[r]
           made  == wrote[r]
           models  == run.domains
           d     == Head(models)
           said  == [man EXCEPT !.status[d] = run.pc]
           ended == [run EXCEPT !.pc = "ended"]
           next  == [run EXCEPT !.pc = "domain", !.domains = Tail(models)]
<1>1. /\ run \in RunType /\ run.pc \in {"committed", "failed"}
      /\ RunInv(r, run, man, made, unsure)
      /\ UNCHANGED <<source, production, wrote, changes, unsure>>
      /\ man \in ManifestType \cup {None} /\ made \in SUBSET RowIds
      /\ wrote' = [wrote EXCEPT ![r] = made]
  BY DEF MarkDomain, BootInv
<1>2. manifests' = [manifests EXCEPT ![r] = said]
      /\ keeps(r, IF run.pc = "failed" THEN ended ELSE next)
  BY DEF MarkDomain, BootInv
<1>3. /\ Compared(run) /\ NoFixture(run) /\ man # None /\ man.planned = run.diff.insert
      /\ Once(models) /\ Once(run.todo) /\ models # <<>> /\ Undoable(r, man, made, unsure)
      /\ \A i \in DOMAIN models : i # 1 => Untouched(man, made, models[i])
      /\ run.pc = "committed" => planned(man, models[1]) \subseteq made
      /\ run.pc = "failed" /\ <<r, models[1]>> \notin unsure => planned(man, models[1]) \cap made = {}
  BY <1>1 DEF RunInv
<1>4. /\ models \in Seq(Domains) /\ Tail(models) \in DomainLists /\ Once(Tail(models))
      /\ d = models[1] /\ d \in Domains
      /\ \A i \in DOMAIN Tail(models) :
            i + 1 \in DOMAIN models /\ i + 1 # 1 /\ Tail(models)[i] = models[i + 1]
            /\ Tail(models)[i] \in Domains /\ Tail(models)[i] # d
  <2>1. models \in Seq(Domains)
    BY <1>1 DEF RunType, DomainLists
  <2> HIDE DEF models
  <2>2. /\ Tail(models) \in Seq(Domains) /\ Once(Tail(models)) /\ Head(models) = models[1]
        /\ 1 \in DOMAIN models
        /\ \A i \in DOMAIN Tail(models) : i + 1 \in DOMAIN models /\ i + 1 # 1
                                        /\ Tail(models)[i] = models[i + 1]
    BY <1>3, <2>1, OnceTail
  <2>3. \A i \in DOMAIN models : models[i] \in Domains /\ (i # 1 => models[i] # models[1])
    BY <1>3, <2>1, <2>2 DEF Once
  <2> QED BY <2>1, <2>2, <2>3 DEF DomainLists
<1>5. man \in ManifestType
  BY <1>1, <1>3
<1>6. /\ said \in ManifestType /\ said.planned = man.planned /\ said.status[d] = run.pc
      /\ \A e \in Domains : e # d => said.status[e] = man.status[e]
  <2> HIDE DEF run, man, d, models
  <2> QED BY <1>1, <1>4, <1>5 DEF ManifestType
<1>7. said # None
  BY <1>6, BootstrapAssumption
<1> HIDE DEF said
<1>8. \A e : planned(said, e) = planned(man, e)
  BY <1>6 DEF planned
<1>9. Undoable(r, said, made, unsure)
  <2> HIDE DEF run, man, made, models, d
  <2>1. ASSUME NEW e \in Domains
        PROVE  /\ said.status[e] = "committed" => planned(said, e) \subseteq made
               /\ said.status[e] = "failed" /\ <<r, e>> \notin unsure =>
                     planned(said, e) \cap made = {}
               /\ planned(said, e) \cap made \in {{}, planned(said, e)}
    <3>1. CASE e = d
      BY <1>1, <1>3, <1>4, <1>6, <1>8, <3>1 DEF Undoable
    <3>2. CASE e # d
      BY <1>3, <1>6, <1>8, <3>2 DEF Undoable
    <3> QED BY <3>1, <3>2
  <2> QED BY <1>3, <1>6, <1>7, <2>1 DEF Undoable
<1>10. production' \in [RowIds -> RowContents] /\ ContentWhole'
  BY <1>1 DEF BootInv, ContentWhole
<1>11. CASE run.pc = "failed"
  <2>1. ended \in RunType /\ ended.pc = "ended"
    BY <1>1, PcSet, StepsAre
  <2> HIDE DEF ended
  <2>2. RunInv(r, ended, said, made, unsure)
    BY <1>9, <2>1 DEF RunInv
  <2> QED BY <1>1, <1>2, <1>6, <1>10, <1>11, <2>1, <2>2, RunOwes DEF keeps
<1>12. CASE run.pc = "committed"
  <2>1. /\ next \in RunType /\ next.pc = "domain" /\ next.todo = run.todo
        /\ next.diff = run.diff /\ next.domains = Tail(models)
    <3>1. "domain" \in Steps
      BY StepsAre
    <3> DEFINE rest == Tail(models)
    <3>2. rest \in DomainLists
      BY <1>4
    <3>3. run \in RunType
      BY <1>1
    <3> HIDE DEF rest, run
    <3>4. LET p == [run EXCEPT !.pc = "domain", !.domains = rest]
          IN  /\ p \in RunType /\ p.pc = "domain" /\ p.todo = run.todo
              /\ p.diff = run.diff /\ p.domains = rest
      BY <3>1, <3>2, <3>3 DEF RunType
    <3> QED BY <3>4 DEF rest
  <2> HIDE DEF next
  <2>2. \A i \in DOMAIN next.domains : Untouched(said, made, next.domains[i])
    <3> SUFFICES ASSUME NEW i \in DOMAIN Tail(models) PROVE Untouched(said, made, Tail(models)[i])
      BY <2>1
    <3> QED BY <1>3, <1>4, <1>6, <1>8 DEF Untouched
  <2>3. RunInv(r, next, said, made, unsure)
    BY <1>3, <1>4, <1>6, <1>7, <1>9, <2>1, <2>2 DEF RunInv, Compared, NoFixture
  <2> QED BY <1>1, <1>2, <1>6, <1>10, <1>12, <2>1, <2>3, RunOwes DEF keeps
<1> QED BY <1>1, <1>11, <1>12

\* An editor may add, change or delete a row of production, with the foreign
\* keys checked, and what he likes in the source.
LEMMA EditKeeps == ASSUME BootInv, Edit PROVE BootInv'
<1>1. /\ source \in [RowIds -> RowContents] /\ production \in [RowIds -> RowContents]
      /\ changes \in Nat /\ changes' = changes + 1 /\ ContentWhole
      /\ UNCHANGED <<script, manifests, wrote, unsure>>
  BY DEF Edit, BootInv
<1>2. {"text", "__test__", "edited", None} = RowContents
  BY DEF RowContents, Contents
<1>3. source' \in [RowIds -> RowContents] /\ production' \in [RowIds -> RowContents]
  BY <1>1, <1>2 DEF Edit
<1>4. None # "edited" /\ \A x \in RowIds : x.parent # None => x.parent \in RowIds
  BY BootstrapAssumption DEF Contents
<1>5. ContentWhole'
  <2> SUFFICES ASSUME NEW y \in RowIds, production'[y] # None
               PROVE  production'[y] # "__test__"
                      /\ (y.parent # None => production'[y.parent] # None)
    BY DEF ContentWhole
  <2>1. CASE production' = production
    BY <1>1, <2>1 DEF ContentWhole
  <2>2. ASSUME NEW x \in RowIds, x.parent # None => production[x.parent] # None,
               production' = [production EXCEPT ![x] = "edited"]
        PROVE  production'[y] # "__test__"
               /\ (y.parent # None => production'[y.parent] # None)
    BY <1>1, <1>4, <2>2 DEF ContentWhole
  <2>3. ASSUME NEW x \in RowIds, \A z \in RowIds : z.parent = x => production[z] = None,
               production[x] # None, production' = [production EXCEPT ![x] = None]
        PROVE  production'[y] # "__test__"
               /\ (y.parent # None => production'[y.parent] # None)
    BY <1>1, <1>4, <2>3 DEF ContentWhole
  <2> QED BY <2>1, <2>2, <2>3 DEF Edit
<1>6. changes' \in Nat
  BY <1>1
<1> QED BY <1>1, <1>3, <1>5, <1>6 DEF BootInv

LEMMA BootKeeps == BootInv /\ [BootstrapNext]_bootstrapVars => BootInv'
<1> SUFFICES ASSUME BootInv, [BootstrapNext]_bootstrapVars PROVE BootInv'
  OBVIOUS
<1>1. CASE UNCHANGED bootstrapVars
  BY <1>1 DEF bootstrapVars, BootInv, ContentWhole
<1>2. ASSUME NEW r \in Runs, Launch(r) PROVE BootInv'
  BY <1>2, LaunchKeeps
<1>3. ASSUME NEW r \in Runs, DiffModel(r) PROVE BootInv'
  BY <1>3, DiffKeeps
<1>4. ASSUME NEW r \in Runs, EndDiff(r) PROVE BootInv'
  BY <1>4, EndDiffKeeps
<1>5. ASSUME NEW r \in Runs, WriteManifest(r) PROVE BootInv'
  BY <1>5, ManifestKeeps
<1>6. ASSUME NEW r \in Runs, WriteDomain(r) PROVE BootInv'
  BY <1>6, WriteKeeps
<1>7. ASSUME NEW r \in Runs, MarkDomain(r) PROVE BootInv'
  BY <1>7, MarkKeeps
<1>8. ASSUME NEW r \in Runs, Verify(r) PROVE BootInv'
  BY <1>8, StopKeeps DEF Verify
<1>9. ASSUME NEW r \in Runs, Interrupt(r) PROVE BootInv'
  BY <1>9, StopKeeps DEF Interrupt
<1>10. CASE Edit
  BY <1>10, EditKeeps
<1> QED BY <1>1, <1>2, <1>3, <1>4, <1>5, <1>6, <1>7, <1>8, <1>9, <1>10 DEF BootstrapNext

\* The line endings are no part of the statements.
LEMMA SameStatements == MigrationsProven
<1> SUFFICES ASSUME NEW t \in Targets, preflight(t), NEW m \in t.migrations
             PROVE  m.applied.sql = m.canonical.sql /\ m.produced.sql = m.canonical.sql
  BY DEF MigrationsProven
<1>1. m.produced = m.canonical /\ classified(m)
  BY DEF preflight
<1>2. m.canonical = [sql |-> m.canonical.sql, eol |-> m.canonical.eol]
      /\ m.working = [sql |-> m.working.sql, eol |-> m.working.eol]
  BY BootstrapAssumption
<1>3. normalizeLineEndings(m.canonical) = normalizeLineEndings(m.working)
      => m.canonical.sql = m.working.sql
  <2>1. \A sql, eol : normalizeLineEndings([sql |-> sql, eol |-> eol]).sql = sql
    BY DEF normalizeLineEndings
  <2> QED BY <1>2, <2>1
<1> QED BY <1>1, <1>3 DEF classified

LEMMA BootTells == BootInv => BootstrapSafe
<1> SUFFICES ASSUME BootInv PROVE BootstrapSafe
  OBVIOUS
<1>1. ASSUME NEW r \in Runs PROVE Undoable(r, manifests[r], wrote[r], unsure)
  BY DEF BootInv, RunInv
<1>2. RollbackIsSafe
  BY <1>1 DEF RollbackIsSafe, Undoable, planOf, planned
<1> QED BY <1>2, SameStatements DEF BootInv, BootstrapSafe

(* Whenever a run of the bootstrap stops, its manifest tells what it wrote, *)
(* production is whole and without fixtures, and no run got past the check  *)
(* of the migrations with other statements (production-content-bootstrap). *)
THEOREM BootstrapAlwaysSafe == BootstrapSpec => []BootstrapSafe
<1>1. BootstrapInit => BootInv
  BY BootInitial
<1>2. BootInv /\ [BootstrapNext]_bootstrapVars => BootInv'
  BY BootKeeps
<1>3. BootInv => BootstrapSafe
  BY BootTells
<1> QED BY <1>1, <1>2, <1>3, PTL DEF BootstrapSpec

(* The bootstrap only ever creates rows: it overwrites or deletes none.    *)
THEOREM BootstrapOnlyCreates == BootstrapSpec => OnlyCreates
<1> DEFINE Creates == changes' = changes =>
                         \A x \in RowIds : production[x] # None => production'[x] = production[x]
<1>1. BootInv /\ [BootstrapNext]_bootstrapVars => [Creates]_bootstrapVars
  <2> SUFFICES ASSUME BootInv, BootstrapNext, changes' = changes,
                      NEW x \in RowIds, production[x] # None
               PROVE  production'[x] = production[x]
    OBVIOUS
  <2>1. ~Edit
    BY DEF Edit, BootInv
  <2>2. ASSUME NEW r \in Runs, WriteDomain(r) PROVE production'[x] = production[x]
    BY <2>2 DEF WriteDomain, mayCreate
  <2>3. ASSUME NEW r \in Runs, Launch(r) \/ DiffModel(r) \/ EndDiff(r) \/ WriteManifest(r)
                               \/ MarkDomain(r) \/ Verify(r) \/ Interrupt(r)
        PROVE  production'[x] = production[x]
    BY <2>3 DEF Launch, DiffModel, EndDiff, WriteManifest, MarkDomain, Verify, Interrupt
  <2> QED BY <2>1, <2>2, <2>3 DEF BootstrapNext
<1>2. BootstrapInit => BootInv
  BY BootInitial
<1>3. BootInv /\ [BootstrapNext]_bootstrapVars => BootInv'
  BY BootKeeps
<1>4. BootstrapSpec => [][Creates]_bootstrapVars
  <2> HIDE DEF Creates
  <2> QED BY <1>1, <1>2, <1>3, PTL DEF BootstrapSpec
<1> QED BY <1>4 DEF OnlyCreates

-----------------------------------------------------------------------------
(***************************************************************************)
(* The SM-2 columns of a word are what the scheduler makes of its ratings  *)
(* one by one, on the columns it began with, so that what one rating       *)
(* preserves holds of every word.                                          *)
(***************************************************************************)
LEMMA FirstLine ==
    ASSUME NEW S, S \subseteq Nat, S # {}
    PROVE  \E i \in S : /\ \A j \in S : i <= j
                        /\ (CHOOSE k \in S : \A j \in S : k <= j) = i
<1>1. \E i \in S : \A j \in S : i <= j
  <2>1. \E i \in S : \A j \in S : <<j, i>> \notin OpToRel(<, Nat)
    BY NatLessThanWellFounded, WFMin
  <2>2. PICK i \in S : \A j \in S : ~(j < i)
    BY <2>1 DEF OpToRel
  <2> QED BY <2>2
<1> DEFINE m == CHOOSE k \in S : \A j \in S : k <= j
<1>2. m \in S /\ \A j \in S : m <= j
  BY <1>1
<1> QED BY <1>2

Known(ratings, n) == \E i \in 1 .. n : ratings[i] \in {"GOOD", "EASY"}
Forgotten(ratings, n) ==
    \E i, j \in 1 .. n : i < j /\ ratings[i] \in {"GOOD", "EASY"} /\ ratings[j] = "AGAIN"

\* The columns p after the first n ratings.
ColumnsInv(p, ratings, n) ==
    /\ p \in ColumnsType
    /\ p.state = "NEW" <=> n = 0
    /\ p.state \in {"REVIEW", "MASTERED", "RELEARNING"} => Known(ratings, n)
    /\ p.lapses > 0 => Forgotten(ratings, n)

LEMMA ColumnFields ==
    ASSUME NEW p \in ColumnsType
    PROVE  /\ p.state \in Srs!LearningStates /\ p.easeFactor \in Int /\ p.intervalDays \in Int
           /\ p.repetitions \in Int /\ p.lapses \in Int /\ p.masteredAt \in Int
           /\ p.firstLearnedAt \in Int
  BY DEF ColumnsType

LEMMA FirstColumns == ASSUME NEW ratings PROVE ColumnsInv(Srs!DEFAULT_NEW_PROGRESS, ratings, 0)
  BY DEF Srs!DEFAULT_NEW_PROGRESS, Srs!DEFAULT_EASE_FACTOR, Srs!Never, Srs!LearningStates,
     ColumnsType, ColumnsInv

LEMMA RoundedInt == ASSUME NEW x \in Int PROVE /\ Srs!Rounded(x, 10, 1) \in Int
                                              /\ Srs!Rounded(x, 100, 1) \in Int
                                              /\ Srs!Rounded(x, 1000, 1) \in Int
  BY DEF Srs!Rounded

LEMMA ClampedInt == ASSUME NEW x \in Int PROVE Srs!clampEase(x) \in Int
  BY DEF Srs!clampEase, Srs!MIN_EASE_FACTOR, Srs!MAX_EASE_FACTOR

\* What the three kinds of answer make of the columns.
LEMMA AgainColumns ==
    ASSUME NEW p \in ColumnsType
    PROVE  LET q == Srs!again(p)
           IN  /\ q \in ColumnsType
               /\ Srs!preGraduation(p) => q.state = "LEARNING" /\ q.lapses = p.lapses
               /\ p.state \in {"REVIEW", "MASTERED"} => q.state = "RELEARNING"
               /\ p.state = "RELEARNING" => q.state = "RELEARNING" /\ q.lapses = p.lapses
<1> DEFINE ease == Srs!clampEase(p.easeFactor - Srs!AGAIN_EASE_PENALTY)
           tomorrow == Srs!GRADUATING_INTERVAL_DAYS
           q == Srs!again(p)
<1>0. /\ "LEARNING" \in Srs!LearningStates /\ "RELEARNING" \in Srs!LearningStates
      /\ Srs!Never \in Int /\ tomorrow \in Int
  BY DEF Srs!LearningStates, Srs!Never, Srs!GRADUATING_INTERVAL_DAYS
<1>1. ease \in Int
  BY ColumnFields, ClampedInt DEF Srs!AGAIN_EASE_PENALTY
<1> HIDE DEF ease, tomorrow
<1>2. p.lapses + 1 \in Int /\ p.state \in Srs!LearningStates
  BY ColumnFields
<1>3. CASE Srs!preGraduation(p)
  <2>1. q = [p EXCEPT !.state = "LEARNING", !.intervalDays = tomorrow]
    BY <1>3 DEF Srs!again, Srs!preGraduation, tomorrow
  <2>2. [p EXCEPT !.state = "LEARNING", !.intervalDays = tomorrow] \in ColumnsType
    BY <1>0 DEF ColumnsType
  <2>3. q.state = "LEARNING" /\ q.lapses = p.lapses
    BY <2>1 DEF ColumnsType
  <2> QED BY <1>3, <2>1, <2>2, <2>3 DEF Srs!preGraduation
<1>4. CASE p.state \in {"REVIEW", "MASTERED"}
  <2>1. q = [p EXCEPT !.state = "RELEARNING", !.lapses = @ + 1, !.easeFactor = ease,
                      !.intervalDays = tomorrow, !.masteredAt = Srs!Never]
    BY <1>4 DEF Srs!again, Srs!preGraduation, tomorrow, ease
  <2>2. [p EXCEPT !.state = "RELEARNING", !.lapses = @ + 1, !.easeFactor = ease,
                  !.intervalDays = tomorrow, !.masteredAt = Srs!Never] \in ColumnsType
    BY <1>0, <1>1, <1>2 DEF ColumnsType
  <2>3. q.state = "RELEARNING"
    BY <2>1 DEF ColumnsType
  <2> QED BY <1>4, <2>1, <2>2, <2>3 DEF Srs!preGraduation
<1>5. CASE p.state = "RELEARNING"
  <2>1. q = [p EXCEPT !.intervalDays = tomorrow]
    BY <1>5 DEF Srs!again, Srs!preGraduation, tomorrow
  <2>2. q \in ColumnsType /\ q.state = "RELEARNING" /\ q.lapses = p.lapses
    BY <1>0, <1>5, <2>1 DEF ColumnsType
  <2> QED BY <1>5, <2>2 DEF Srs!preGraduation
<1> HIDE DEF q
<1>6. QED BY <1>2, <1>3, <1>4, <1>5 DEF Srs!LearningStates, Srs!preGraduation, q

LEMMA HardColumns ==
    ASSUME NEW p \in ColumnsType
    PROVE  LET q == Srs!hard(p, 1)
           IN  /\ q \in ColumnsType /\ q.lapses = p.lapses
               /\ Srs!preGraduation(p) => q.state = "LEARNING"
               /\ q.state # "NEW"
<1> DEFINE ease == Srs!clampEase(p.easeFactor - Srs!HARD_EASE_PENALTY)
           long == Srs!Rounded(p.intervalDays * 12, 10, 1)
           tomorrow == Srs!GRADUATING_INTERVAL_DAYS
           q == Srs!hard(p, 1)
<1>0. /\ "LEARNING" \in Srs!LearningStates /\ "REVIEW" \in Srs!LearningStates
      /\ Srs!Never \in Int /\ tomorrow \in Int
  BY DEF Srs!LearningStates, Srs!Never, Srs!GRADUATING_INTERVAL_DAYS
<1>1. ease \in Int /\ long \in Int
  <2>1. p.easeFactor - 15 \in Int /\ p.intervalDays * 12 \in Int
    BY ColumnFields
  <2> QED BY <2>1, ClampedInt, RoundedInt DEF Srs!HARD_EASE_PENALTY
<1> HIDE DEF ease, long, tomorrow
<1>2. p.repetitions + 1 \in Int
  BY ColumnFields
<1>3. CASE Srs!preGraduation(p)
  <2>1. q = [p EXCEPT !.state = "LEARNING", !.intervalDays = tomorrow]
    BY <1>3 DEF Srs!hard, Srs!preGraduation, tomorrow
  <2>2. [p EXCEPT !.state = "LEARNING", !.intervalDays = tomorrow] \in ColumnsType
    BY <1>0 DEF ColumnsType
  <2>3. q.state = "LEARNING" /\ q.lapses = p.lapses
    BY <2>1 DEF ColumnsType
  <2> QED BY <2>1, <2>2, <2>3
<1>4. CASE ~Srs!preGraduation(p) /\ p.state = "RELEARNING"
  <2>1. q = [p EXCEPT !.intervalDays = long]
    BY <1>4 DEF Srs!hard, long
  <2>2. q \in ColumnsType /\ q.state = "RELEARNING" /\ q.lapses = p.lapses
    BY <1>1, <1>4, <2>1 DEF ColumnsType
  <2> QED BY <1>4, <2>2
<1>5. CASE ~Srs!preGraduation(p) /\ p.state # "RELEARNING"
  <2>1. q = [p EXCEPT !.state = "REVIEW", !.repetitions = @ + 1, !.easeFactor = ease,
                      !.intervalDays = long, !.masteredAt = Srs!Never]
    BY <1>5 DEF Srs!hard, long, ease
  <2>2. [p EXCEPT !.state = "REVIEW", !.repetitions = @ + 1, !.easeFactor = ease,
                  !.intervalDays = long, !.masteredAt = Srs!Never] \in ColumnsType
    BY <1>0, <1>1, <1>2 DEF ColumnsType
  <2>3. q.state = "REVIEW" /\ q.lapses = p.lapses
    BY <2>1 DEF ColumnsType
  <2> QED BY <1>5, <2>1, <2>2, <2>3
<1> HIDE DEF q
<1> QED BY <1>3, <1>4, <1>5 DEF q

LEMMA RecalledColumns ==
    ASSUME NEW p \in ColumnsType, NEW rating \in {"GOOD", "EASY"}, NEW n \in Nat
    PROVE  LET q == Srs!recalled(p, rating, n, 1)
           IN  /\ q \in ColumnsType /\ q.lapses = p.lapses
               /\ q.state \in {"REVIEW", "MASTERED"}
<1> DEFINE ease == IF rating = "EASY" THEN Srs!clampEase(p.easeFactor + Srs!EASY_EASE_BONUS)
                   ELSE p.easeFactor
           days == CASE p.repetitions = 0 ->
                          IF rating = "EASY" THEN Srs!EASY_GRADUATING_INTERVAL_DAYS
                          ELSE Srs!GRADUATING_INTERVAL_DAYS
                     [] rating = "GOOD" /\ p.repetitions = 1 -> Srs!SECOND_INTERVAL_DAYS
                     [] rating = "EASY" /\ p.repetitions # 0 ->
                          Srs!Rounded(p.intervalDays * ease * 13, 1000, 1)
                     [] OTHER -> Srs!Rounded(p.intervalDays * ease, 100, 1)
           mastered == /\ days >= Srs!MASTERY_MIN_INTERVAL_DAYS
                       /\ p.repetitions + 1 >= Srs!MASTERY_MIN_REPETITIONS
           state == IF mastered THEN "MASTERED" ELSE "REVIEW"
           first == Srs!Stamp(p.firstLearnedAt, n)
           since == IF mastered THEN Srs!Stamp(p.masteredAt, n) ELSE p.masteredAt
           q == [p EXCEPT !.state = state, !.easeFactor = ease, !.intervalDays = days,
                          !.repetitions = @ + 1, !.firstLearnedAt = first, !.masteredAt = since]
<1>1. Srs!recalled(p, rating, n, 1) = q
  BY Zenon DEF Srs!recalled
<1>2. ease \in Int
  <2>1. p.easeFactor \in Int /\ p.easeFactor + 15 \in Int
    BY ColumnFields
  <2> QED BY <2>1, ClampedInt DEF Srs!EASY_EASE_BONUS
<1> HIDE DEF ease
<1>3. days \in Int
  <2>1. p.intervalDays * ease \in Int /\ p.intervalDays * ease * 13 \in Int
    BY <1>2, ColumnFields
  <2>2. /\ Srs!Rounded(p.intervalDays * ease * 13, 1000, 1) \in Int
        /\ Srs!Rounded(p.intervalDays * ease, 100, 1) \in Int
    BY <2>1, RoundedInt
  <2> QED BY <2>2 DEF Srs!EASY_GRADUATING_INTERVAL_DAYS, Srs!GRADUATING_INTERVAL_DAYS,
             Srs!SECOND_INTERVAL_DAYS
<1> HIDE DEF days
<1>4. state \in {"REVIEW", "MASTERED"}
  OBVIOUS
<1>5. first \in Int /\ since \in Int
  BY ColumnFields DEF Srs!Stamp
<1> HIDE DEF mastered, state, first, since
<1>6. p.repetitions + 1 \in Int
  BY ColumnFields
<1>7. q \in ColumnsType
  BY <1>2, <1>3, <1>4, <1>5, <1>6 DEF ColumnsType, Srs!LearningStates
<1>8. q.lapses = p.lapses /\ q.state = state
  BY DEF ColumnsType
<1> HIDE DEF q
<1> QED BY <1>1, <1>4, <1>7, <1>8

\* One rating more.
LEMMA NextColumns ==
    ASSUME NEW ratings, NEW n \in Nat, n # 0, NEW p, ColumnsInv(p, ratings, n - 1),
           ratings[n] \in Srs!Ratings
    PROVE  ColumnsInv(Srs!next(p, ratings[n], n, 1), ratings, n)
<1> DEFINE rating == ratings[n]
           q == Srs!next(p, rating, n, 1)
<1>1. p \in ColumnsType /\ p.state \in Srs!LearningStates /\ p.lapses \in Int
  BY ColumnFields DEF ColumnsInv
<1>2. /\ Known(ratings, n - 1) => Known(ratings, n)
      /\ Forgotten(ratings, n - 1) => Forgotten(ratings, n)
      /\ Known(ratings, n - 1) /\ rating = "AGAIN" => Forgotten(ratings, n)
      /\ rating \in {"GOOD", "EASY"} => Known(ratings, n)
  <2>1. n \in 1 .. n /\ \A i \in 1 .. n - 1 : i \in 1 .. n /\ i < n
    OBVIOUS
  <2> HIDE DEF rating
  <2>2. /\ Known(ratings, n - 1) => Known(ratings, n)
        /\ Forgotten(ratings, n - 1) => Forgotten(ratings, n)
    BY <2>1 DEF Known, Forgotten
  <2>3. Known(ratings, n - 1) /\ rating = "AGAIN" => Forgotten(ratings, n)
    BY <2>1 DEF Known, Forgotten, rating
  <2>4. rating \in {"GOOD", "EASY"} => Known(ratings, n)
    BY <2>1 DEF Known, rating
  <2> QED BY <2>2, <2>3, <2>4
<1> HIDE DEF rating
<1>3. rating = "AGAIN" => ColumnsInv(q, ratings, n)
  <2> SUFFICES ASSUME rating = "AGAIN" PROVE ColumnsInv(q, ratings, n)
    OBVIOUS
  <2>1. q = Srs!again(p)
    BY DEF Srs!next
  <2>2. /\ q \in ColumnsType
        /\ Srs!preGraduation(p) => q.state = "LEARNING" /\ q.lapses = p.lapses
        /\ p.state \in {"REVIEW", "MASTERED"} => q.state = "RELEARNING"
        /\ p.state = "RELEARNING" => q.state = "RELEARNING" /\ q.lapses = p.lapses
    BY <1>1, <2>1, AgainColumns
  <2> HIDE DEF q
  <2> QED BY <1>1, <1>2, <2>2 DEF ColumnsInv, Srs!LearningStates, Srs!preGraduation
<1>4. rating = "HARD" => ColumnsInv(q, ratings, n)
  <2> SUFFICES ASSUME rating = "HARD" PROVE ColumnsInv(q, ratings, n)
    OBVIOUS
  <2>1. q = Srs!hard(p, 1)
    BY DEF Srs!next
  <2>2. /\ q \in ColumnsType /\ q.lapses = p.lapses /\ q.state # "NEW"
        /\ Srs!preGraduation(p) => q.state = "LEARNING"
    BY <1>1, <2>1, HardColumns
  <2> HIDE DEF q
  <2> QED BY <1>1, <1>2, <2>2 DEF ColumnsInv, Srs!LearningStates, Srs!preGraduation
<1>5. rating \in {"GOOD", "EASY"} => ColumnsInv(q, ratings, n)
  <2> SUFFICES ASSUME rating \in {"GOOD", "EASY"} PROVE ColumnsInv(q, ratings, n)
    OBVIOUS
  <2> DEFINE c == Srs!recalled(p, rating, n, 1)
  <2>1. q = c
    BY DEF Srs!next
  <2>2. c \in ColumnsType /\ c.lapses = p.lapses /\ c.state \in {"REVIEW", "MASTERED"}
    BY <1>1, RecalledColumns
  <2> HIDE DEF c
  <2>3. q \in ColumnsType /\ q.lapses = p.lapses /\ q.state \in {"REVIEW", "MASTERED"}
    BY <2>1, <2>2
  <2> HIDE DEF q
  <2> QED BY <1>2, <2>3 DEF ColumnsInv
<1>6. rating \in Srs!Ratings
  BY DEF rating
<1> HIDE DEF q
<1>7. ColumnsInv(q, ratings, n)
  BY <1>3, <1>4, <1>5, <1>6 DEF Srs!Ratings
<1> QED BY <1>7 DEF q, rating

\* From any columns, and from a new word's.
ColumnsKept(base, p, ratings, n) ==
    /\ p \in ColumnsType
    /\ base = Srs!DEFAULT_NEW_PROGRESS => ColumnsInv(p, ratings, n)

LEMMA NextTyped ==
    ASSUME NEW p \in ColumnsType, NEW rating \in Srs!Ratings, NEW n \in Nat
    PROVE  Srs!next(p, rating, n, 1) \in ColumnsType
<1>1. CASE rating = "AGAIN"
  <2>1. Srs!next(p, rating, n, 1) = Srs!again(p)
    BY <1>1 DEF Srs!next
  <2> QED BY <2>1, AgainColumns
<1>2. CASE rating = "HARD"
  <2>1. Srs!next(p, rating, n, 1) = Srs!hard(p, 1)
    BY <1>2 DEF Srs!next
  <2> QED BY <2>1, HardColumns
<1>3. CASE rating \in {"GOOD", "EASY"}
  <2>1. Srs!next(p, rating, n, 1) = Srs!recalled(p, rating, n, 1)
    BY <1>3 DEF Srs!next
  <2> QED BY <1>3, <2>1, RecalledColumns
<1> QED BY <1>1, <1>2, <1>3 DEF Srs!Ratings

\* The columns after each of the first m ratings.
StepByStep(after, base, ratings, m) ==
    after = [n \in 0 .. m |-> IF n = 0 THEN base
                              ELSE Srs!next(after[n - 1], ratings[n], n, 1)]

LEMMA ColumnsExist ==
    ASSUME NEW base, NEW ratings, NEW m \in Nat
    PROVE  \E after : StepByStep(after, base, ratings, m)
<1> DEFINE without == {n \in Nat : ~ \E after : StepByStep(after, base, ratings, n)}
<1> SUFFICES ASSUME without # {} PROVE FALSE
  OBVIOUS
<1>1. PICK n \in without : \A k \in without : n <= k
  BY FirstLine
<1>2. n \in Nat /\ (~ \E after : StepByStep(after, base, ratings, n))
      /\ \A k \in Nat : k < n => \E after : StepByStep(after, base, ratings, k)
  BY <1>1
<1> HIDE DEF without
<1>3. CASE n = 0
  <2> DEFINE after == [k \in 0 .. 0 |-> base]
  <2>1. after = [k \in 0 .. 0 |-> IF k = 0 THEN base
                                 ELSE Srs!next(after[k - 1], ratings[k], k, 1)]
    OBVIOUS
  <2>2. StepByStep(after, base, ratings, 0)
    BY <2>1 DEF StepByStep
  <2> QED BY <1>2, <1>3, <2>2
<1>4. CASE n # 0
  <2>1. n - 1 \in Nat /\ n - 1 < n
    BY <1>2, <1>4
  <2>2. PICK shorter : StepByStep(shorter, base, ratings, n - 1)
    BY <1>2, <2>1
  <2> DEFINE last == Srs!next(shorter[n - 1], ratings[n], n, 1)
             after == [k \in 0 .. n |-> IF k = n THEN last ELSE shorter[k]]
  <2>3. \A k \in 0 .. n : after[k] = IF k = 0 THEN base
                                     ELSE Srs!next(after[k - 1], ratings[k], k, 1)
    <3> SUFFICES ASSUME NEW k \in 0 .. n
                 PROVE  after[k] = IF k = 0 THEN base
                                   ELSE Srs!next(after[k - 1], ratings[k], k, 1)
      OBVIOUS
    <3>1. \A j \in 0 .. n - 1 : shorter[j] = IF j = 0 THEN base
                                           ELSE Srs!next(shorter[j - 1], ratings[j], j, 1)
      BY <2>2 DEF StepByStep
    <3>2. CASE k = n
      <4>1. after[k] = last /\ k - 1 \in 0 .. n /\ k - 1 # n /\ after[k - 1] = shorter[n - 1]
        BY <1>2, <1>4, <3>2
      <4> QED BY <1>4, <3>2, <4>1
    <3>3. CASE k # n
      <4>1. k \in 0 .. n - 1 /\ after[k] = shorter[k]
        BY <1>2, <3>3
      <4>2. k # 0 => after[k - 1] = shorter[k - 1]
        BY <1>2, <3>3
      <4> HIDE DEF after
      <4> QED BY <3>1, <4>1, <4>2
    <3> QED BY <3>2, <3>3
  <2>4. after = [k \in 0 .. n |-> after[k]]
    OBVIOUS
  <2> HIDE DEF after
  <2>5. StepByStep(after, base, ratings, n)
    BY <2>3, <2>4 DEF StepByStep
  <2> QED BY <1>2, <2>5
<1> QED BY <1>3, <1>4

\* The definition by recursion has the meaning it reads as.
LEMMA ColumnsFit == ASSUME NEW base, NEW ratings, Len(ratings) \in Nat
                    PROVE  StepByStep(progressAfter(base, ratings), base, ratings, Len(ratings))
<1> DEFINE m == Len(ratings)
<1>1. \E after : StepByStep(after, base, ratings, m)
  BY ColumnsExist
<1>2. progressAfter(base, ratings) = CHOOSE after : StepByStep(after, base, ratings, m)
  BY DEF progressAfter, StepByStep
<1> HIDE DEF m
<1> QED BY <1>1, <1>2 DEF m

\* What holds of a word's columns, whatever its ratings.
LEMMA ColumnsHold ==
    ASSUME NEW base \in ColumnsType, NEW ratings \in Seq(Srs!Ratings)
    PROVE  ColumnsKept(base, progressAfter(base, ratings)[Len(ratings)], ratings, Len(ratings))
<1> DEFINE m == Len(ratings)
           after == progressAfter(base, ratings)
           wrong == {n \in 0 .. m : ~ColumnsKept(base, after[n], ratings, n)}
<1>1. m \in Nat /\ \A n \in 1 .. m : ratings[n] \in Srs!Ratings
  OBVIOUS
<1>2. StepByStep(after, base, ratings, m)
  BY <1>1, ColumnsFit
<1> HIDE DEF after, m
<1>3. \A n \in 0 .. m : after[n] = IF n = 0 THEN base
                                   ELSE Srs!next(after[n - 1], ratings[n], n, 1)
  BY <1>2 DEF StepByStep
<1>4. ASSUME wrong # {} PROVE FALSE
  <2>1. wrong \subseteq Nat
    BY <1>1
  <2>2. PICK n \in wrong : \A k \in wrong : n <= k
    BY <1>4, <2>1, FirstLine
  <2>3. n \in 0 .. m /\ n \in Nat /\ ~ColumnsKept(base, after[n], ratings, n)
    BY <1>1, <2>2
  <2>4. n # 0
    BY <1>3, <2>3, FirstColumns DEF ColumnsKept
  <2>5. n - 1 \in 0 .. m /\ n \in 1 .. m /\ ~(n <= n - 1)
    BY <1>1, <2>3, <2>4
  <2>6. ColumnsKept(base, after[n - 1], ratings, n - 1)
    BY <2>2, <2>5
  <2> DEFINE p == after[n - 1]
             q == Srs!next(p, ratings[n], n, 1)
  <2>7. p \in ColumnsType /\ ratings[n] \in Srs!Ratings
    BY <1>1, <2>5, <2>6 DEF ColumnsKept
  <2>8. q \in ColumnsType
    <3> HIDE DEF p
    <3> QED BY <2>3, <2>7, NextTyped
  <2>9. base = Srs!DEFAULT_NEW_PROGRESS => ColumnsInv(q, ratings, n)
    <3>1. base = Srs!DEFAULT_NEW_PROGRESS => ColumnsInv(p, ratings, n - 1)
      BY <2>6 DEF ColumnsKept
    <3> HIDE DEF p
    <3> QED BY <2>3, <2>4, <2>7, <3>1, NextColumns
  <2>10. after[n] = q
    BY <1>3, <2>3, <2>4
  <2> HIDE DEF q
  <2> QED BY <2>3, <2>8, <2>9, <2>10 DEF ColumnsKept
<1>5. m \in 0 .. m
  BY <1>1
<1>6. ColumnsKept(base, after[m], ratings, m)
  BY <1>4, <1>5
<1> QED BY <1>6 DEF after, m

\* toProgressSnapshot: the columns of a row
LEMMA SnapshotHolds ==
    ASSUME NEW row \in SavedType
    PROVE  ColumnsKept(row.base, snapshot(row), row.ratings, Len(row.ratings))
<1> DEFINE base == row.base
           ratings == row.ratings
<1>1. base \in ColumnsType /\ ratings \in Seq(Srs!Ratings)
  BY DEF SavedType
<1>2. snapshot(row) = progressAfter(base, ratings)[Len(ratings)]
  BY DEF snapshot
<1> HIDE DEF base, ratings
<1>3. ColumnsKept(base, snapshot(row), ratings, Len(ratings))
  BY <1>1, <1>2, ColumnsHold
<1> QED BY <1>3 DEF base, ratings

-----------------------------------------------------------------------------
(***************************************************************************)
(* The words a user saves.  The logged reviews of a word that no PATCH has *)
(* scheduled number its ratings from first to last; a request that read    *)
(* its row holds its ratings as long as the version is the one it read;    *)
(* and what a save may still insert fits below the limit beside the words  *)
(* it counted.                                                             *)
(***************************************************************************)
\* A row and the reviews logged for it.
LogInv(row, logged) ==
    /\ row.base = Srs!DEFAULT_NEW_PROGRESS /\ row.version = Len(row.ratings)
    /\ row.nextReviewAt = "null" <=> row.ratings = <<>>
    /\ IsFiniteSet(logged) /\ Cardinality(logged) = row.version
    /\ \A v \in logged : v.nth \in 1 .. row.version /\ row.ratings[v.nth] = v.rating
    /\ \A u, v \in logged : u.nth = v.nth => u = v

WordInv(row, logged) == row \in SavedType /\ (row.shapedBy = "reviews" => LogInv(row, logged))

\* A row that was read is that of its version, if there is one still.
ReadInv(row, w, words, ids) ==
    /\ w \in ids /\ row \in SavedType
    /\ words[w] # None /\ words[w].shapedBy = "reviews" =>
         /\ row.base = Srs!DEFAULT_NEW_PROGRESS /\ row.version = Len(row.ratings)
         /\ words[w].version >= row.version
         /\ words[w].version = row.version => words[w].ratings = row.ratings

\* What a save has still to insert.
TodoInv(count, todo) ==
    /\ IsFiniteSet(DOMAIN todo) /\ DOMAIN todo \subseteq Nat
    /\ \A i \in DOMAIN todo : todo[i] \in STRING
    /\ count # None => count \in Nat /\ count + Cardinality(DOMAIN todo) <= FreeLimit

AskedInv(q, words, ids) ==
    /\ q = [pc |-> q.pc, call |-> q.call, row |-> q.row, count |-> q.count, todo |-> q.todo]
    /\ q.pc \in {"begin", "insert", "read", "replay", "write"} => q.call \in SavedCalls
    /\ q.pc = "insert" => TodoInv(q.count, q.todo)
    /\ q.pc = "write" => ReadInv(q.row, q.call.word, words, ids)

PersonalInv ==
    /\ saved = [w \in Saved |-> saved[w]] /\ mine = [r \in SavedRequests |-> mine[r]]
    /\ issued \subseteq Saved /\ savedWords \subseteq issued /\ IsFiniteSet(issued)
    /\ over \in BOOLEAN
    /\ \A w \in savedWords : WordInv(saved[w], {v \in reviews : v.word = w})
    /\ \A v \in reviews : v.word \in savedWords
    /\ \A v, w \in savedWords : saved[v].text = saved[w].text => v = w
    /\ ~over => Cardinality(savedWords) <= FreeLimit
    /\ \A r \in SavedRequests : AskedInv(mine[r], saved, issued)

LEMMA NewWord == ASSUME NEW text \in STRING
                 PROVE  WordInv(NewSaved(text), {}) /\ NewSaved(text) # None
<1> DEFINE none == <<>>
           base == Srs!DEFAULT_NEW_PROGRESS
<1>1. none \in Seq(Srs!Ratings) /\ Len(none) = 0 /\ base \in ColumnsType
  BY FirstColumns DEF ColumnsInv
<1>2. NewSaved(text) = [text |-> text, base |-> base, ratings |-> none, nextReviewAt |-> "null",
                        version |-> 0, shapedBy |-> "reviews"]
  BY DEF NewSaved
<1> HIDE DEF none, base
<1>3. NewSaved(text) \in SavedType
  BY <1>1, <1>2 DEF SavedType, ReviewDates
<1>4. /\ NewSaved(text).base = base /\ NewSaved(text).ratings = none
      /\ NewSaved(text).nextReviewAt = "null" /\ NewSaved(text).version = 0
  BY <1>2
<1>5. LogInv(NewSaved(text), {})
  BY <1>1, <1>4, FS_EmptySet DEF LogInv, none, base
<1> QED BY <1>3, <1>5, PersonalAssumption DEF WordInv

LEMMA PersonalInitial == PersonalInit => PersonalInv
<1> SUFFICES ASSUME PersonalInit PROVE PersonalInv
  OBVIOUS
<1>1. savedWords = FirstIds /\ FirstIds \subseteq Saved /\ saved = [w \in Saved |-> saved[w]]
  BY PersonalAssumption DEF PersonalInit, savedWords, FirstIds
<1>2. \A w \in savedWords : WordInv(saved[w], {v \in reviews : v.word = w})
  <2> SUFFICES ASSUME NEW w \in savedWords PROVE WordInv(saved[w], {v \in reviews : v.word = w})
    OBVIOUS
  <2> DEFINE text == FirstSaved[w].text
  <2>1. saved[w] = NewSaved(text)
    BY <1>1, PersonalAssumption DEF PersonalInit
  <2>2. {v \in reviews : v.word = w} = {}
    BY DEF PersonalInit
  <2> HIDE DEF text
  <2>3. text \in STRING
    BY <1>1, PersonalAssumption DEF FirstIds, SavedType, text
  <2>4. WordInv(NewSaved(text), {})
    BY <2>3, NewWord
  <2> QED BY <2>1, <2>2, <2>4
<1>3. \A r \in SavedRequests : AskedInv(mine[r], saved, issued)
  BY DEF PersonalInit, NoSaved, AskedInv
<1>4. Cardinality(savedWords) <= FreeLimit /\ IsFiniteSet(issued) /\ savedWords \subseteq issued
      /\ issued \subseteq Saved
  BY <1>1, PersonalAssumption DEF PersonalInit
<1>5. \A v, w \in savedWords : saved[v].text = saved[w].text => v = w
  BY <1>1, PersonalAssumption DEF PersonalInit
<1> QED BY <1>1, <1>2, <1>3, <1>4, <1>5 DEF PersonalInv, PersonalInit

\* Steps of one request that touch no row.
LEMMA RequestAside ==
    ASSUME PersonalInv, NEW r \in SavedRequests, NEW q, mine' = [mine EXCEPT ![r] = q],
           AskedInv(q, saved, issued), UNCHANGED <<saved, issued, reviews, over>>
    PROVE  PersonalInv'
<1>1. savedWords' = savedWords
  BY DEF savedWords
<1>2. \A x \in SavedRequests : AskedInv(mine'[x], saved', issued')
  BY DEF PersonalInv
<1>3. mine' = [x \in SavedRequests |-> mine'[x]]
  BY DEF PersonalInv
<1> QED BY <1>1, <1>2, <1>3 DEF PersonalInv

LEMMA Answered == ASSUME NEW reply, NEW words, NEW ids,
                         reply \notin {"begin", "insert", "read", "replay", "write"}
                  PROVE  AskedInv([NoSaved EXCEPT !.pc = reply], words, ids)
  BY DEF AskedInv, NoSaved

LEMMA AnswerSets ==
    ASSUME NEW r \in SavedRequests, NEW reply, replyTo(r, reply),
           reply \notin {"begin", "insert", "read", "replay", "write"},
           mine = [x \in SavedRequests |-> mine[x]], NEW words, NEW ids,
           \A x \in SavedRequests : AskedInv(mine[x], words, ids)
    PROVE  /\ mine' = [x \in SavedRequests |-> mine'[x]]
           /\ \A x \in SavedRequests : AskedInv(mine'[x], words, ids)
  BY Answered DEF replyTo

LEMMA AnswerKeeps ==
    ASSUME PersonalInv, NEW r \in SavedRequests, NEW reply, replyTo(r, reply),
           reply \notin {"begin", "insert", "read", "replay", "write"},
           UNCHANGED <<saved, issued, reviews, over>>
    PROVE  PersonalInv'
<1>1. mine' = [mine EXCEPT ![r] = [NoSaved EXCEPT !.pc = reply]]
  BY DEF replyTo
<1> QED BY <1>1, Answered, RequestAside

LEMMA ProceedKeeps ==
    ASSUME PersonalInv, NEW r \in SavedRequests, proceeds(r, "read") \/ proceeds(r, "replay"),
           mine[r].pc = "begin", UNCHANGED <<saved, issued, reviews, over>>
    PROVE  PersonalInv'
<1> DEFINE q(pc) == [mine[r] EXCEPT !.pc = pc]
<1>1. AskedInv(mine[r], saved, issued)
  BY DEF PersonalInv
<1>2. AskedInv(q("read"), saved, issued) /\ AskedInv(q("replay"), saved, issued)
  BY <1>1 DEF AskedInv
<1>3. mine' = [mine EXCEPT ![r] = q("read")] \/ mine' = [mine EXCEPT ![r] = q("replay")]
  BY DEF proceeds
<1> HIDE DEF q
<1> QED BY <1>2, <1>3, RequestAside

LEMMA AskKeeps == ASSUME PersonalInv, NEW r \in SavedRequests, NEW call \in SavedCalls, Ask(r, call)
                  PROVE  PersonalInv'
<1> DEFINE q == [mine[r] EXCEPT !.pc = "begin", !.call = call]
<1>1. AskedInv(mine[r], saved, issued)
  BY DEF PersonalInv
<1>2. AskedInv(q, saved, issued)
  <2>1. q = [pc |-> "begin", call |-> call, row |-> mine[r].row, count |-> mine[r].count,
             todo |-> mine[r].todo]
    <3> DEFINE u == mine[r]
    <3>1. u = [pc |-> u.pc, call |-> u.call, row |-> u.row, count |-> u.count, todo |-> u.todo]
      BY <1>1 DEF AskedInv
    <3> HIDE DEF u
    <3> DEFINE p == [u EXCEPT !.pc = "begin"]
    <3>2. p = [pc |-> "begin", call |-> u.call, row |-> u.row, count |-> u.count, todo |-> u.todo]
      BY <3>1
    <3> HIDE DEF p
    <3>3. [p EXCEPT !.call = call] =
             [pc |-> "begin", call |-> call, row |-> u.row, count |-> u.count, todo |-> u.todo]
      BY <3>2
    <3> QED BY <3>3, Zenon DEF p, u
  <2> HIDE DEF q
  <2> QED BY <2>1 DEF AskedInv
<1>3. mine' = [mine EXCEPT ![r] = q]
  BY DEF Ask
<1> HIDE DEF q
<1> QED BY <1>2, <1>3, RequestAside DEF Ask

LEMMA FindReviewKeeps == ASSUME PersonalInv, NEW r \in SavedRequests, FindReview(r) PROVE PersonalInv'
<1>1. CASE proceeds(r, "read") \/ proceeds(r, "replay")
  BY <1>1, ProceedKeeps DEF FindReview, asks
<1>2. CASE replyTo(r, "reused")
  BY <1>2, AnswerKeeps DEF FindReview
<1> QED BY <1>1, <1>2 DEF FindReview

LEMMA ReplayKeeps == ASSUME PersonalInv, NEW r \in SavedRequests, Replay(r) PROVE PersonalInv'
<1>1. replyTo(r, "done") \/ replyTo(r, "none")
  BY DEF Replay
<1> QED BY <1>1, AnswerKeeps DEF Replay

LEMMA ReadSavedKeeps == ASSUME PersonalInv, NEW r \in SavedRequests, ReadSaved(r) PROVE PersonalInv'
<1>1. CASE mine[r].call.word \notin savedWords
  <2>1. replyTo(r, "none")
    BY <1>1 DEF ReadSaved
  <2> QED BY <2>1, AnswerKeeps DEF ReadSaved
<1>2. CASE mine[r].call.word \in savedWords
  <2> DEFINE w == mine[r].call.word
             q == [mine[r] EXCEPT !.pc = "write", !.row = saved[w]]
  <2>1. mine' = [mine EXCEPT ![r] = q]
    BY <1>2 DEF ReadSaved
  <2>2. AskedInv(mine[r], saved, issued) /\ mine[r].pc = "read"
    BY DEF PersonalInv, ReadSaved, asks
  <2>3. WordInv(saved[w], {v \in reviews : v.word = w}) /\ w \in issued
    BY <1>2 DEF PersonalInv
  <2>4. ReadInv(saved[w], w, saved, issued)
    <3> DEFINE row == saved[w]
    <3>1. row \in SavedType /\ (row.shapedBy = "reviews" =>
             row.base = Srs!DEFAULT_NEW_PROGRESS /\ row.version = Len(row.ratings))
      BY <2>3 DEF WordInv, LogInv
    <3>2. row.version \in Int
      BY <3>1 DEF SavedType
    <3> QED BY <2>3, <3>1, <3>2 DEF ReadInv
  <2>5. q = [pc |-> "write", call |-> mine[r].call, row |-> saved[w], count |-> mine[r].count,
             todo |-> mine[r].todo]
    <3> DEFINE u == mine[r]
               s == saved[w]
    <3>1. u = [pc |-> u.pc, call |-> u.call, row |-> u.row, count |-> u.count, todo |-> u.todo]
      BY <2>2 DEF AskedInv
    <3> HIDE DEF u, s
    <3> DEFINE p == [u EXCEPT !.pc = "write"]
    <3>2. p = [pc |-> "write", call |-> u.call, row |-> u.row, count |-> u.count, todo |-> u.todo]
      BY <3>1
    <3> HIDE DEF p
    <3>3. [p EXCEPT !.row = s] =
             [pc |-> "write", call |-> u.call, row |-> s, count |-> u.count, todo |-> u.todo]
      BY <3>2
    <3> QED BY <3>3, Zenon DEF p, u, s
  <2>6. mine[r].call \in SavedCalls
    BY <2>2 DEF AskedInv
  <2> HIDE DEF q
  <2>7. AskedInv(q, saved, issued)
    BY <2>4, <2>5, <2>6 DEF AskedInv
  <2> QED BY <2>1, <2>7, RequestAside DEF ReadSaved
<1> QED BY <1>1, <1>2

\* What is left of the lines after one of them.
LEMMA OneLineLess ==
    ASSUME NEW count, NEW todo, TodoInv(count, todo), NEW i \in DOMAIN todo, None \notin Nat
    PROVE  LET rest == [j \in DOMAIN todo \ {i} |-> todo[j]]
           IN  /\ TodoInv(count, rest)
               /\ TodoInv(IF count = None THEN None ELSE count + 1, rest)
               /\ count # None => count + 1 <= FreeLimit
<1> DEFINE S == DOMAIN todo
           rest == [j \in S \ {i} |-> todo[j]]
<1>1. IsFiniteSet(S) /\ S \subseteq Nat
  BY DEF TodoInv
<1>2. DOMAIN rest = S \ {i}
  OBVIOUS
<1>3. IsFiniteSet(S \ {i}) /\ Cardinality(S \ {i}) = Cardinality(S) - 1 /\ Cardinality(S) \in Nat
      /\ Cardinality(S \ {i}) \in Nat
  BY <1>1, FS_RemoveElement, FS_CardinalityType
<1>4. count # None => count \in Nat /\ count + Cardinality(S) <= FreeLimit
  BY DEF TodoInv
<1> HIDE DEF rest, S
<1>5. FreeLimit \in Nat
  BY PersonalAssumption
<1>6. count # None => count \in Nat /\ count + Cardinality(S \ {i}) <= FreeLimit
                      /\ count + 1 + Cardinality(S \ {i}) <= FreeLimit /\ count + 1 <= FreeLimit
  BY <1>3, <1>4, <1>5
<1>7. S \ {i} \subseteq Nat /\ \A j \in S \ {i} : rest[j] \in STRING
  BY <1>1 DEF TodoInv, rest, S
<1>8. TodoInv(count, rest)
  BY <1>2, <1>3, <1>6, <1>7 DEF TodoInv
<1>9. TodoInv(IF count = None THEN None ELSE count + 1, rest)
  <2>1. CASE count = None
    BY <1>2, <1>3, <1>7, <2>1 DEF TodoInv
  <2>2. CASE count # None
    BY <1>2, <1>3, <1>6, <1>7, <2>2 DEF TodoInv
  <2> QED BY <2>1, <2>2
<1> QED BY <1>6, <1>8, <1>9 DEF rest, S

LEMMA CheckLimitKeeps == ASSUME PersonalInv, NEW r \in SavedRequests, CheckLimit(r) PROVE PersonalInv'
<1> DEFINE lines == unrepeated(mine[r].call.texts)
           count == Cardinality(savedWords)
           q == [mine[r] EXCEPT !.pc = "insert", !.count = IF pro THEN None ELSE count, !.todo = lines]
<1>1. CASE ~pro /\ count + Cardinality(DOMAIN lines) > FreeLimit
  <2>1. replyTo(r, "limit")
    BY <1>1 DEF CheckLimit
  <2> QED BY <2>1, AnswerKeeps DEF CheckLimit
<1>2. CASE ~(~pro /\ count + Cardinality(DOMAIN lines) > FreeLimit)
  <2>1. mine' = [mine EXCEPT ![r] = q]
    BY <1>2 DEF CheckLimit
  <2>2. AskedInv(mine[r], saved, issued) /\ mine[r].pc = "begin" /\ mine[r].call.op = "save"
    BY DEF PersonalInv, CheckLimit, asks
  <2>3. mine[r].call \in SavedCalls /\ mine[r].call.texts \in Seq(STRING)
    BY <2>2, PersonalAssumption DEF AskedInv
  <2>4. IsFiniteSet(savedWords) /\ count \in Nat
    BY FS_Subset, FS_CardinalityType DEF PersonalInv
  <2>5. DOMAIN lines \subseteq 1 .. Len(mine[r].call.texts) /\ Len(mine[r].call.texts) \in Nat
    BY <2>3 DEF unrepeated
  <2>11. \A i \in DOMAIN lines : lines[i] \in STRING
    BY <2>3 DEF unrepeated
  <2>6. IsFiniteSet(DOMAIN lines) /\ DOMAIN lines \subseteq Nat /\ Cardinality(DOMAIN lines) \in Nat
    <3> HIDE DEF lines
    <3>1. IsFiniteSet(1 .. Len(mine[r].call.texts))
      BY <2>5, FS_Interval
    <3>2. IsFiniteSet(DOMAIN lines)
      BY <2>5, <3>1, FS_Subset
    <3> QED BY <2>5, <3>2, FS_CardinalityType
  <2> DEFINE counted == IF pro THEN None ELSE count
  <2>7. counted # None => counted \in Nat /\ counted + Cardinality(DOMAIN lines) <= FreeLimit
    <3> HIDE DEF lines, count
    <3> QED BY <1>2, <2>4, <2>6, PersonalAssumption
  <2> HIDE DEF lines, count, counted
  <2>8. TodoInv(counted, lines)
    BY <2>6, <2>7, <2>11 DEF TodoInv
  <2>9. q = [pc |-> "insert", call |-> mine[r].call, row |-> mine[r].row, count |-> counted,
             todo |-> lines]
    <3> DEFINE u == mine[r]
    <3>1. u = [pc |-> u.pc, call |-> u.call, row |-> u.row, count |-> u.count, todo |-> u.todo]
      BY <2>2 DEF AskedInv
    <3> HIDE DEF u
    <3> DEFINE p == [u EXCEPT !.pc = "insert"]
               t == [p EXCEPT !.count = counted]
    <3>2. p = [pc |-> "insert", call |-> u.call, row |-> u.row, count |-> u.count, todo |-> u.todo]
      BY <3>1
    <3> HIDE DEF p
    <3>3. t = [pc |-> "insert", call |-> u.call, row |-> u.row, count |-> counted, todo |-> u.todo]
      BY <3>2
    <3> HIDE DEF t
    <3>4. [t EXCEPT !.todo = lines] =
             [pc |-> "insert", call |-> u.call, row |-> u.row, count |-> counted, todo |-> lines]
      BY <3>3
    <3> QED BY <3>4, Zenon DEF t, p, u, counted, lines, count
  <2> HIDE DEF q
  <2>10. AskedInv(q, saved, issued)
    BY <2>3, <2>8, <2>9 DEF AskedInv
  <2> QED BY <2>1, <2>10, RequestAside DEF CheckLimit
<1> QED BY <1>1, <1>2

LEMMA EndSaveKeeps == ASSUME PersonalInv, NEW r \in SavedRequests, EndSave(r) PROVE PersonalInv'
  BY AnswerKeeps DEF EndSave

\* The other requests, when rows are added, removed or reviewed again.
LEMMA OthersStay ==
    ASSUME NEW q, NEW words, NEW ids, NEW later, NEW more,
           AskedInv(q, words, ids), ids \subseteq more,
           \A w \in ids : later[w] # None /\ later[w].shapedBy = "reviews" =>
              /\ words[w] # None /\ words[w].shapedBy = "reviews"
              /\ \/ /\ later[w].version = words[w].version
                    /\ later[w].ratings = words[w].ratings
                 \/ /\ words[w].version \in Nat
                    /\ later[w].version = words[w].version + 1
    PROVE  AskedInv(q, later, more)
<1>1. q.pc = "write" => ReadInv(q.row, q.call.word, later, more)
  <2> SUFFICES ASSUME q.pc = "write" PROVE ReadInv(q.row, q.call.word, later, more)
    OBVIOUS
  <2> DEFINE w == q.call.word
             row == q.row
  <2>1. ReadInv(row, w, words, ids)
    BY DEF AskedInv
  <2> HIDE DEF w, row
  <2>2. row.version \in Int
    BY <2>1 DEF ReadInv, SavedType
  <2>3. ReadInv(row, w, later, more)
    BY <2>1, <2>2 DEF ReadInv
  <2> QED BY <2>3 DEF w, row
<1> QED BY <1>1 DEF AskedInv

LEMMA RemoveSavedKeeps == ASSUME PersonalInv, NEW r \in SavedRequests, RemoveSaved(r) PROVE PersonalInv'
<1> DEFINE w == mine[r].call.word
<1>1. CASE w \notin savedWords
  <2>1. replyTo(r, "none")
    BY <1>1 DEF RemoveSaved
  <2> QED BY <1>1, <2>1, AnswerKeeps DEF RemoveSaved
<1>2. CASE w \in savedWords
  <2> HIDE DEF w
  <2>1. /\ saved' = [saved EXCEPT ![w] = None] /\ reviews' = {v \in reviews : v.word # w}
        /\ replyTo(r, "done") /\ issued' = issued /\ over' = over
    BY <1>2 DEF RemoveSaved, w
  <2>2. savedWords' = savedWords \ {w} /\ \A x \in savedWords' : saved'[x] = saved[x]
    BY <2>1 DEF PersonalInv, savedWords
  <2>3. saved' = [x \in Saved |-> saved'[x]] /\ savedWords \subseteq issued /\ IsFiniteSet(issued)
    BY <2>1 DEF PersonalInv
  <2>4. Cardinality(savedWords') <= Cardinality(savedWords) /\ Cardinality(savedWords) \in Nat /\ Cardinality(savedWords') \in Nat
    <3>1. IsFiniteSet(savedWords) /\ savedWords' \subseteq savedWords
      BY <2>2, <2>3, FS_Subset
    <3> HIDE DEF savedWords
    <3> QED BY <3>1, FS_Subset, FS_CardinalityType
  <2>5. \A x \in savedWords' : WordInv(saved'[x], {v \in reviews' : v.word = x})
    <3> SUFFICES ASSUME NEW x \in savedWords' PROVE WordInv(saved'[x], {v \in reviews' : v.word = x})
      OBVIOUS
    <3>1. {v \in reviews' : v.word = x} = {v \in reviews : v.word = x}
      BY <2>1, <2>2
    <3> QED BY <2>2, <3>1 DEF PersonalInv
  <2>6. \A x \in SavedRequests : AskedInv(mine[x], saved', issued')
    BY <2>1, OthersStay DEF PersonalInv
  <2>7. \A x \in SavedRequests : AskedInv(mine'[x], saved', issued')
    BY <2>1, <2>6, Answered DEF replyTo, PersonalInv
  <2>8. mine' = [x \in SavedRequests |-> mine'[x]]
    BY <2>1 DEF replyTo, PersonalInv
  <2>9. \A v \in reviews' : v.word \in savedWords'
    BY <2>1, <2>2 DEF PersonalInv
  <2>10. ~over' => Cardinality(savedWords') <= FreeLimit
    BY <2>1, <2>4, PersonalAssumption DEF PersonalInv
  <2>11. \A u, v \in savedWords' : saved'[u].text = saved'[v].text => u = v
    BY <2>2 DEF PersonalInv
  <2>12. savedWords' \subseteq issued' /\ IsFiniteSet(issued') /\ issued' \subseteq Saved /\ over' \in BOOLEAN
    BY <2>1, <2>2 DEF PersonalInv
  <2> QED BY <2>3, <2>5, <2>7, <2>8, <2>9, <2>10, <2>11, <2>12 DEF PersonalInv
<1> QED BY <1>1, <1>2


LEMMA InsertSavedKeeps == ASSUME PersonalInv, NEW r \in SavedRequests, InsertSaved(r) PROVE PersonalInv'
<1> DEFINE todo == mine[r].todo
           line == CHOOSE i \in DOMAIN todo : \A j \in DOMAIN todo : i <= j
           text == todo[line]
           rest == [i \in DOMAIN todo \ {line} |-> todo[i]]
           count == mine[r].count
           counted == IF count = None THEN None ELSE count + 1
<1>1. /\ AskedInv(mine[r], saved, issued) /\ mine[r].pc = "insert" /\ mine[r].call.op = "save"
      /\ DOMAIN todo # {}
  BY DEF PersonalInv, InsertSaved, asks
<1>2. TodoInv(count, todo) /\ mine[r].call \in SavedCalls
  BY <1>1 DEF AskedInv
<1>3. line \in DOMAIN todo
  <2> HIDE DEF todo
  <2>1. DOMAIN todo \subseteq Nat
    BY <1>2 DEF TodoInv
  <2> QED BY <1>1, <2>1, FirstLine DEF todo
<1> DEFINE q(c) == [pc |-> "insert", call |-> mine[r].call, row |-> mine[r].row, count |-> c, todo |-> rest]
<1>4. /\ TodoInv(count, rest) /\ TodoInv(counted, rest)
      /\ count # None => count + 1 <= FreeLimit
  <2> HIDE DEF todo, line, count
  <2> QED BY <1>2, <1>3, OneLineLess, PersonalAssumption
<1>5. CASE taken(text)
  <2>1. /\ replyTo(r, "exists") \/ mine' = [mine EXCEPT ![r].todo = rest]
        /\ UNCHANGED <<saved, issued, reviews, over>>
    BY <1>5 DEF InsertSaved
  <2>2. CASE replyTo(r, "exists")
    BY <2>1, <2>2, AnswerKeeps
  <2>3. CASE mine' = [mine EXCEPT ![r].todo = rest]
    <3>1. mine' = [mine EXCEPT ![r] = q(count)]
      <4> DEFINE u == mine[r]
      <4>1. u = [pc |-> u.pc, call |-> u.call, row |-> u.row, count |-> u.count, todo |-> u.todo]
        BY <1>1 DEF AskedInv
      <4> HIDE DEF u, rest
      <4>2. [u EXCEPT !.todo = rest] =
               [pc |-> u.pc, call |-> u.call, row |-> u.row, count |-> u.count, todo |-> rest]
        BY <4>1
      <4>3. [u EXCEPT !.todo = rest] = q(count)
        BY <1>1, <4>2 DEF u
      <4>4. mine' = [mine EXCEPT ![r] = [u EXCEPT !.todo = rest]]
        BY <2>3 DEF u
      <4> QED BY <4>3, <4>4
    <3>2. AskedInv(q(count), saved, issued)
      <4> HIDE DEF rest, count
      <4> QED BY <1>2, <1>4 DEF AskedInv
    <3> HIDE DEF q, count
    <3> QED BY <2>1, <3>1, <3>2, RequestAside
  <2> QED BY <2>1, <2>2, <2>3
<1>6. CASE ~taken(text)
  <2>1. PICK w \in Saved \ issued : /\ saved' = [saved EXCEPT ![w] = NewSaved(text)]
                                    /\ issued' = issued \cup {w}
    BY <1>6 DEF InsertSaved
  <2>2. /\ mine' = [mine EXCEPT ![r].todo = rest, ![r].count = counted]
        /\ over' = (over \/ count # Cardinality(savedWords)) /\ reviews' = reviews
    BY <1>6 DEF InsertSaved
  <2>3. mine' = [mine EXCEPT ![r] = q(counted)]
    <3> DEFINE u == mine[r]
               p == [u EXCEPT !.todo = rest]
    <3>1. u = [pc |-> u.pc, call |-> u.call, row |-> u.row, count |-> u.count, todo |-> u.todo]
      BY <1>1 DEF AskedInv
    <3> HIDE DEF u, rest, counted
    <3>2. p = [pc |-> u.pc, call |-> u.call, row |-> u.row, count |-> u.count, todo |-> rest]
      BY <3>1
    <3>3. mine' = [mine EXCEPT ![r] = [p EXCEPT !.count = counted]]
      BY <2>2 DEF u
    <3> HIDE DEF p
    <3>4. [p EXCEPT !.count = counted] =
             [pc |-> u.pc, call |-> u.call, row |-> u.row, count |-> counted, todo |-> rest]
      BY <3>2
    <3>5. [p EXCEPT !.count = counted] = q(counted)
      BY <1>1, <3>4 DEF u
    <3> QED BY <3>3, <3>5
  <2>4. \A v \in savedWords : saved[v].text # text
    BY <1>6 DEF taken
  <2> HIDE DEF line, todo, text, rest, counted, count
  <2>5. AskedInv(q(counted), saved, issued)
    BY <1>2, <1>4 DEF AskedInv
  <2> DEFINE row == NewSaved(text)
  <2>6. text \in STRING
    BY <1>2, <1>3 DEF TodoInv, text
  <2>7. WordInv(row, {}) /\ row # None /\ row.text = text
    BY <2>6, NewWord DEF NewSaved
  <2> HIDE DEF q, row
  <2>8. saved' = [saved EXCEPT ![w] = row]
    BY <2>1 DEF row
  <2>9. w \notin savedWords /\ savedWords' = savedWords \cup {w} /\ saved'[w] = row /\ \A v \in savedWords : saved'[v] = saved[v]
    BY <2>1, <2>7, <2>8 DEF PersonalInv, savedWords
  <2>10. saved' = [x \in Saved |-> saved'[x]] /\ issued' \subseteq Saved /\ savedWords' \subseteq issued'
         /\ IsFiniteSet(issued')
    BY <2>1, <2>8, <2>9, FS_AddElement DEF PersonalInv
  <2>11. IsFiniteSet(savedWords) /\ Cardinality(savedWords) \in Nat /\ Cardinality(savedWords') = Cardinality(savedWords) + 1
    <3>1. IsFiniteSet(savedWords)
      BY FS_Subset DEF PersonalInv
    <3> HIDE DEF savedWords
    <3> QED BY <2>9, <3>1, FS_AddElement, FS_CardinalityType
  <2>12. over' \in BOOLEAN /\ (~over' => Cardinality(savedWords') <= FreeLimit)
    BY <1>2, <1>4, <2>2, <2>11, PersonalAssumption DEF PersonalInv, TodoInv
  <2>13. \A v \in savedWords' : WordInv(saved'[v], {x \in reviews' : x.word = v})
    <3>1. {x \in reviews : x.word = w} = {}
      BY <2>9 DEF PersonalInv
    <3> QED BY <2>2, <2>7, <2>9, <3>1 DEF PersonalInv
  <2>14. \A u, v \in savedWords' : saved'[u].text = saved'[v].text => u = v
    BY <2>4, <2>7, <2>9 DEF PersonalInv
  <2>15. \A x \in reviews' : x.word \in savedWords'
    BY <2>2, <2>9 DEF PersonalInv
  <2>16. \A v \in issued : saved'[v] = saved[v]
    BY <2>1, <2>8 DEF PersonalInv
  <2>18. \A x \in SavedRequests : AskedInv(mine'[x], saved', issued')
    <3> SUFFICES ASSUME NEW x \in SavedRequests PROVE AskedInv(mine'[x], saved', issued')
      OBVIOUS
    <3>1. AskedInv(mine'[x], saved, issued)
      BY <2>3, <2>5 DEF PersonalInv
    <3> DEFINE p == mine'[x]
               words == saved
               later == saved'
    <3>2. AskedInv(p, words, issued) /\ \A v \in issued : later[v] = words[v]
      BY <2>16, <3>1
    <3> HIDE DEF p, words, later
    <3>3. AskedInv(p, later, issued')
      BY <2>1, <3>2, OthersStay
    <3> QED BY <3>3 DEF p, later
  <2>19. mine' = [x \in SavedRequests |-> mine'[x]]
    BY <2>3 DEF PersonalInv
  <2> QED BY <2>10, <2>12, <2>13, <2>14, <2>15, <2>18, <2>19 DEF PersonalInv
<1> QED BY <1>5, <1>6

\* What a PATCH leaves is a row of its own text, and one that reviews alone
\* have scheduled only if it named nothing else.
LEMMA AmendedRow ==
    ASSUME NEW row \in SavedType, NEW body, BodyTyped(body)
    PROVE  LET new == amended(row, body)
           IN  /\ new \in SavedType
               /\ new.shapedBy = "reviews" =>
                    /\ row.shapedBy = "reviews"
                    /\ new.base = row.base /\ new.ratings = row.ratings
                    /\ new.nextReviewAt = row.nextReviewAt /\ new.version = row.version
<1> DEFINE now == snapshot(row)
           put(c, old) == IF c \in DOMAIN body THEN body[c] ELSE old
           new == amended(row, body)
           text == put("text", row.text)
<1>1. now \in ColumnsType
  BY SnapshotHolds DEF ColumnsKept
<1>2. /\ now.state \in Srs!LearningStates /\ now.easeFactor \in Int /\ now.intervalDays \in Int
      /\ now.repetitions \in Int /\ now.lapses \in Int /\ now.masteredAt \in Int
      /\ now.firstLearnedAt \in Int
  BY <1>1, ColumnFields
<1> HIDE DEF now
<1>3. row.text \in STRING /\ row.nextReviewAt \in ReviewDates /\ row.version \in Int
  BY DEF SavedType
<1>4. text \in STRING
  BY <1>3 DEF BodyTyped, takes
<1>5. CASE DOMAIN body \subseteq {"text"}
  <2> HIDE DEF text
  <2>1. new = [row EXCEPT !.text = text]
    BY <1>5 DEF amended, text
  <2> QED BY <1>4, <2>1 DEF SavedType
<1>6. CASE ~(DOMAIN body \subseteq {"text"})
  <2> DEFINE state == put("state", now.state)
             ease == put("easeFactor", now.easeFactor)
             days == put("intervalDays", now.intervalDays)
             times == put("repetitions", now.repetitions)
             lapses == put("lapses", now.lapses)
             mastered == put("masteredAt", now.masteredAt)
             since == put("firstLearnedAt", now.firstLearnedAt)
             due == put("nextReviewAt", row.nextReviewAt)
             version == put("version", row.version)
  <2>1. new = [text |-> text,
               base |-> [state |-> state, easeFactor |-> ease, intervalDays |-> days,
                         repetitions |-> times, lapses |-> lapses, masteredAt |-> mastered,
                         firstLearnedAt |-> since],
               ratings |-> <<>>, nextReviewAt |-> due, version |-> version, shapedBy |-> "patch"]
    BY <1>6, Zenon DEF amended, now
  <2>2. state \in Srs!LearningStates /\ due \in ReviewDates
    BY <1>2, <1>3 DEF BodyTyped, takes
  <2>3. ease \in Int /\ days \in Int /\ times \in Int /\ lapses \in Int
    BY <1>2 DEF BodyTyped, takes
  <2>4. mastered \in Int /\ since \in Int /\ version \in Int
    BY <1>2, <1>3 DEF BodyTyped, takes
  <2> HIDE DEF text, state, ease, days, times, lapses, mastered, since, due, version
  <2> DEFINE columns == [state |-> state, easeFactor |-> ease, intervalDays |-> days,
                         repetitions |-> times, lapses |-> lapses, masteredAt |-> mastered,
                         firstLearnedAt |-> since]
             none == <<>>
  <2>5. columns \in ColumnsType /\ none \in Seq(Srs!Ratings)
    BY <2>2, <2>3, <2>4 DEF ColumnsType
  <2>6. new = [text |-> text, base |-> columns, ratings |-> none, nextReviewAt |-> due,
               version |-> version, shapedBy |-> "patch"]
    BY <2>1
  <2> HIDE DEF columns, none, new
  <2>7. new \in SavedType /\ new.shapedBy = "patch"
    BY <1>4, <2>2, <2>4, <2>5, <2>6 DEF SavedType
  <2> QED BY <2>7 DEF new
<1> HIDE DEF new
<1> QED BY <1>5, <1>6 DEF new

LEMMA UpdateKeeps == ASSUME PersonalInv, NEW r \in SavedRequests, Update(r) PROVE PersonalInv'
<1> DEFINE w == mine[r].call.word
           row == amended(saved[w], mine[r].call.body)
           text == row.text
<1>1. CASE w \notin savedWords \/ \E v \in savedWords \ {w} : saved[v].text = text
  <2>1. (replyTo(r, "none") \/ replyTo(r, "exists")) /\ UNCHANGED <<saved, issued, reviews, over>>
    BY <1>1 DEF Update
  <2> QED BY <2>1, AnswerKeeps
<1>2. CASE w \in savedWords /\ ~\E v \in savedWords \ {w} : saved[v].text = text
  <2>1. /\ saved' = [saved EXCEPT ![w] = row] /\ replyTo(r, "done")
        /\ UNCHANGED <<issued, reviews, over>>
    BY <1>2 DEF Update
  <2>2. WordInv(saved[w], {v \in reviews : v.word = w})
    BY <1>2 DEF PersonalInv
  <2>3. /\ row \in SavedType
        /\ row.shapedBy = "reviews" =>
             /\ saved[w].shapedBy = "reviews"
             /\ row.base = saved[w].base /\ row.ratings = saved[w].ratings
             /\ row.nextReviewAt = saved[w].nextReviewAt /\ row.version = saved[w].version
    <3> DEFINE body == mine[r].call.body
               old == saved[w]
    <3>1. mine[r].call \in SavedCalls /\ mine[r].call.op = "update"
      BY DEF PersonalInv, AskedInv, Update, asks
    <3>2. BodyTyped(body) /\ old \in SavedType
      BY <2>2, <3>1, PersonalAssumption DEF WordInv
    <3> HIDE DEF body, old
    <3> QED BY <3>2, AmendedRow DEF body, old
  <2> HIDE DEF w, row
  <2>5. row # None
    BY <2>3, PersonalAssumption
  <2>6. savedWords' = savedWords /\ saved'[w] = row /\ \A v \in savedWords \ {w} : saved'[v] = saved[v]
    BY <1>2, <2>1, <2>5 DEF PersonalInv, savedWords
  <2>7. WordInv(row, {v \in reviews : v.word = w})
    <3> DEFINE logged == {v \in reviews : v.word = w}
    <3>1. row.shapedBy = "reviews" => LogInv(saved[w], logged)
      BY <2>2, <2>3 DEF WordInv
    <3> HIDE DEF logged
    <3>2. row.shapedBy = "reviews" => LogInv(row, logged)
      BY <2>3, <3>1 DEF LogInv
    <3> QED BY <2>3, <3>2 DEF WordInv, logged
  <2>8. \A v \in savedWords' : WordInv(saved'[v], {x \in reviews' : x.word = v})
    <3> SUFFICES ASSUME NEW v \in savedWords PROVE WordInv(saved'[v], {x \in reviews : x.word = v})
      BY <2>1, <2>6
    <3>1. CASE v = w
      BY <2>6, <2>7, <3>1
    <3>2. CASE v # w
      BY <2>6, <3>2 DEF PersonalInv
    <3> QED BY <3>1, <3>2
  <2>9. \A u, v \in savedWords' : saved'[u].text = saved'[v].text => u = v
    <3>1. saved'[w].text = text /\ \A v \in savedWords \ {w} : saved[v].text # text
      BY <1>2, <2>6
    <3>2. \A u, v \in savedWords : saved[u].text = saved[v].text => u = v
      BY DEF PersonalInv
    <3> HIDE DEF text
    <3> QED BY <2>6, <3>1, <3>2
  <2>10. \A v \in issued : saved'[v] # None /\ saved'[v].shapedBy = "reviews" =>
           /\ saved[v] # None /\ saved[v].shapedBy = "reviews"
           /\ saved'[v].version = saved[v].version /\ saved'[v].ratings = saved[v].ratings
    <3> SUFFICES ASSUME NEW v \in issued, saved'[v] # None, saved'[v].shapedBy = "reviews"
                 PROVE  /\ saved[v] # None /\ saved[v].shapedBy = "reviews"
                        /\ saved'[v].version = saved[v].version /\ saved'[v].ratings = saved[v].ratings
      OBVIOUS
    <3>1. CASE v = w
      BY <1>2, <2>3, <2>6, <3>1 DEF savedWords
    <3>2. CASE v # w
      BY <2>1, <3>2 DEF PersonalInv
    <3> QED BY <3>1, <3>2
  <2>11. \A x \in SavedRequests : AskedInv(mine[x], saved', issued')
    <3> SUFFICES ASSUME NEW x \in SavedRequests PROVE AskedInv(mine[x], saved', issued')
      OBVIOUS
    <3> DEFINE p == mine[x]
               words == saved
               later == saved'
    <3>1. AskedInv(p, words, issued)
      BY DEF PersonalInv
    <3>2. \A v \in issued : later[v] # None /\ later[v].shapedBy = "reviews" =>
           /\ words[v] # None /\ words[v].shapedBy = "reviews"
           /\ later[v].version = words[v].version /\ later[v].ratings = words[v].ratings
      BY <2>10
    <3> HIDE DEF p, words, later
    <3>3. AskedInv(p, later, issued)
      BY <3>1, <3>2, OthersStay
    <3> QED BY <2>1, <3>3 DEF p, later
  <2>12. \A x \in SavedRequests : AskedInv(mine'[x], saved', issued')
    BY <2>1, <2>11, Answered DEF replyTo, PersonalInv
  <2>13. mine' = [x \in SavedRequests |-> mine'[x]] /\ saved' = [x \in Saved |-> saved'[x]]
    BY <2>1 DEF replyTo, PersonalInv
  <2> QED BY <2>1, <2>6, <2>8, <2>9, <2>12, <2>13 DEF PersonalInv
<1> QED BY <1>1, <1>2

LEMMA WriteReviewKeeps == ASSUME PersonalInv, NEW r \in SavedRequests, WriteReview(r) PROVE PersonalInv'
<1> DEFINE call == mine[r].call
           old == mine[r].row
           w == call.word
<1>1. CASE ~unchangedSince(r) \/ sameKey(call) # {}
  <2>1. (replyTo(r, "conflict") \/ replyTo(r, "failed")) /\ UNCHANGED <<saved, issued, reviews, over>>
    BY <1>1 DEF WriteReview
  <2> QED BY <2>1, AnswerKeeps
<1>2. CASE unchangedSince(r) /\ sameKey(call) = {}
  <2> DEFINE entry == [id |-> call.id, word |-> w, rating |-> call.rating, nth |-> old.version + 1]
             logged == {v \in reviews : v.word = w}
  <2>1. /\ saved' = [saved EXCEPT ![w] =
                        [@ EXCEPT !.base = old.base, !.ratings = Append(old.ratings, call.rating),
                                  !.nextReviewAt = "date", !.version = old.version + 1]]
        /\ reviews' = reviews \cup {entry} /\ replyTo(r, "done") /\ UNCHANGED <<issued, over>>
    BY <1>2 DEF WriteReview
  <2>2. w \in savedWords /\ saved[w].version = old.version
    BY <1>2 DEF unchangedSince
  <2>3. mine[r].pc = "write" /\ AskedInv(mine[r], saved, issued)
    BY DEF WriteReview, asks, PersonalInv
  <2>4. call \in SavedCalls /\ ReadInv(old, w, saved, issued)
    BY <2>3 DEF AskedInv
  <2>5. WordInv(saved[w], logged)
    BY <2>2 DEF PersonalInv
  <2>6. saved[w].shapedBy = "reviews" =>
          old.base = Srs!DEFAULT_NEW_PROGRESS /\ old.ratings = saved[w].ratings
    BY <2>2, <2>4 DEF ReadInv, savedWords
  <2> DEFINE rating == call.rating
  <2>7. rating \in Srs!Ratings
    BY <2>3, <2>4, PersonalAssumption DEF WriteReview, asks
  <2>8. entry.word = w /\ entry.rating = rating /\ entry.nth = saved[w].version + 1
    BY <2>2
  <2> HIDE DEF call, old, w, entry, rating
  <2> DEFINE n == saved[w].version
             ratings == old.ratings
             longer == Append(ratings, rating)
             row == [text |-> saved[w].text, base |-> old.base, ratings |-> longer,
                     nextReviewAt |-> "date", version |-> n + 1, shapedBy |-> saved[w].shapedBy]
  <2>9. saved' = [saved EXCEPT ![w] = row]
    <3> DEFINE u == saved[w]
    <3>1. u \in SavedType
      BY <2>5 DEF WordInv
    <3> DEFINE base == old.base
               m == n + 1
    <3>4. u = [text |-> u.text, base |-> u.base, ratings |-> u.ratings,
               nextReviewAt |-> u.nextReviewAt, version |-> u.version, shapedBy |-> u.shapedBy]
      <4> HIDE DEF u
      <4> QED BY <3>1 DEF SavedType
    <3> HIDE DEF u, longer, base, m
    <3> DEFINE p == [u EXCEPT !.base = base]
               q == [p EXCEPT !.ratings = longer]
               v == [q EXCEPT !.nextReviewAt = "date"]
    <3>5. p = [text |-> u.text, base |-> base, ratings |-> u.ratings,
               nextReviewAt |-> u.nextReviewAt, version |-> u.version, shapedBy |-> u.shapedBy]
      BY <3>4
    <3> HIDE DEF p
    <3>6. q = [text |-> u.text, base |-> base, ratings |-> longer,
               nextReviewAt |-> u.nextReviewAt, version |-> u.version, shapedBy |-> u.shapedBy]
      BY <3>5
    <3> HIDE DEF q
    <3>7. v = [text |-> u.text, base |-> base, ratings |-> longer,
               nextReviewAt |-> "date", version |-> u.version, shapedBy |-> u.shapedBy]
      BY <3>6
    <3> HIDE DEF v
    <3>8. [v EXCEPT !.version = m] =
          [text |-> u.text, base |-> base, ratings |-> longer,
           nextReviewAt |-> "date", version |-> m, shapedBy |-> u.shapedBy]
      BY <3>7
    <3>2. [u EXCEPT !.base = old.base, !.ratings = longer, !.nextReviewAt = "date", !.version = n + 1] =
          [text |-> u.text, base |-> old.base, ratings |-> longer,
           nextReviewAt |-> "date", version |-> n + 1, shapedBy |-> u.shapedBy]
      BY <3>8, Zenon DEF p, q, v, base, m
    <3>3. saved' = [saved EXCEPT ![w] =
             [u EXCEPT !.base = old.base, !.ratings = longer, !.nextReviewAt = "date", !.version = n + 1]]
      BY <2>1, <2>2 DEF longer, rating, u
    <3> QED BY <3>2, <3>3 DEF u
  <2>10. n \in Int /\ ratings \in Seq(Srs!Ratings) /\ old.base \in ColumnsType
    BY <2>4, <2>5 DEF ReadInv, WordInv, SavedType
  <2>11. /\ row \in SavedType /\ row # None
         /\ row.text = saved[w].text /\ row.version = n + 1 /\ row.ratings = longer
         /\ row.shapedBy = saved[w].shapedBy /\ row.base = old.base /\ row.nextReviewAt = "date"
    <3> DEFINE base == old.base
    <3>1. /\ longer \in Seq(Srs!Ratings) /\ saved[w].text \in STRING /\ n + 1 \in Int
          /\ base \in ColumnsType /\ saved[w].shapedBy \in {"reviews", "patch"}
      BY <2>5, <2>7, <2>10 DEF WordInv, SavedType
    <3> HIDE DEF longer, n, base
    <3>2. [text |-> saved[w].text, base |-> base, ratings |-> longer,
           nextReviewAt |-> "date", version |-> n + 1, shapedBy |-> saved[w].shapedBy] \in SavedType
      BY <3>1 DEF SavedType, ReviewDates
    <3> QED BY <3>2, PersonalAssumption DEF base
  <2>12. {v \in reviews' : v.word = w} = logged \cup {entry}
    BY <2>1, <2>8
  <2>13. \A x \in savedWords \ {w} : {v \in reviews' : v.word = x} = {v \in reviews : v.word = x}
    BY <2>1, <2>8
  <2>14. WordInv(row, logged \cup {entry})
    <3>1. ASSUME saved[w].shapedBy = "reviews" PROVE LogInv(row, logged \cup {entry})
      <4>0. LogInv(saved[w], logged) /\ old.base = Srs!DEFAULT_NEW_PROGRESS
            /\ ratings = saved[w].ratings
        BY <2>5, <2>6, <3>1 DEF WordInv
      <4>7. Len(ratings) \in Nat
        BY <2>10
      <4>1. /\ n \in Nat /\ n = Len(ratings) /\ old.base = Srs!DEFAULT_NEW_PROGRESS
            /\ IsFiniteSet(logged) /\ Cardinality(logged) = n
            /\ \A v \in logged : v.nth \in 1 .. n /\ ratings[v.nth] = v.rating
            /\ \A u, v \in logged : u.nth = v.nth => u = v
        <5> HIDE DEF ratings, logged, row, longer
        <5> QED BY <4>0, <4>7 DEF LogInv
      <4>2. /\ longer # <<>> /\ Len(longer) = n + 1 /\ longer[n + 1] = rating
            /\ \A i \in 1 .. n : longer[i] = ratings[i]
        <5>1. ratings \in Seq(Srs!Ratings) /\ rating \in Srs!Ratings /\ n = Len(ratings)
          BY <2>7, <2>10, <4>1
        <5> HIDE DEF ratings, n, rating
        <5>2. /\ Len(longer) = n + 1 /\ longer[n + 1] = rating
              /\ \A i \in 1 .. n : longer[i] = ratings[i]
          BY <5>1
        <5>3. Len(longer) # 0
          BY <4>1, <5>2
        <5>4. longer # <<>>
          <6> HIDE DEF longer
          <6> QED BY <5>3
        <5> QED BY <5>2, <5>4
      <4> HIDE DEF longer, logged, n, ratings
      <4>3. entry \notin logged
        BY <2>8, <4>1 DEF n
      <4>4. IsFiniteSet(logged \cup {entry}) /\ Cardinality(logged \cup {entry}) = n + 1
        BY <4>1, <4>3, FS_AddElement
      <4>5. \A v \in logged \cup {entry} : v.nth \in 1 .. n + 1 /\ longer[v.nth] = v.rating
        BY <2>8, <4>1, <4>2 DEF n
      <4>6. \A u, v \in logged \cup {entry} : u.nth = v.nth => u = v
        BY <2>8, <4>1 DEF n
      <4> HIDE DEF row
      <4> QED BY <2>11, <4>1, <4>2, <4>4, <4>5, <4>6 DEF LogInv
    <3> HIDE DEF row, longer, n, logged
    <3> QED BY <2>11, <3>1 DEF WordInv
  <2> HIDE DEF row, n, ratings, longer
  <2>15. savedWords' = savedWords /\ saved'[w] = row /\ \A v \in savedWords \ {w} : saved'[v] = saved[v]
    BY <2>2, <2>9, <2>11 DEF PersonalInv, savedWords
  <2>16. \A v \in savedWords' : WordInv(saved'[v], {x \in reviews' : x.word = v})
    BY <2>12, <2>13, <2>14, <2>15 DEF PersonalInv
  <2>17. \A u, v \in savedWords' : saved'[u].text = saved'[v].text => u = v
    <3>1. \A v \in savedWords : saved'[v].text = saved[v].text
      BY <2>2, <2>11, <2>15
    <3>2. \A u, v \in savedWords : saved[u].text = saved[v].text => u = v
      BY DEF PersonalInv
    <3> QED BY <2>15, <3>1, <3>2
  <2>18. \A v \in issued : saved'[v] # None /\ saved'[v].shapedBy = "reviews" =>
           /\ saved[v] # None /\ saved[v].shapedBy = "reviews"
           /\ \/ saved'[v].version = saved[v].version /\ saved'[v].ratings = saved[v].ratings
              \/ saved[v].version \in Nat /\ saved'[v].version = saved[v].version + 1
    <3> SUFFICES ASSUME NEW v \in issued, saved'[v] # None, saved'[v].shapedBy = "reviews"
                 PROVE  /\ saved[v] # None /\ saved[v].shapedBy = "reviews"
                        /\ \/ saved'[v].version = saved[v].version /\ saved'[v].ratings = saved[v].ratings
                           \/ saved[v].version \in Nat /\ saved'[v].version = saved[v].version + 1
      OBVIOUS
    <3>1. CASE v = w
      <4>1. saved[w].shapedBy = "reviews" /\ n \in Nat
        BY <2>5, <2>11, <2>15, <3>1 DEF WordInv, LogInv, SavedType, n
      <4> QED BY <2>2, <2>11, <2>15, <3>1, <4>1 DEF savedWords, n
    <3>2. CASE v # w
      BY <2>9, <3>2 DEF PersonalInv
    <3> QED BY <3>1, <3>2
  <2>19. \A x \in SavedRequests : AskedInv(mine[x], saved', issued')
    <3> SUFFICES ASSUME NEW x \in SavedRequests PROVE AskedInv(mine[x], saved', issued')
      OBVIOUS
    <3> DEFINE p == mine[x]
               words == saved
               later == saved'
    <3>1. AskedInv(p, words, issued)
      BY DEF PersonalInv
    <3>2. \A v \in issued : later[v] # None /\ later[v].shapedBy = "reviews" =>
           /\ words[v] # None /\ words[v].shapedBy = "reviews"
           /\ \/ later[v].version = words[v].version /\ later[v].ratings = words[v].ratings
              \/ words[v].version \in Nat /\ later[v].version = words[v].version + 1
      BY <2>18
    <3> HIDE DEF p, words, later
    <3>3. AskedInv(p, later, issued)
      BY <3>1, <3>2, OthersStay
    <3> QED BY <2>1, <3>3 DEF p, later
  <2>20. mine = [x \in SavedRequests |-> mine[x]]
    BY DEF PersonalInv
  <2>21. /\ mine' = [x \in SavedRequests |-> mine'[x]] /\ saved' = [x \in Saved |-> saved'[x]]
         /\ \A x \in SavedRequests : AskedInv(mine'[x], saved', issued')
    <3>1. saved' = [x \in Saved |-> saved'[x]]
      BY <2>9 DEF PersonalInv
    <3> DEFINE words == saved'
               ids == issued'
    <3>2. \A x \in SavedRequests : AskedInv(mine[x], words, ids)
      BY <2>19
    <3> HIDE DEF words, ids
    <3>3. /\ mine' = [x \in SavedRequests |-> mine'[x]]
          /\ \A x \in SavedRequests : AskedInv(mine'[x], words, ids)
      BY <2>1, <2>20, <3>2, AnswerSets
    <3> QED BY <3>1, <3>3 DEF words, ids
  <2>22. \A v \in reviews' : v.word \in savedWords'
    BY <2>1, <2>2, <2>8, <2>15 DEF PersonalInv
  <2> QED BY <2>1, <2>15, <2>16, <2>17, <2>21, <2>22 DEF PersonalInv
<1> QED BY <1>1, <1>2

LEMMA PersonalKeeps == PersonalInv /\ [PersonalNext]_personalVars => PersonalInv'
<1> SUFFICES ASSUME PersonalInv, [PersonalNext]_personalVars PROVE PersonalInv'
  OBVIOUS
<1>1. CASE UNCHANGED personalVars
  BY <1>1 DEF personalVars, PersonalInv, savedWords
<1>2. CASE Subscribe
  BY <1>2 DEF Subscribe, PersonalInv, savedWords
<1>3. ASSUME NEW r \in SavedRequests, NEW call \in SavedCalls, Ask(r, call) PROVE PersonalInv'
  BY <1>3, AskKeeps
<1>4. ASSUME NEW r \in SavedRequests,
             \/ CheckLimit(r) \/ InsertSaved(r) \/ EndSave(r) \/ Update(r) \/ RemoveSaved(r)
             \/ FindReview(r) \/ Replay(r) \/ ReadSaved(r) \/ WriteReview(r)
      PROVE  PersonalInv'
  BY <1>4, CheckLimitKeeps, InsertSavedKeeps, EndSaveKeeps, UpdateKeeps, RemoveSavedKeeps,
     FindReviewKeeps, ReplayKeeps, ReadSavedKeeps, WriteReviewKeeps
<1> QED BY <1>1, <1>2, <1>3, <1>4 DEF PersonalNext

LEMMA PersonalTells == PersonalInv => PersonalSound
<1> SUFFICES ASSUME PersonalInv PROVE PersonalSound
  OBVIOUS
<1>1. ReviewsApplied
  BY DEF PersonalInv, ReviewsApplied, reviewedOnly, WordInv, LogInv
<1>2. LimitHolds
  <2>1. Cardinality(savedWords) \in Nat
    BY FS_Subset, FS_CardinalityType DEF PersonalInv
  <2>2. ~over => Cardinality(savedWords) <= FreeLimit
    BY DEF PersonalInv
  <2>3. Cardinality(savedWords) > FreeLimit => over
    <3> HIDE DEF savedWords
    <3> QED BY <2>1, <2>2, PersonalAssumption
  <2> QED BY <2>3 DEF PersonalInv, LimitHolds
<1> QED BY <1>1, <1>2 DEF PersonalSound

(* For any number of requests, devices and words: every word a user saved  *)
(* whose columns no PATCH has named is scheduled by exactly the reviews    *)
(* logged for it, each once and in the order of their commits, whatever    *)
(* texts it is given and whatever PATCHes do to other words; no text is saved twice; and a free user is over *)
(* the limit only through a subscription or saves that overlapped          *)
(* (VocabPersonalService.create, bulkCreate, submitReview).                *)
THEOREM PersonalAlwaysSound == PersonalSpec => []PersonalSound
<1>1. PersonalInv /\ [PersonalNext]_personalVars => PersonalInv'
  BY PersonalKeeps
<1> QED BY <1>1, PersonalInitial, PersonalTells, PTL DEF PersonalSpec

-----------------------------------------------------------------------------
(***************************************************************************)
(* The lists of the words a user saved: what the columns and the log say   *)
(* of each word, counted.                                                  *)
(***************************************************************************)
\* The words in one of the states.
WordsIn(states) == {w \in savedWords : snapshot(saved[w]).state \in states}

\* What the columns and the log say of a saved word.
LEMMA WordTells ==
    ASSUME PersonalInv, NEW w \in savedWords
    PROVE  LET ratings == saved[w].ratings
               n       == Len(ratings)
               p       == snapshot(saved[w])
           IN  /\ p.state \in Srs!LearningStates /\ p.lapses \in Int
               /\ w \in reviewedOnly =>
                    /\ p.state = "NEW" <=> saved[w].nextReviewAt = "null"
                    /\ p.state = "NEW" <=> \A v \in reviews : v.word # w
                    /\ p.lapses > 0 => Forgotten(ratings, n)
<1> DEFINE row     == saved[w]
           ratings == saved[w].ratings
           n       == Len(ratings)
           logged  == {v \in reviews : v.word = w}
           p       == snapshot(saved[w])
<1>1. WordInv(saved[w], logged)
  BY DEF PersonalInv
<1>2. row \in SavedType /\ ratings \in Seq(Srs!Ratings)
  BY <1>1 DEF WordInv, SavedType
<1>3. ColumnsKept(saved[w].base, p, ratings, n)
  <2> HIDE DEF row
  <2>1. ColumnsKept(row.base, snapshot(row), row.ratings, Len(row.ratings))
    BY <1>2, SnapshotHolds
  <2> QED BY <2>1 DEF row
<1>4. p.state \in Srs!LearningStates /\ p.lapses \in Int
  <2> HIDE DEF p
  <2> QED BY <1>3, ColumnFields DEF ColumnsKept
<1>5. ASSUME w \in reviewedOnly
      PROVE  /\ p.state = "NEW" <=> saved[w].nextReviewAt = "null"
             /\ p.state = "NEW" <=> \A v \in reviews : v.word # w
             /\ p.lapses > 0 => Forgotten(ratings, n)
  <2>1. LogInv(saved[w], logged)
    BY <1>1, <1>5 DEF WordInv, reviewedOnly
  <2>2. ColumnsInv(p, ratings, n)
    BY <1>3, <2>1 DEF ColumnsKept, LogInv
  <2>3. /\ IsFiniteSet(logged) /\ Cardinality(logged) = n
        /\ saved[w].nextReviewAt = "null" <=> ratings = <<>>
    BY <2>1 DEF LogInv
  <2>4. n = 0 <=> ratings = <<>>
    BY <1>2
  <2>5. n = 0 <=> logged = {}
    BY <2>3, FS_EmptySet
  <2>6. logged = {} <=> \A v \in reviews : v.word # w
    OBVIOUS
  <2> HIDE DEF ratings, n, logged, p
  <2>7. (p.state = "NEW" <=> n = 0) /\ (p.lapses > 0 => Forgotten(ratings, n))
    BY <2>2 DEF ColumnsInv
  <2> QED BY <2>3, <2>4, <2>5, <2>6, <2>7
<1> QED BY <1>4, <1>5 DEF ratings, n, p

LEMMA SavedFinite == PersonalInv => IsFiniteSet(savedWords)
  BY FS_Subset DEF PersonalInv

\* The three filters part the words.
LEMMA FiltersPart ==
    ASSUME PersonalInv
    PROVE  /\ savedWords = WordsIn({"NEW"}) \cup WordsIn(LEARNING_BUCKET_STATES) \cup WordsIn({"MASTERED"})
           /\ Cardinality(savedWords) = Cardinality(WordsIn({"NEW"}))
                + Cardinality(WordsIn(LEARNING_BUCKET_STATES)) + Cardinality(WordsIn({"MASTERED"}))
<1> DEFINE A == WordsIn({"NEW"})
           B == WordsIn(LEARNING_BUCKET_STATES)
           C == WordsIn({"MASTERED"})
<1>1. \A w \in savedWords : snapshot(saved[w]).state \in Srs!LearningStates
  BY WordTells
<1>2. savedWords = (A \cup B) \cup C /\ A \cap B = {} /\ (A \cup B) \cap C = {}
  BY <1>1 DEF WordsIn, LEARNING_BUCKET_STATES, Srs!LearningStates
<1>3. IsFiniteSet(A) /\ IsFiniteSet(B) /\ IsFiniteSet(C)
  <2>1. A \subseteq savedWords /\ B \subseteq savedWords /\ C \subseteq savedWords
    BY DEF WordsIn
  <2> QED BY <2>1, SavedFinite, FS_Subset
<1> HIDE DEF A, B, C
<1>4. IsFiniteSet(A \cup B) /\ Cardinality(A \cup B) = Cardinality(A) + Cardinality(B)
  <2>1. Cardinality(A) \in Nat /\ Cardinality(B) \in Nat
    BY <1>3, FS_CardinalityType
  <2>2. Cardinality(A \cap B) = 0
    BY <1>2, FS_EmptySet
  <2>3. IsFiniteSet(A \cup B)
    BY <1>3, FS_Union
  <2>4. Cardinality(A \cup B) = Cardinality(A) + Cardinality(B) - Cardinality(A \cap B)
    BY <1>3, FS_Union
  <2> QED BY <2>1, <2>2, <2>3, <2>4
<1>5. Cardinality((A \cup B) \cup C) = Cardinality(A \cup B) + Cardinality(C)
  <2>1. Cardinality(A \cup B) \in Nat /\ Cardinality(C) \in Nat
    BY <1>3, <1>4, FS_CardinalityType
  <2> DEFINE D == A \cup B
  <2>2. Cardinality(D \cap C) = 0
    BY <1>2, FS_EmptySet
  <2>3. Cardinality(D \cup C) = Cardinality(D) + Cardinality(C) - Cardinality(D \cap C)
    BY <1>3, <1>4, FS_Union
  <2> HIDE DEF D
  <2>4. Cardinality(D \cup C) = Cardinality(D) + Cardinality(C)
    BY <2>1, <2>2, <2>3 DEF D
  <2> QED BY <2>4 DEF D
<1> QED BY <1>2, <1>4, <1>5 DEF A, B, C

\* The lists the filters show.
LEMMA ListsShow ==
    ASSUME NEW later
    PROVE  /\ list("new", FALSE, later) = WordsIn({"NEW"})
           /\ list("learning", FALSE, later) = WordsIn(LEARNING_BUCKET_STATES)
           /\ list("mastered", FALSE, later) = WordsIn({"MASTERED"})
           /\ list("all", TRUE, later) = {w \in WordsIn(Srs!LearningStates) : wordDue(w, later)}
  BY DEF list, statesOf, WordsIn

LEMMA StatsCount ==
    ASSUME NEW later
    PROVE  LET stats == getStats(later)
           IN  /\ stats.total = Cardinality(savedWords)
               /\ stats.new = Cardinality(WordsIn({"NEW"}))
               /\ stats.learning = Cardinality(WordsIn(LEARNING_BUCKET_STATES))
               /\ stats.mastered = Cardinality(WordsIn({"MASTERED"}))
               /\ stats.dueTodayCount = Cardinality({w \in savedWords : wordDue(w, later)})
               /\ stats.struggledCount = Cardinality({w \in savedWords : snapshot(saved[w]).lapses > 0})
  BY DEF getStats, WordsIn

LEMMA ListsTell == ASSUME PersonalInv, NEW texts, NEW later PROVE ListsAgree(texts, later)
<1> DEFINE stats    == getStats(later)
           shown(s) == list(s, FALSE, later)
           rated(w, i, ratings) == i \in DOMAIN saved[w].ratings /\ saved[w].ratings[i] \in ratings
<1>1. stats.total = stats.new + stats.learning + stats.mastered
  BY FiltersPart, StatsCount
<1>2. savedWords = UNION {shown(s) : s \in {"new", "learning", "mastered"}}
  <2>1. UNION {shown(s) : s \in {"new", "learning", "mastered"}} =
          (shown("new") \cup shown("learning")) \cup shown("mastered")
    OBVIOUS
  <2> QED BY <2>1, FiltersPart, ListsShow
<1>3. stats.new = Cardinality(shown("new")) /\ stats.mastered = Cardinality(shown("mastered"))
  BY StatsCount, ListsShow
<1>4. shown("new") \cap reviewedOnly = {w \in reviewedOnly : \A v \in reviews : v.word # w}
  <2>1. \A w \in reviewedOnly : w \in savedWords /\
          (snapshot(saved[w]).state = "NEW" <=> \A v \in reviews : v.word # w)
    BY WordTells DEF reviewedOnly
  <2>2. WordsIn({"NEW"}) \cap reviewedOnly = {w \in reviewedOnly : \A v \in reviews : v.word # w}
    BY <2>1 DEF WordsIn
  <2> QED BY <2>2, ListsShow
<1>5. WordsIn(Srs!LearningStates) = savedWords
  BY WordTells DEF WordsIn
<1>6. shown("new") \cap reviewedOnly \subseteq list("all", TRUE, later)
  <2>1. \A w \in reviewedOnly : w \in savedWords /\
          (snapshot(saved[w]).state = "NEW" => saved[w].nextReviewAt = "null")
    BY WordTells DEF reviewedOnly
  <2>2. \A w \in WordsIn({"NEW"}) \cap reviewedOnly : w \in savedWords /\ wordDue(w, later)
    BY <2>1 DEF WordsIn, wordDue
  <2> QED BY <1>5, <2>2, ListsShow
<1>7. stats.dueTodayCount = Cardinality(list("all", TRUE, later))
  BY <1>5, StatsCount, ListsShow
<1>8. stats.struggledCount <= Cardinality({w \in savedWords : w \in reviewedOnly =>
                \E i, j \in 1 .. Len(saved[w].ratings) :
                    i < j /\ rated(w, i, {"GOOD", "EASY"}) /\ rated(w, j, {"AGAIN"})})
  <2> DEFINE S == {w \in savedWords : snapshot(saved[w]).lapses > 0}
             T == {w \in savedWords : w \in reviewedOnly =>
                     \E i, j \in 1 .. Len(saved[w].ratings) :
                         i < j /\ rated(w, i, {"GOOD", "EASY"}) /\ rated(w, j, {"AGAIN"})}
  <2>1. S \subseteq T
    <3> SUFFICES ASSUME NEW w \in savedWords, snapshot(saved[w]).lapses > 0, w \in reviewedOnly
                 PROVE  \E i, j \in 1 .. Len(saved[w].ratings) :
                           i < j /\ rated(w, i, {"GOOD", "EASY"}) /\ rated(w, j, {"AGAIN"})
      OBVIOUS
    <3>1. Forgotten(saved[w].ratings, Len(saved[w].ratings))
      BY WordTells
    <3>2. DOMAIN saved[w].ratings = 1 .. Len(saved[w].ratings)
      BY DEF PersonalInv, WordInv, SavedType
    <3> QED BY <3>1, <3>2 DEF Forgotten
  <2>2. T \subseteq savedWords
    OBVIOUS
  <2> HIDE DEF S, T
  <2>3. Cardinality(S) <= Cardinality(T)
    BY <2>1, <2>2, SavedFinite, FS_Subset
  <2> QED BY <2>3, StatsCount DEF S, T
<1>9. \A t \in texts : /\ Cardinality(getSavedStatus(texts)[t]) <= 1
                       /\ getSavedStatus(texts)[t] # {} <=> taken(t)
  <2> SUFFICES ASSUME NEW t \in texts
               PROVE  /\ Cardinality(getSavedStatus(texts)[t]) <= 1
                      /\ getSavedStatus(texts)[t] # {} <=> taken(t)
    OBVIOUS
  <2> DEFINE S == getSavedStatus(texts)[t]
  <2>1. S = {w \in savedWords : saved[w].text = t}
    BY DEF getSavedStatus
  <2> HIDE DEF S
  <2>2. \A v, w \in S : v = w
    BY <2>1 DEF PersonalInv
  <2>3. CASE S = {}
    BY <2>1, <2>3, FS_EmptySet DEF taken, S
  <2>4. CASE S # {}
    <3>1. PICK w \in S : S = {w}
      BY <2>2, <2>4
    <3>2. Cardinality(S) = 1
      BY <3>1, FS_Singleton
    <3> QED BY <2>1, <2>4, <3>2 DEF taken, S
  <2> QED BY <2>3, <2>4
<1> QED BY <1>1, <1>2, <1>3, <1>4, <1>6, <1>7, <1>8, <1>9 DEF ListsAgree

(* Whatever the requests, devices and words: the numbers above the list of *)
(* a user's words are those of its filters, which leave out no word and    *)
(* show none twice; a text has one row at most; and a word that only       *)
(* reviews have scheduled is new until the first and never again, is due   *)
(* for as long, and counts as a struggle only if it was known and then     *)
(* forgotten (VocabPersonalService.list, getStats,        *)
(* getSavedStatus; the scheduler's columns, rating by rating).             *)
THEOREM ListsAlwaysAgree ==
    ASSUME NEW texts, NEW later PROVE PersonalSpec => []ListsAgree(texts, later)
<1>1. PersonalInv /\ [PersonalNext]_personalVars => PersonalInv'
  BY PersonalKeeps
<1>2. PersonalInv => ListsAgree(texts, later)
  BY ListsTell
<1> QED BY <1>1, <1>2, PersonalInitial, PTL DEF PersonalSpec

-----------------------------------------------------------------------------
(***************************************************************************)
(* The dictionary.  A lookup that could read the cache and still goes on   *)
(* found nothing there, so nothing it buys was settled when it looked; a   *)
(* cached answer names the lookup that stored it, which does not change    *)
(* any more; and the quota counts the lookups that were let in.            *)
(***************************************************************************)
LetIn(q) == q.pc \notin {"new", "quota", "refused"}
Underway == {"quota", "vocabWord", "cache", "source", "translate", "store"}
Bought == {"source", "translate", "store", "not found", "failed", "answered"}

LookupInv(q) ==
    /\ q = [pc |-> q.pc, word |-> q.word, vi |-> q.vi, deaf |-> q.deaf, after |-> q.after]
    /\ q.vi \in {None, "translation"}
    /\ q.pc \in Underway => q.word \in Terms
    /\ q.pc \in Bought /\ ~q.deaf => q.after = {}

\* A cached answer, and what is known of its word.
CachedInv(entry, w) ==
    /\ entry # None => entry \in CachedType /\ lookup[entry.by].pc = "answered"
    /\ w \in settled => entry # None
    /\ w \in translated => /\ w \in settled
                           /\ \/ entry.vi # None
                              \/ lookup[entry.by].deaf \/ lookup[entry.by].after = {}

DictionaryInv ==
    /\ lookup = [r \in Lookups |-> lookup[r]] /\ redis = [w \in Terms |-> redis[w]]
    /\ \A r \in Lookups : LookupInv(lookup[r])
    /\ \A w \in Terms : CachedInv(redis[w], w)
    /\ settled \subseteq Terms /\ translated \subseteq Terms
    /\ IsFiniteSet({r \in Lookups : LetIn(lookup[r])})
    /\ spent = Cardinality({r \in Lookups : LetIn(lookup[r])}) /\ spent <= AiQuota

LEMMA DictionaryInitial == DictionaryInit => DictionaryInv
<1> SUFFICES ASSUME DictionaryInit PROVE DictionaryInv
  OBVIOUS
<1>1. {r \in Lookups : LetIn(lookup[r])} = {}
  BY DEF DictionaryInit, NewLookup, LetIn
<1>2. \A r \in Lookups : LookupInv(lookup[r])
  BY DEF DictionaryInit, NewLookup, LookupInv, Underway, Bought
<1>3. \A w \in Terms : CachedInv(redis[w], w)
  BY DEF DictionaryInit, CachedInv
<1>4. 0 <= AiQuota
  BY DictionaryAssumption
<1> QED BY <1>1, <1>2, <1>3, <1>4, FS_EmptySet DEF DictionaryInit, DictionaryInv

\* A lookup that goes on and neither stores nor is let in by this step.
LEMMA LookupMoves ==
    ASSUME DictionaryInv, NEW r \in Lookups, NEW q, Move(r, q), LookupInv(q),
           lookup[r].pc # "answered", LetIn(q) <=> LetIn(lookup[r]),
           UNCHANGED <<spent, redis, settled, translated>>
    PROVE  DictionaryInv'
<1>1. lookup' = [x \in Lookups |-> lookup'[x]] /\ lookup'[r] = q
      /\ \A x \in Lookups \ {r} : lookup'[x] = lookup[x]
  BY DEF DictionaryInv, Move
<1>2. \A x \in Lookups : LookupInv(lookup'[x])
  BY <1>1 DEF DictionaryInv
<1>3. {x \in Lookups : LetIn(lookup'[x])} = {x \in Lookups : LetIn(lookup[x])}
  BY <1>1
<1>4. \A w \in Terms : CachedInv(redis[w], w)'
  <2> SUFFICES ASSUME NEW w \in Terms PROVE CachedInv(redis[w], w)'
    OBVIOUS
  <2> DEFINE entry == redis[w]
  <2>1. CachedInv(entry, w)
    BY DEF DictionaryInv
  <2> HIDE DEF entry
  <2>2. CASE entry = None
    BY <2>1, <2>2 DEF CachedInv, entry
  <2>3. CASE entry # None
    <3>1. entry.by \in Lookups /\ entry.by # r
      BY <2>1, <2>3 DEF CachedInv, CachedType
    <3>2. lookup'[entry.by] = lookup[entry.by]
      BY <1>1, <3>1
    <3> QED BY <2>1, <2>3, <3>2 DEF CachedInv, entry
  <2> QED BY <2>2, <2>3
<1> QED BY <1>1, <1>2, <1>3, <1>4 DEF DictionaryInv

\* What the steps make of the record of a lookup.
LEMMA Onward ==
    ASSUME NEW q, LookupInv(q), NEW pc
    PROVE  LookupInv([q EXCEPT !.pc = pc]) <=>
              /\ pc \in Underway => q.word \in Terms
              /\ pc \in Bought /\ ~q.deaf => q.after = {}
<1> DEFINE p == [q EXCEPT !.pc = pc]
<1>1. p = [pc |-> pc, word |-> q.word, vi |-> q.vi, deaf |-> q.deaf, after |-> q.after]
  BY DEF LookupInv
<1> HIDE DEF p
<1>2. LookupInv(p) <=> /\ pc \in Underway => q.word \in Terms
                       /\ pc \in Bought /\ ~q.deaf => q.after = {}
  BY <1>1 DEF LookupInv
<1> QED BY <1>2 DEF p

LEMMA GuardKeeps ==
    ASSUME DictionaryInv, NEW r \in Lookups, NEW w \in Terms, NEW up \in BOOLEAN, Guard(r, w, up)
    PROVE  DictionaryInv'
<1> DEFINE pc == IF up /\ perWindow' <= MaxPerWindow THEN "quota" ELSE "refused"
           q == [pc |-> pc, word |-> w, vi |-> None, deaf |-> FALSE, after |-> {}]
<1>1. [NewLookup EXCEPT !.word = w, !.pc = pc] = q
  <2> DEFINE p == [NewLookup EXCEPT !.word = w]
             u == NewLookup
             none == {}
             no == FALSE
  <2>1. u = [pc |-> "new", word |-> None, vi |-> None, deaf |-> no, after |-> none]
    BY DEF NewLookup
  <2> HIDE DEF pc, u, none, no
  <2>2. p = [pc |-> "new", word |-> w, vi |-> None, deaf |-> no, after |-> none]
    BY <2>1 DEF u
  <2> HIDE DEF p
  <2>3. [p EXCEPT !.pc = pc] = [pc |-> pc, word |-> w, vi |-> None, deaf |-> no, after |-> none]
    BY <2>2
  <2> QED BY <2>3, Zenon DEF p, none, no
<1>2. Move(r, q) /\ lookup[r].pc = "new"
  BY <1>1, Zenon DEF Guard
<1>3. pc \in {"quota", "refused"}
  OBVIOUS
<1>4. LookupInv(q) /\ ~LetIn(q)
  <2> HIDE DEF pc
  <2> QED BY <1>3 DEF LookupInv, LetIn, Underway, Bought
<1>5. ~LetIn(lookup[r])
  BY <1>2 DEF LetIn
<1> HIDE DEF q
<1> QED BY <1>2, <1>4, <1>5, LookupMoves DEF Guard, Stores

LEMMA SpendKeeps == ASSUME DictionaryInv, NEW r \in Lookups, Spend(r) PROVE DictionaryInv'
<1>1. LookupInv(lookup[r]) /\ lookup[r].pc = "quota" /\ lookup[r].word \in Terms
  BY DEF DictionaryInv, Spend, LookupInv, Underway
<1>2. CASE ~(spent < AiQuota)
  <2> DEFINE q == [lookup[r] EXCEPT !.pc = "refused"]
  <2>1. LookupInv(q)
    BY <1>1, Onward DEF Underway, Bought
  <2>2. q.pc = "refused"
    BY <1>1 DEF LookupInv
  <2>3. Move(r, q) /\ spent' = spent
    BY <1>2 DEF Spend
  <2> HIDE DEF q
  <2> QED BY <1>1, <2>1, <2>2, <2>3, LookupMoves DEF Spend, Stores, LetIn
<1>3. CASE spent < AiQuota
  <2> DEFINE q == [lookup[r] EXCEPT !.pc = "vocabWord"]
             earlier == {x \in Lookups : LetIn(lookup[x])}
  <2>1. LookupInv(q)
    BY <1>1, Onward DEF Underway, Bought
  <2>2. q.pc = "vocabWord"
    BY <1>1 DEF LookupInv
  <2>3. Move(r, q) /\ spent' = spent + 1 /\ UNCHANGED <<redis, settled, translated>>
    BY <1>3 DEF Spend, Stores
  <2> HIDE DEF q
  <2>4. lookup' = [x \in Lookups |-> lookup'[x]] /\ lookup'[r] = q
        /\ \A x \in Lookups \ {r} : lookup'[x] = lookup[x]
    BY <2>3 DEF DictionaryInv, Move
  <2>5. {x \in Lookups : LetIn(lookup'[x])} = earlier \cup {r} /\ r \notin earlier
    BY <1>1, <2>2, <2>4 DEF LetIn
  <2>6. IsFiniteSet(earlier) /\ spent = Cardinality(earlier)
    BY DEF DictionaryInv
  <2> HIDE DEF earlier
  <2>7. /\ IsFiniteSet(earlier \cup {r}) /\ Cardinality(earlier \cup {r}) = spent + 1
        /\ spent \in Nat /\ spent + 1 <= AiQuota
    BY <1>3, <2>5, <2>6, FS_AddElement, FS_CardinalityType, DictionaryAssumption
  <2>8. \A w \in Terms : CachedInv(redis[w], w)'
    <3> SUFFICES ASSUME NEW w \in Terms PROVE CachedInv(redis[w], w)'
      OBVIOUS
    <3> DEFINE entry == redis[w]
    <3>1. CachedInv(entry, w)
      BY DEF DictionaryInv
    <3> HIDE DEF entry
    <3>2. CASE entry = None
      BY <2>3, <3>1, <3>2 DEF CachedInv, entry
    <3>3. CASE entry # None
      <4>1. entry.by \in Lookups /\ entry.by # r
        BY <1>1, <3>1, <3>3 DEF CachedInv, CachedType
      <4>2. lookup'[entry.by] = lookup[entry.by]
        BY <2>4, <4>1
      <4> QED BY <2>3, <3>1, <3>3, <4>2 DEF CachedInv, entry
    <3> QED BY <3>2, <3>3
  <2>9. \A x \in Lookups : LookupInv(lookup'[x])
    BY <2>1, <2>4 DEF DictionaryInv
  <2> QED BY <2>3, <2>4, <2>5, <2>7, <2>8, <2>9 DEF DictionaryInv
<1> QED BY <1>2, <1>3


LEMMA LookupVocabWordKeeps ==
    ASSUME DictionaryInv, NEW r \in Lookups, LookupVocabWord(r) PROVE DictionaryInv'
<1> DEFINE pc == IF lookup[r].word \in vocabWords THEN "curated" ELSE "cache"
           q  == [lookup[r] EXCEPT !.pc = pc]
<1>1. LookupInv(lookup[r]) /\ lookup[r].pc = "vocabWord" /\ lookup[r].word \in Terms
  BY DEF DictionaryInv, LookupVocabWord, LookupInv, Underway
<1>2. Move(r, q)
  BY DEF LookupVocabWord
<1>3. pc \in {"curated", "cache"}
  OBVIOUS
<1> HIDE DEF pc
<1>4. LookupInv(q)
  BY <1>1, <1>3, Onward DEF Underway, Bought
<1>5. q.pc = pc
  BY <1>1 DEF LookupInv
<1>6. LetIn(q) /\ LetIn(lookup[r])
  BY <1>1, <1>3, <1>5 DEF LetIn
<1> HIDE DEF q
<1> QED BY <1>1, <1>2, <1>4, <1>6, LookupMoves DEF LookupVocabWord, Stores

LEMMA ReadCacheKeeps ==
    ASSUME DictionaryInv, NEW r \in Lookups, NEW up \in BOOLEAN, ReadCache(r, up) PROVE DictionaryInv'
<1> DEFINE w == lookup[r].word
           u == lookup[r]
<1>1. LookupInv(u) /\ u.pc = "cache" /\ w \in Terms
  BY DEF DictionaryInv, ReadCache, LookupInv, Underway
<1>2. u = [pc |-> u.pc, word |-> u.word, vi |-> u.vi, deaf |-> u.deaf, after |-> u.after]
  BY <1>1 DEF LookupInv
<1>3. CachedInv(redis[w], w)
  BY <1>1 DEF DictionaryInv
<1>4. UNCHANGED <<spent, redis, settled, translated>>
  BY DEF ReadCache, Stores
<1>5. CASE up /\ redis[w] # None
  <2> DEFINE vi == redis[w].vi
             q  == [pc |-> "cached", word |-> u.word, vi |-> vi, deaf |-> u.deaf, after |-> u.after]
  <2>1. vi \in {None, "translation"}
    BY <1>3, <1>5 DEF CachedInv, CachedType
  <2>2. Move(r, q)
    <3>1. Move(r, [u EXCEPT !.pc = "cached", !.vi = vi])
      BY <1>5 DEF ReadCache
    <3> DEFINE p == [u EXCEPT !.pc = "cached"]
    <3> HIDE DEF u, vi
    <3>2. p = [pc |-> "cached", word |-> u.word, vi |-> u.vi, deaf |-> u.deaf, after |-> u.after]
      BY <1>2
    <3> HIDE DEF p
    <3>3. [p EXCEPT !.vi = vi] = q
      BY <3>2
    <3>4. [u EXCEPT !.pc = "cached", !.vi = vi] = q
      BY <3>3, Zenon DEF p
    <3> QED BY <3>1, <3>4, Zenon
  <2> HIDE DEF u, vi
  <2>3. LookupInv(q) /\ LetIn(q) /\ LetIn(u)
    BY <1>1, <2>1 DEF LookupInv, LetIn, Underway, Bought
  <2> HIDE DEF q
  <2> QED BY <1>1, <1>4, <2>2, <2>3, LookupMoves DEF u
<1>6. CASE ~(up /\ redis[w] # None)
  <2> DEFINE after == {s \in {"settled", "translated"} :
                          w \in IF s = "settled" THEN settled ELSE translated}
             q  == [pc |-> "source", word |-> u.word, vi |-> u.vi, deaf |-> ~up, after |-> after]
  <2>1. up => after = {}
    BY <1>3, <1>6 DEF CachedInv
  <2>2. Move(r, q)
    <3>1. Move(r, [u EXCEPT !.pc = "source", !.deaf = ~up, !.after = after])
      BY <1>6 DEF ReadCache
    <3> DEFINE p == [u EXCEPT !.pc = "source"]
               t == [p EXCEPT !.deaf = ~up]
    <3> HIDE DEF u, after
    <3>2. p = [pc |-> "source", word |-> u.word, vi |-> u.vi, deaf |-> u.deaf, after |-> u.after]
      BY <1>2
    <3> HIDE DEF p
    <3>3. t = [pc |-> "source", word |-> u.word, vi |-> u.vi, deaf |-> ~up, after |-> u.after]
      BY <3>2
    <3> HIDE DEF t
    <3>4. [t EXCEPT !.after = after] = q
      BY <3>3
    <3>5. [u EXCEPT !.pc = "source", !.deaf = ~up, !.after = after] = q
      BY <3>4, Zenon DEF p, t
    <3> QED BY <3>1, <3>5, Zenon
  <2>4. u.vi \in {None, "translation"} /\ u.word \in Terms
    BY <1>1 DEF LookupInv
  <2> HIDE DEF u, after
  <2>3. LookupInv(q) /\ LetIn(q) /\ LetIn(u)
    BY <1>1, <2>1, <2>4 DEF LookupInv, LetIn, Underway, Bought
  <2> HIDE DEF q
  <2> QED BY <1>1, <1>4, <2>2, <2>3, LookupMoves DEF u
<1> QED BY <1>5, <1>6

LEMMA AskSourceKeeps ==
    ASSUME DictionaryInv, NEW r \in Lookups, NEW reply, AskSource(r, reply) PROVE DictionaryInv'
<1> DEFINE pc == CASE sourceOf(reply) = "missing"     -> "not found"
                   [] sourceOf(reply) = "unavailable" -> "failed"
                   [] reply = "undefined"             -> "store"
                   [] OTHER                           -> "translate"
           q  == [lookup[r] EXCEPT !.pc = pc]
<1>1. /\ LookupInv(lookup[r]) /\ lookup[r].pc = "source" /\ lookup[r].word \in Terms
      /\ ~lookup[r].deaf => lookup[r].after = {}
  BY DEF DictionaryInv, AskSource, LookupInv, Underway, Bought
<1>2. Move(r, q)
  BY DEF AskSource
<1>3. pc \in {"not found", "failed", "store", "translate"}
  OBVIOUS
<1> HIDE DEF pc
<1>4. LookupInv(q)
  BY <1>1, <1>3, Onward DEF Underway, Bought
<1>5. q.pc = pc
  BY <1>1 DEF LookupInv
<1>6. LetIn(q) /\ LetIn(lookup[r])
  BY <1>1, <1>3, <1>5 DEF LetIn
<1> HIDE DEF q
<1> QED BY <1>1, <1>2, <1>4, <1>6, LookupMoves DEF AskSource, Stores

LEMMA TranslateKeeps ==
    ASSUME DictionaryInv, NEW r \in Lookups, NEW reply, Translate(r, reply) PROVE DictionaryInv'
<1> DEFINE u  == lookup[r]
           vi == translate(reply)
           q  == [pc |-> "store", word |-> u.word, vi |-> vi, deaf |-> u.deaf, after |-> u.after]
<1>1. LookupInv(u) /\ u.pc = "translate"
  BY DEF DictionaryInv, Translate
<1>2. u = [pc |-> u.pc, word |-> u.word, vi |-> u.vi, deaf |-> u.deaf, after |-> u.after]
  BY <1>1 DEF LookupInv
<1>3. vi \in {None, "translation"}
  BY DEF translate
<1>4. Move(r, [u EXCEPT !.pc = "store", !.vi = vi]) /\ UNCHANGED <<spent, redis, settled, translated>>
  BY DEF Translate, Stores
<1> HIDE DEF u, vi
<1>5. Move(r, q)
  <2> DEFINE p == [u EXCEPT !.pc = "store"]
  <2>1. p = [pc |-> "store", word |-> u.word, vi |-> u.vi, deaf |-> u.deaf, after |-> u.after]
    BY <1>2
  <2> HIDE DEF p
  <2>2. [p EXCEPT !.vi = vi] = q
    BY <2>1
  <2>3. [u EXCEPT !.pc = "store", !.vi = vi] = q
    BY <2>2, Zenon DEF p
  <2> QED BY <1>4, <2>3, Zenon
<1>6. LookupInv(q) /\ LetIn(q) /\ LetIn(u)
  BY <1>1, <1>3 DEF LookupInv, LetIn, Underway, Bought
<1> HIDE DEF q
<1> QED BY <1>1, <1>4, <1>5, <1>6, LookupMoves DEF u

\* What other words have in the cache.
LEMMA OtherCached ==
    ASSUME DictionaryInv, NEW w \in Terms, redis'[w] = redis[w],
           \A r \in Lookups : lookup[r].pc = "answered" => lookup'[r] = lookup[r],
           (w \in settled') = (w \in settled), (w \in translated') = (w \in translated)
    PROVE  CachedInv(redis[w], w)'
<1> DEFINE entry == redis[w]
<1>1. CachedInv(entry, w)
  BY DEF DictionaryInv
<1> HIDE DEF entry
<1>2. CASE entry = None
  BY <1>1, <1>2 DEF CachedInv, entry
<1>3. CASE entry # None
  <2>1. entry.by \in Lookups /\ lookup'[entry.by] = lookup[entry.by]
    BY <1>1, <1>3 DEF CachedInv, CachedType
  <2> QED BY <1>1, <1>3, <2>1 DEF CachedInv, entry
<1> QED BY <1>2, <1>3

LEMMA StoreKeeps ==
    ASSUME DictionaryInv, NEW r \in Lookups, NEW up \in BOOLEAN, Store(r, up) PROVE DictionaryInv'
<1> DEFINE u == lookup[r]
           w == u.word
           q == [u EXCEPT !.pc = "answered"]
           entry == [vi |-> u.vi, by |-> r]
<1>1. LookupInv(u) /\ u.pc = "store" /\ w \in Terms
  BY DEF DictionaryInv, Store, LookupInv, Underway
<1>2. /\ q = [pc |-> "answered", word |-> u.word, vi |-> u.vi, deaf |-> u.deaf, after |-> u.after]
      /\ ~u.deaf => u.after = {}
  BY <1>1 DEF LookupInv, Bought
<1>3. lookup' = [lookup EXCEPT ![r] = q]
  BY DEF Store, Move
<1>4. /\ redis' = IF up THEN [redis EXCEPT ![w] = entry] ELSE redis
      /\ settled' = IF up THEN settled \cup {w} ELSE settled
      /\ translated' = IF up /\ u.vi # None THEN translated \cup {w} ELSE translated
      /\ spent' = spent
  BY DEF Store
<1>5. entry \in CachedType /\ entry.by = r /\ entry.vi = u.vi
  BY <1>1 DEF LookupInv, CachedType
<1>6. entry # None
  BY <1>5, DictionaryAssumption
<1>7. LookupInv(q)
  <2> HIDE DEF u, q
  <2> QED BY <1>1, <1>2 DEF LookupInv, Underway, Bought
<1>8. q.pc = "answered" /\ q.deaf = u.deaf /\ q.after = u.after
  BY <1>2
<1> HIDE DEF q, entry, u, w
<1>9. lookup' = [x \in Lookups |-> lookup'[x]] /\ lookup'[r] = q
      /\ \A x \in Lookups \ {r} : lookup'[x] = lookup[x]
  BY <1>3 DEF DictionaryInv
<1>10. \A x \in Lookups : LookupInv(lookup'[x])
  BY <1>7, <1>9 DEF DictionaryInv
<1>11. {x \in Lookups : LetIn(lookup'[x])} = {x \in Lookups : LetIn(lookup[x])}
  BY <1>1, <1>8, <1>9 DEF LetIn, u
<1>12. \A x \in Lookups : lookup[x].pc = "answered" => lookup'[x] = lookup[x]
  BY <1>1, <1>9 DEF u
<1>13. \A x \in Terms : CachedInv(redis[x], x)'
  <2> SUFFICES ASSUME NEW x \in Terms PROVE CachedInv(redis[x], x)'
    OBVIOUS
  <2>1. CASE x = w /\ up
    <3>1. redis'[x] = entry /\ x \in settled'
      BY <1>1, <1>4, <2>1 DEF DictionaryInv
    <3>2. entry.vi # None \/ lookup'[entry.by].deaf \/ lookup'[entry.by].after = {}
      BY <1>2, <1>5, <1>8, <1>9
    <3>3. lookup'[entry.by].pc = "answered"
      BY <1>5, <1>8, <1>9
    <3> QED BY <1>5, <1>6, <3>1, <3>2, <3>3 DEF CachedInv
  <2>2. CASE ~(x = w /\ up)
    <3>1. redis'[x] = redis[x] /\ (x \in settled') = (x \in settled)
          /\ (x \in translated') = (x \in translated)
      BY <1>4, <2>2 DEF DictionaryInv
    <3> QED BY <1>12, <3>1, OtherCached
  <2> QED BY <2>1, <2>2
<1>14. redis' = [x \in Terms |-> redis'[x]] /\ settled' \subseteq Terms /\ translated' \subseteq Terms
  BY <1>1, <1>4 DEF DictionaryInv
<1> QED BY <1>4, <1>9, <1>10, <1>11, <1>13, <1>14 DEF DictionaryInv

LEMMA ExpireKeeps == ASSUME DictionaryInv, NEW w \in Terms, Expire(w) PROVE DictionaryInv'
<1>1. /\ redis' = [redis EXCEPT ![w] = None] /\ settled' = settled \ {w}
      /\ translated' = translated \ {w} /\ lookup' = lookup /\ spent' = spent
  BY DEF Expire
<1>2. \A x \in Terms : CachedInv(redis[x], x)'
  <2> SUFFICES ASSUME NEW x \in Terms PROVE CachedInv(redis[x], x)'
    OBVIOUS
  <2>1. CASE x = w
    BY <1>1, <2>1 DEF CachedInv, DictionaryInv
  <2>2. CASE x # w
    <3>1. redis'[x] = redis[x] /\ (x \in settled') = (x \in settled)
          /\ (x \in translated') = (x \in translated)
      BY <1>1, <2>2 DEF DictionaryInv
    <3> QED BY <1>1, <3>1, OtherCached
  <2> QED BY <2>1, <2>2
<1>3. redis' = [x \in Terms |-> redis'[x]] /\ settled' \subseteq Terms /\ translated' \subseteq Terms
  BY <1>1 DEF DictionaryInv
<1> QED BY <1>1, <1>2, <1>3 DEF DictionaryInv

LEMMA CacheAside ==
    ASSUME DictionaryInv, UNCHANGED <<spent, redis, settled, translated, lookup>> PROVE DictionaryInv'
  BY DEF DictionaryInv, CachedInv

LEMMA DictionaryKeeps == DictionaryInv /\ [DictionaryNext]_dictionaryVars => DictionaryInv'
<1> SUFFICES ASSUME DictionaryInv, [DictionaryNext]_dictionaryVars PROVE DictionaryInv'
  OBVIOUS
<1>1. CASE UNCHANGED dictionaryVars
  BY <1>1, CacheAside DEF dictionaryVars
<1>2. CASE NextWindow
  BY <1>2, CacheAside DEF NextWindow, Stores
<1>3. ASSUME NEW w \in Terms, Curate(w) PROVE DictionaryInv'
  BY <1>3, CacheAside DEF Curate, Stores
<1>4. ASSUME NEW w \in Terms, Expire(w) PROVE DictionaryInv'
  BY <1>4, ExpireKeeps
<1>5. ASSUME NEW r \in Lookups, Spend(r) \/ LookupVocabWord(r) PROVE DictionaryInv'
  BY <1>5, SpendKeeps, LookupVocabWordKeeps
<1>6. ASSUME NEW r \in Lookups, NEW w \in Terms, NEW up \in BOOLEAN, Guard(r, w, up) PROVE DictionaryInv'
  BY <1>6, GuardKeeps
<1>7. ASSUME NEW r \in Lookups, NEW up \in BOOLEAN, ReadCache(r, up) \/ Store(r, up) PROVE DictionaryInv'
  BY <1>7, ReadCacheKeeps, StoreKeeps
<1>8. ASSUME NEW r \in Lookups, NEW reply, AskSource(r, reply) \/ Translate(r, reply)
      PROVE  DictionaryInv'
  BY <1>8, AskSourceKeeps, TranslateKeeps
<1> QED BY <1>1, <1>2, <1>3, <1>4, <1>5, <1>6, <1>7, <1>8 DEF DictionaryNext

LEMMA DictionaryTells == DictionaryInv => DictionarySound
<1> SUFFICES ASSUME DictionaryInv PROVE DictionarySound
  OBVIOUS
<1>1. BoughtOnce
  <2> SUFFICES ASSUME NEW r \in Lookups, Asked(r), ~lookup[r].deaf PROVE "settled" \notin lookup[r].after
    BY DEF BoughtOnce
  <2>1. lookup[r].after = {}
    BY DEF DictionaryInv, LookupInv, Asked, Bought
  <2> QED BY <2>1
<1>2. TranslationKept
  <2> SUFFICES ASSUME NEW w \in translated
               PROVE  \/ redis[w].vi # None
                      \/ lookup[redis[w].by].deaf \/ "translated" \notin lookup[redis[w].by].after
    BY DEF TranslationKept
  <2>1. CachedInv(redis[w], w)
    BY DEF DictionaryInv
  <2> QED BY <2>1 DEF CachedInv
<1>3. ChargedOnce
  BY DEF DictionaryInv, ChargedOnce, LetIn
<1>4. OnlyTranslations
  BY DEF DictionaryInv, OnlyTranslations, CachedInv, CachedType
<1> QED BY <1>1, <1>2, <1>3, <1>4 DEF DictionarySound

(* For any number of lookups and words: what was looked up and stored is   *)
(* not bought again, no translation is lost but to a lookup that overlapped *)
(* or could not read the cache, every lookup let in is charged once, and   *)
(* nothing is shown as a translation but a translation                     *)
(* (DictionaryService.lookup, UsageService.consume).                       *)
THEOREM DictionaryAlwaysSound == DictionarySpec => []DictionarySound
<1>1. DictionaryInv /\ [DictionaryNext]_dictionaryVars => DictionaryInv'
  BY DictionaryKeeps
<1> QED BY <1>1, DictionaryInitial, DictionaryTells, PTL DEF DictionarySpec

-----------------------------------------------------------------------------
(* An editor's request: a deck it looked at is still as it saw it, or the  *)
(* request counts as outdated; and what it counted then allows its write.  *)
DeskShape(q) ==
    q = [pc |-> q.pc, call |-> q.call, seen |-> q.seen, at |-> q.at, texts |-> q.texts]

\* the words of an attach that a deck with these rows does not hold
Missing(call, words) == call.words \ {a.word : a \in words}
Fits(call, words) == Cardinality(words) + Cardinality(Missing(call, words)) <= MaxDeckSize

\* seen is the deck's row, if one was looked at
DeskSaw(r, q, late, decks) ==
    /\ q.seen \in DeckType /\ IsFiniteSet(q.seen.words)
    /\ q.pc \in {"count", "position", "write"} /\ q.call.op \in {"attach", "detach", "publish"}
    /\ r \notin late => decks[q.call.deck] = q.seen

\* what its guards have found out about the deck they saw
DeskGuarded(q) ==
    /\ q.pc \in {"position", "write"} /\ q.call.op = "attach" => Fits(q.call, q.seen.words)
    /\ q.pc = "write" /\ q.call.op = "attach" => \A a \in q.seen.words : a.at < q.at
    /\ q.pc = "write" /\ q.call.op = "detach" /\ q.seen.on => Cardinality(q.seen.words) >= 2
    /\ q.pc = "write" /\ q.call.op = "publish" => q.seen.words # {}

DeskSound(r, q, late, decks) ==
    /\ DeskShape(q)
    /\ q.pc \in {"find", "count", "position", "write"} => q.call \in DeskCalls
    /\ q.pc = "write" /\ q.call.op \in {"attach", "create"} => q.at \in Nat
    /\ \/ q.pc = "count" /\ q.call.op \in {"attach", "detach"}
       \/ q.pc = "position" /\ q.call.op = "attach"
       \/ q.pc = "write" /\ q.call.op \in {"attach", "detach", "publish"}
       => q.seen # None
    /\ q.pc = "position" => q.call.op \in {"attach", "create"}
    /\ q.seen # None => DeskSaw(r, q, late, decks)
    /\ q.seen # None /\ r \notin late => DeskGuarded(q)

(* A deck is published with a word, within its cap, one word to a place,   *)
(* unless such a request has written it.                                   *)
DeckKept(d, row, drift) ==
    d \notin drift => /\ row.on => row.words # {}
                      /\ Cardinality(row.words) <= MaxDeckSize
                      /\ \A a, b \in row.words : a.at = b.at => a = b

\* one row for a word
RowPerWord(rows) == \A a, b \in rows : a.word = b.word => a = b

DeckSound(d, row, drift) ==
    row \in DeckType /\ IsFiniteSet(row.words) /\ RowPerWord(row.words) /\ DeckKept(d, row, drift)

ShelvesSound(decks, drift) ==
    /\ decks \in [Decks -> DeckType \cup {None}]
    /\ \A d \in Decks : decks[d] # None => DeckSound(d, decks[d], drift)

\* What stands in a deck is in the bank.
ShelvedInBank(decks, bank) ==
    \A d \in Decks : decks[d] # None => \A a \in decks[d].words : bank[a.word] # None

DesksSound(desks, late, decks) ==
    /\ desks = [r \in DeckRequests |-> desks[r]]
    /\ \A r \in DeckRequests : DeskSound(r, desks[r], late, decks)

BankRows(bank) == bank = [w \in Words |-> bank[w]]

TextsDistinct(bank, alone) ==
    \A v, w \in Words : v # w /\ bank[v] # None /\ bank[v] = bank[w] => {v, w} \cap alone # {}

ProgressThere(pairs, seen, decks, bank) ==
    /\ \A pair \in pairs : /\ pair \in Decks \X Words
                           /\ decks[pair[1]] # None /\ bank[pair[2]] # None
    /\ \A w \in seen : w \in Words /\ bank[w] # None

DecksInv ==
    /\ ShelvesSound(deckRow, drifted)
    /\ ShelvedInBank(deckRow, wordRow)
    /\ BankRows(wordRow)
    /\ DesksSound(desk, outdated, deckRow)
    /\ TextsDistinct(wordRow, unmatched)
    /\ ProgressThere(learned, studied, deckRow, wordRow)

-----------------------------------------------------------------------------
\* Of finitely many rows one has the highest place.
LEMMA HighestPlace ==
    ASSUME NEW S, IsFiniteSet(S), S # {}, \A x \in S : x.at \in Nat
    PROVE  \E x \in S : \A y \in S : y.at <= x.at
<1> DEFINE Tops(T) == {x \in T : \A y \in T : y.at <= x.at}
           Sizes == {n \in Nat : \E T \in SUBSET S : T # {} /\ Cardinality(T) = n /\ Tops(T) = {}}
<1> SUFFICES ASSUME Tops(S) = {} PROVE FALSE
  OBVIOUS
<1>1. Cardinality(S) \in Sizes
  BY FS_CardinalityType
<1>2. PICK n \in Sizes : \A m \in Sizes : ~(m < n)
  <2>1. PICK n \in Sizes : \A m \in Sizes : ~(<<m, n>> \in OpToRel(<, Nat))
    BY <1>1, NatLessThanWellFounded, WFMin
  <2> QED BY <2>1 DEF OpToRel
<1>3. n \in Nat /\ \E T \in SUBSET S : T # {} /\ Cardinality(T) = n /\ Tops(T) = {}
  BY <1>2
<1>0. PICK T \in SUBSET S : T # {} /\ Cardinality(T) = n /\ Tops(T) = {}
  BY <1>3
<1>4. PICK x \in T : TRUE
  BY <1>0
<1> DEFINE U == T \ {x}
<1>5. IsFiniteSet(T) /\ IsFiniteSet(U) /\ Cardinality(U) = n - 1 /\ Cardinality(U) \in Nat
  BY <1>0, <1>4, FS_Subset, FS_RemoveElement, FS_CardinalityType
<1>6. U # {}
  BY <1>0, <1>4
<1>7. Tops(U) # {}
  <2> SUFFICES ASSUME Tops(U) = {} PROVE FALSE
    OBVIOUS
  <2>1. U \in SUBSET S
    BY <1>0
  <2> HIDE DEF U, Tops
  <2>2. Cardinality(U) \in Sizes
    BY <2>1, <1>5, <1>6
  <2> HIDE DEF Sizes
  <2>3. n \in Nat
    BY <1>3
  <2> QED BY <2>2, <2>3, <1>2, <1>5
<1>8. PICK m \in U : \A y \in U : y.at <= m.at
  BY <1>7
<1>9. m.at \in Nat /\ x.at \in Nat
  BY <1>0, <1>4, <1>8
<1>10. CASE x.at <= m.at
  <2>1. m \in Tops(T)
    BY <1>8, <1>10
  <2> QED BY <2>1, <1>0
<1>11. CASE ~(x.at <= m.at)
  <2>1. ASSUME NEW y \in T PROVE y.at <= x.at
    <3>1. y.at \in Nat /\ (y = x \/ y.at <= m.at)
      BY <1>0, <1>8
    <3> QED BY <3>1, <1>9, <1>11
  <2> QED BY <2>1, <1>0, <1>4
<1> QED BY <1>10, <1>11

\* The next position is above every row's.
LEMMA NextIndexAbove ==
    ASSUME NEW S, IsFiniteSet(S), \A x \in S : x.at \in Nat
    PROVE  nextIndex(S) \in Nat /\ \A x \in S : x.at < nextIndex(S)
<1>1. CASE S = {}
  BY <1>1 DEF nextIndex
<1>2. CASE S # {}
  <2> DEFINE top == CHOOSE n \in {x.at : x \in S} : \A x \in S : x.at <= n
  <2>1. \E n \in {x.at : x \in S} : \A x \in S : x.at <= n
    BY <1>2, HighestPlace
  <2>2. top \in {x.at : x \in S} /\ \A x \in S : x.at <= top
    BY <2>1
  <2>3. nextIndex(S) = 1 + top
    BY <1>2 DEF nextIndex
  <2> HIDE DEF top
  <2>4. top \in Nat
    BY <2>2
  <2> QED BY <2>2, <2>3, <2>4
<1> QED BY <1>1, <1>2

\* A request that is answered has nothing in hand.
LEMMA DeskAnswered ==
    ASSUME NEW r, NEW late, NEW decks, NEW reply, reply \notin {"find", "count", "position", "write"}
    PROVE  DeskSound(r, [NewRequest EXCEPT !.pc = reply], late, decks)
  BY DEF DeskSound, DeskShape, NewRequest

\* A request takes a step that writes no deck.
LEMMA DeskAside ==
    ASSUME NEW desks, NEW late, NEW decks, DesksSound(desks, late, decks),
           NEW r \in DeckRequests, NEW q, DeskSound(r, q, late, decks),
           NEW desks2, desks2 = [desks EXCEPT ![r] = q]
    PROVE  DesksSound(desks2, late, decks)
<1>1. desks2 = [x \in DeckRequests |-> IF x = r THEN q ELSE desks[x]]
  BY DEF DesksSound
<1>2. \A x \in DeckRequests : DeskSound(x, desks2[x], late, decks)
  BY <1>1 DEF DesksSound
<1>3. desks2 = [x \in DeckRequests |-> desks2[x]]
  BY <1>1
<1> QED BY <1>2, <1>3 DEF DesksSound

\* A deck is written: whoever has looked at it is outdated.
LEMMA DeskOutdated ==
    ASSUME NEW x, NEW q, NEW late, NEW decks, DeskSound(x, q, late, decks),
           decks = [d \in Decks |-> decks[d]],
           NEW d \in Decks, NEW row, NEW late2, late \subseteq late2,
           q.seen # None /\ q.call.deck = d => x \in late2
    PROVE  DeskSound(x, q, late2, [decks EXCEPT ![d] = row])
<1> DEFINE decks2 == [decks EXCEPT ![d] = row]
<1>1. ASSUME q.seen # None PROVE DeskSaw(x, q, late2, decks2)
  <2>1. DeskSaw(x, q, late, decks)
    BY <1>1 DEF DeskSound
  <2>2. ASSUME x \notin late2 PROVE decks2[q.call.deck] = q.seen
    <3>1. decks[q.call.deck] = q.seen /\ q.call.deck # d
      BY <1>1, <2>1, <2>2 DEF DeskSaw
    <3>2. q.call.deck \in Decks
      BY <2>1, <1>1, DeckAssumption DEF DeskSound, DeskSaw
    <3> QED BY <3>1, <3>2
  <2> QED BY <2>1, <2>2 DEF DeskSaw
<1> HIDE DEF decks2
<1>2. DeskSound(x, q, late2, decks2)
  BY <1>1 DEF DeskSound
<1> QED BY <1>2 DEF decks2

LEMMA DesksOutdated ==
    ASSUME NEW desks, NEW late, NEW decks, DesksSound(desks, late, decks),
           decks = [d \in Decks |-> decks[d]],
           NEW r \in DeckRequests, NEW d \in Decks, NEW row, NEW late2, NEW desks2, NEW reply,
           reply \notin {"find", "count", "position", "write"},
           late2 = late \cup {x \in DeckRequests \ {r} : desks[x].seen # None /\ desks[x].call.deck = d},
           desks2 = [desks EXCEPT ![r] = [NewRequest EXCEPT !.pc = reply]]
    PROVE  DesksSound(desks2, late2, [decks EXCEPT ![d] = row])
<1> DEFINE decks2 == [decks EXCEPT ![d] = row]
           replied == [NewRequest EXCEPT !.pc = reply]
<1>1. DeskSound(r, replied, late2, decks2)
  BY DeskAnswered
<1>2. \A x \in DeckRequests \ {r} : DeskSound(x, desks[x], late2, decks2)
  <2> TAKE x \in DeckRequests \ {r}
  <2>1. DeskSound(x, desks[x], late, decks)
    BY DEF DesksSound
  <2> QED BY <2>1, DeskOutdated
<1> HIDE DEF decks2, replied
<1>3. desks2 = [x \in DeckRequests |-> IF x = r THEN replied ELSE desks[x]]
  BY DEF DesksSound, replied
<1>4. DesksSound(desks2, late2, decks2)
  BY <1>1, <1>2, <1>3 DEF DesksSound
<1> QED BY <1>4 DEF decks2

-----------------------------------------------------------------------------
DeskRow(pc, call, seen, at, texts) ==
    [pc |-> pc, call |-> call, seen |-> seen, at |-> at, texts |-> texts]

LEMMA DeskRowShape ==
    ASSUME NEW pc, NEW call, NEW seen, NEW at, NEW texts
    PROVE  LET q == DeskRow(pc, call, seen, at, texts)
           IN  /\ DeskShape(q) /\ q.pc = pc /\ q.call = call /\ q.seen = seen
               /\ q.at = at /\ q.texts = texts
  BY DEF DeskRow, DeskShape

\* What a step makes of the request it goes on with.
LEMMA DeskMoves ==
    ASSUME NEW q, DeskShape(q), NEW pc, NEW x
    PROVE  /\ [q EXCEPT !.pc = pc] = DeskRow(pc, q.call, q.seen, q.at, q.texts)
           /\ [q EXCEPT !.pc = pc, !.call = x] = DeskRow(pc, x, q.seen, q.at, q.texts)
           /\ [q EXCEPT !.pc = pc, !.seen = x] = DeskRow(pc, q.call, x, q.at, q.texts)
           /\ [q EXCEPT !.pc = pc, !.at = x] = DeskRow(pc, q.call, q.seen, x, q.texts)
           /\ [q EXCEPT !.texts = x] = DeskRow(q.pc, q.call, q.seen, q.at, x)
<1> DEFINE old == DeskRow(q.pc, q.call, q.seen, q.at, q.texts)
           moved == DeskRow(pc, q.call, q.seen, q.at, q.texts)
<1>1. q = old
  BY DEF DeskShape, DeskRow
<1>2. /\ [old EXCEPT !.pc = pc] = moved
      /\ [old EXCEPT !.texts = x] = DeskRow(q.pc, q.call, q.seen, q.at, x)
  BY DEF DeskRow
<1>3. /\ [moved EXCEPT !.call = x] = DeskRow(pc, x, q.seen, q.at, q.texts)
      /\ [moved EXCEPT !.seen = x] = DeskRow(pc, q.call, x, q.at, q.texts)
      /\ [moved EXCEPT !.at = x] = DeskRow(pc, q.call, q.seen, x, q.texts)
  BY DEF DeskRow
<1> HIDE DEF old, moved
<1>4. /\ [q EXCEPT !.pc = pc] = moved
      /\ [q EXCEPT !.texts = x] = DeskRow(q.pc, q.call, q.seen, q.at, x)
      /\ [q EXCEPT !.pc = pc, !.call = x] = [moved EXCEPT !.call = x]
      /\ [q EXCEPT !.pc = pc, !.seen = x] = [moved EXCEPT !.seen = x]
      /\ [q EXCEPT !.pc = pc, !.at = x] = [moved EXCEPT !.at = x]
  BY <1>1, <1>2
<1> QED BY <1>3, <1>4 DEF moved

LEMMA DecksInitial == DecksInit => DecksInv
<1> SUFFICES ASSUME DecksInit PROVE DecksInv
  OBVIOUS
<1>1. ShelvesSound(deckRow, drifted)
  <2>1. \A d \in Decks : FirstDecks[d] # None => DeckSound(d, FirstDecks[d], {})
    BY DeckAssumption DEF DeckSound, DeckKept, RowPerWord, FirstShelf
  <2> QED BY <2>1, DeckAssumption DEF DecksInit, ShelvesSound
<1>2. ShelvedInBank(deckRow, wordRow)
  BY DeckAssumption DEF DecksInit, ShelvedInBank, FirstShelf
<1>3. BankRows(wordRow)
  BY DeckAssumption DEF DecksInit, BankRows
<1>4. DesksSound(desk, outdated, deckRow)
  <2>1. \A r \in DeckRequests : DeskSound(r, NewRequest, {}, FirstDecks)
    BY DEF DeskSound, DeskShape, NewRequest
  <2> QED BY <2>1 DEF DecksInit, DesksSound
<1>5. TextsDistinct(wordRow, unmatched)
  BY DeckAssumption DEF DecksInit, TextsDistinct
<1>6. ProgressThere(learned, studied, deckRow, wordRow)
  BY DEF DecksInit, ProgressThere
<1> QED BY <1>1, <1>2, <1>3, <1>4, <1>5, <1>6 DEF DecksInv

\* Steps that change a request and no row.
LEMMA DeskOnly ==
    ASSUME DecksInv, NEW r \in DeckRequests, NEW q, DeskSound(r, q, outdated, deckRow),
           desk' = [desk EXCEPT ![r] = q], rowsKept
    PROVE  DecksInv'
<1>1. DesksSound(desk', outdated, deckRow)
  BY DeskAside DEF DecksInv
<1> QED BY <1>1 DEF DecksInv, rowsKept

LEMMA DeskEnds ==
    ASSUME DecksInv, NEW r \in DeckRequests, NEW reply, ends(r, reply), rowsKept,
           reply \notin {"find", "count", "position", "write"}
    PROVE  DecksInv'
<1>1. DeskSound(r, [NewRequest EXCEPT !.pc = reply], outdated, deckRow)
  BY DeskAnswered
<1> QED BY <1>1, DeskOnly DEF ends

LEMMA CallKeeps == ASSUME DecksInv, NEW r \in DeckRequests, NEW call \in DeskCalls, Call(r, call)
                   PROVE  DecksInv'
<1> DEFINE q == [desk[r] EXCEPT !.pc = "find", !.call = call]
<1>1. DeskSound(r, desk[r], outdated, deckRow)
  BY DEF DecksInv, DesksSound
<1>2. desk[r].seen = None /\ DeskShape(desk[r])
  BY <1>1 DEF DeskSound, DeskSaw, Call
<1>3. \E at, texts : q = DeskRow("find", call, None, at, texts)
  <2> DEFINE s == desk[r]
  <2>1. s.seen = None /\ DeskShape(s)
    BY <1>2
  <2> HIDE DEF s
  <2>2. \A pc, x : [s EXCEPT !.pc = pc, !.call = x] = DeskRow(pc, x, None, s.at, s.texts)
    BY <2>1, DeskMoves, Zenon
  <2> QED BY <2>2 DEF s
<1>4. desk' = [desk EXCEPT ![r] = q] /\ rowsKept
  BY DEF Call
<1> HIDE DEF q
<1>5. DeskShape(q) /\ q.pc = "find" /\ q.call = call /\ q.seen = None
  BY <1>3, DeskRowShape
<1>6. DeskSound(r, q, outdated, deckRow)
  BY <1>5 DEF DeskSound
<1> QED BY <1>4, <1>6, DeskOnly

\* A request looks at a deck that is there.
LEMMA LooksSound ==
    ASSUME NEW r \in DeckRequests, NEW q, NEW pc, DeskShape(q), q.call \in DeskCalls,
           q.call.op \in {"attach", "detach", "publish"}, pc \in {"count", "write"},
           ShelvesSound(deckRow, drifted), deckThere(q.call.deck),
           pc = "write" /\ q.call.op = "detach" => ~deckRow[q.call.deck].on,
           pc = "write" /\ q.call.op = "publish" => deckRow[q.call.deck].words # {},
           pc = "write" => q.call.op # "attach"
    PROVE  DeskSound(r, [q EXCEPT !.pc = pc, !.seen = deckRow[q.call.deck]], outdated, deckRow)
<1> DEFINE d == q.call.deck
           row == deckRow[d]
           p == [q EXCEPT !.pc = pc, !.seen = row]
<1>1. d \in Decks /\ row # None
  BY DeckAssumption DEF deckThere
<1>2. row \in DeckType /\ IsFiniteSet(row.words)
  BY <1>1 DEF ShelvesSound, DeckSound
<1>3. p = DeskRow(pc, q.call, row, q.at, q.texts)
  BY DeskMoves, Zenon
<1> HIDE DEF p
<1>4. DeskShape(p) /\ p.pc = pc /\ p.call = q.call /\ p.seen = row
  BY <1>3, DeskRowShape
<1>5. DeskSaw(r, p, outdated, deckRow)
  BY <1>2, <1>4 DEF DeskSaw
<1>6. DeskGuarded(p)
  BY <1>4 DEF DeskGuarded
<1>7. DeskSound(r, p, outdated, deckRow)
  BY <1>1, <1>4, <1>5, <1>6 DEF DeskSound
<1> QED BY <1>7 DEF p

-----------------------------------------------------------------------------
\* A request goes on with nothing learned.
LEMMA GoesOn ==
    ASSUME DecksInv, NEW r \in DeckRequests, NEW pc, pc \in {"count", "position", "write"},
           desk[r].pc = "find", goes(r, pc), rowsKept,
           IF pc = "position" THEN desk[r].call.op = "create"
           ELSE desk[r].call.op \notin {"attach", "detach", "create"},
           pc = "write" => desk[r].call.op # "publish", desk[r].call.op # "attach"
    PROVE  DecksInv'
<1> DEFINE s == desk[r]
           q == [s EXCEPT !.pc = pc]
<1>1. DeskSound(r, s, outdated, deckRow) /\ s.pc = "find"
  BY DEF DecksInv, DesksSound
<1>2. desk' = [desk EXCEPT ![r] = q]
  BY DEF goes
<1>3. IF pc = "position" THEN s.call.op = "create" ELSE s.call.op \notin {"attach", "detach", "create"}
  OBVIOUS
<1>4. (pc = "write" => s.call.op # "publish") /\ s.call.op # "attach"
  OBVIOUS
<1> HIDE DEF s
<1>5. s.seen = None /\ DeskShape(s) /\ s.call \in DeskCalls
  BY <1>1 DEF DeskSound, DeskSaw
<1>6. q = DeskRow(pc, s.call, None, s.at, s.texts)
  BY <1>5, DeskMoves, Zenon
<1> HIDE DEF q
<1>7. DeskShape(q) /\ q.pc = pc /\ q.call = s.call /\ q.seen = None
  BY <1>6, DeskRowShape
<1>8. DeskSound(r, q, outdated, deckRow)
  BY <1>3, <1>4, <1>5, <1>7 DEF DeskSound
<1> QED BY <1>2, <1>8, DeskOnly

LEMMA LooksKeeps ==
    ASSUME DecksInv, NEW r \in DeckRequests, NEW pc, NEW d, d = desk[r].call.deck,
           looksAt(r, d, pc), rowsKept, deckThere(d),
           desk[r].pc \in {"find", "count"}, desk[r].call.op \in {"attach", "detach", "publish"},
           pc \in {"count", "write"},
           pc = "write" /\ desk[r].call.op = "detach" => ~deckRow[d].on,
           pc = "write" /\ desk[r].call.op = "publish" => deckRow[d].words # {},
           pc = "write" => desk[r].call.op # "attach"
    PROVE  DecksInv'
<1> DEFINE s == desk[r]
           q == [s EXCEPT !.pc = pc, !.seen = deckRow[s.call.deck]]
<1>1. DeskSound(r, s, outdated, deckRow) /\ ShelvesSound(deckRow, drifted)
  BY DEF DecksInv, DesksSound
<1>2. DeskShape(s) /\ s.call \in DeskCalls
  BY <1>1 DEF DeskSound
<1>3. desk' = [desk EXCEPT ![r] = q]
  BY DEF looksAt
<1>4. /\ deckThere(s.call.deck) /\ s.call.op \in {"attach", "detach", "publish"}
      /\ pc = "write" /\ s.call.op = "detach" => ~deckRow[s.call.deck].on
      /\ pc = "write" /\ s.call.op = "publish" => deckRow[s.call.deck].words # {}
      /\ pc = "write" => s.call.op # "attach"
  OBVIOUS
<1> HIDE DEF s
<1>5. DeskSound(r, q, outdated, deckRow)
  BY <1>1, <1>2, <1>4, LooksSound
<1> QED BY <1>3, <1>5, DeskOnly

LEMMA FindKeeps == ASSUME DecksInv, NEW r \in DeckRequests, Find(r) PROVE DecksInv'
<1> DEFINE call == desk[r].call
<1>1. desk[r].pc = "find" /\ rowsKept
  BY DEF Find
<1>2. CASE ends(r, "refused") \/ ends(r, "done")
  BY <1>1, <1>2, DeskEnds
<1>3. CASE /\ call.op \in {"attach", "detach"} /\ deckThere(call.deck)
           /\ \/ looksAt(r, call.deck, "count")
              \/ call.op = "detach" /\ ~deckRow[call.deck].on /\ looksAt(r, call.deck, "write")
  <2>1. CASE looksAt(r, call.deck, "count")
    BY <1>1, <1>3, <2>1, LooksKeeps
  <2>2. CASE call.op = "detach" /\ ~deckRow[call.deck].on /\ looksAt(r, call.deck, "write")
    BY <1>1, <1>3, <2>2, LooksKeeps
  <2> QED BY <1>3, <2>1, <2>2
<1>4. CASE call.op \notin {"attach", "detach", "publish", "create"} /\ (goes(r, "count") \/ goes(r, "write"))
  BY <1>1, <1>4, GoesOn
<1>5. CASE call.op = "publish" /\ goes(r, "count")
  BY <1>1, <1>5, GoesOn
<1>6. CASE call.op = "create" /\ goes(r, "position")
  BY <1>1, <1>6, GoesOn
<1>7. \/ ends(r, "refused") \/ ends(r, "done")
      \/ /\ call.op \in {"attach", "detach"} /\ deckThere(call.deck)
         /\ \/ looksAt(r, call.deck, "count")
            \/ call.op = "detach" /\ ~deckRow[call.deck].on /\ looksAt(r, call.deck, "write")
      \/ call.op \notin {"attach", "detach", "publish", "create"} /\ (goes(r, "count") \/ goes(r, "write"))
      \/ call.op = "publish" /\ goes(r, "count")
      \/ call.op = "create" /\ goes(r, "position")
  BY ZenonT(60) DEF Find
<1> QED BY <1>2, <1>3, <1>4, <1>5, <1>6, <1>7

LEMMA CountUsesKeeps == ASSUME DecksInv, NEW r \in DeckRequests, CountUses(r) PROVE DecksInv'
<1> DEFINE s == desk[r]
           q == [s EXCEPT !.pc = "write"]
<1>1. rowsKept /\ s.pc = "count" /\ s.call.op = "removeWord"
  BY DEF CountUses, calling
<1>2. CASE ends(r, "refused")
  BY <1>1, <1>2, DeskEnds
<1>3. CASE desk' = [desk EXCEPT ![r] = q]
  <2>1. DeskSound(r, s, outdated, deckRow)
    BY DEF DecksInv, DesksSound
  <2> HIDE DEF s
  <2>2. s.seen = None /\ DeskShape(s) /\ s.call \in DeskCalls
    BY <1>1, <2>1 DEF DeskSound, DeskSaw
  <2>3. q = DeskRow("write", s.call, None, s.at, s.texts)
    BY <2>2, DeskMoves, Zenon
  <2> HIDE DEF q
  <2>4. DeskShape(q) /\ q.pc = "write" /\ q.call = s.call /\ q.seen = None
    BY <2>3, DeskRowShape
  <2>5. DeskSound(r, q, outdated, deckRow)
    BY <1>1, <2>2, <2>4 DEF DeskSound
  <2> QED BY <1>1, <1>3, <2>5, DeskOnly
<1> QED BY <1>2, <1>3 DEF CountUses, goes

LEMMA ReadBankKeeps == ASSUME DecksInv, NEW r \in DeckRequests, ReadBank(r) PROVE DecksInv'
<1> DEFINE s == desk[r]
           texts == s.call.texts \ bankTexts
           q == [s EXCEPT !.texts = texts]
<1>1. rowsKept /\ s.pc = "write" /\ s.call.op = "csv"
  BY DEF ReadBank, calling
<1>2. CASE ends(r, "refused") \/ ends(r, "done")
  BY <1>1, <1>2, DeskEnds
<1>3. CASE desk' = [desk EXCEPT ![r] = q]
  <2>1. DeskSound(r, s, outdated, deckRow)
    BY DEF DecksInv, DesksSound
  <2> HIDE DEF s, texts
  <2>2. s.seen = None /\ DeskShape(s) /\ s.call \in DeskCalls
    BY <1>1, <2>1 DEF DeskSound, DeskSaw
  <2>3. q = DeskRow(s.pc, s.call, s.seen, s.at, texts)
    BY <2>2, DeskMoves, Zenon
  <2> HIDE DEF q
  <2>4. DeskShape(q) /\ q.pc = "write" /\ q.call = s.call /\ q.seen = None
    BY <1>1, <2>2, <2>3, DeskRowShape
  <2>5. DeskSound(r, q, outdated, deckRow)
    BY <1>1, <2>2, <2>4 DEF DeskSound
  <2> QED BY <1>1, <1>3, <2>5, DeskOnly
<1> QED BY <1>2, <1>3 DEF ReadBank

-----------------------------------------------------------------------------
\* A request goes on with the deck it has seen.
LEMMA GoesOnSeeing ==
    ASSUME DecksInv, NEW r \in DeckRequests, NEW q, DeskShape(q),
           NEW s, s = desk[r], q.call = s.call, q.seen = s.seen, s.seen # None,
           q.pc \in {"position", "write"},
           q.call.op \in {"attach", "detach", "publish"}, q.pc = "position" => q.call.op = "attach",
           s.pc \in {"find", "count", "position"},
           q.pc = "write" /\ q.call.op = "attach" => q.at \in Nat,
           r \notin outdated => DeskGuarded(q),
           desk' = [desk EXCEPT ![r] = q], rowsKept
    PROVE  DecksInv'
<1>1. DeskSound(r, s, outdated, deckRow)
  BY DEF DecksInv, DesksSound
<1>2. DeskSaw(r, s, outdated, deckRow) /\ s.call \in DeskCalls
  BY <1>1 DEF DeskSound
<1>3. DeskSaw(r, q, outdated, deckRow)
  BY <1>2 DEF DeskSaw
<1>4. DeskSound(r, q, outdated, deckRow)
  BY <1>2, <1>3 DEF DeskSound
<1> QED BY <1>4, DeskOnly

LEMMA CountKeeps == ASSUME DecksInv, NEW r \in DeckRequests, Count(r) PROVE DecksInv'
<1> DEFINE s == desk[r]
           d == s.call.deck
           size == Cardinality(rowsNow(d))
<1>1. rowsKept /\ s.pc = "count" /\ s.call.op \in {"attach", "detach", "publish"}
  BY DEF Count
<1>2. DeskSound(r, s, outdated, deckRow) /\ ShelvesSound(deckRow, drifted)
  BY DEF DecksInv, DesksSound
<1>3. CASE ends(r, "refused")
  BY <1>1, <1>3, DeskEnds
<1>4. CASE s.call.op = "publish" /\ size # 0 /\ looksAt(r, d, "write")
  <2>1. deckThere(d) /\ deckRow[d].words # {}
    BY <1>4, FS_EmptySet DEF rowsNow
  <2> QED BY <1>1, <1>4, <2>1, LooksKeeps
<1>5. CASE s.call.op = "attach" /\ size + Cardinality(toAttach(r)) <= MaxDeckSize /\ goes(r, "position")
  <2> DEFINE q == [s EXCEPT !.pc = "position"]
  <2>1. desk' = [desk EXCEPT ![r] = q]
    BY <1>5 DEF goes
  <2>2. toAttach(r) = Missing(s.call, s.seen.words)
    BY DEF toAttach, Missing
  <2>3. s.seen # None /\ DeskShape(s) /\ s.call \in DeskCalls
    BY <1>1, <1>2, <1>5 DEF DeskSound
  <2>4. ASSUME r \notin outdated PROVE Fits(s.call, s.seen.words)
    <3>1. deckRow[d] = s.seen
      BY <1>2, <2>3, <2>4 DEF DeskSound, DeskSaw
    <3>2. rowsNow(d) = s.seen.words
      BY <3>1, <2>3 DEF rowsNow, deckThere
    <3> QED BY <3>2, <2>2, <1>5 DEF Fits
  <2> DEFINE t == s
  <2>5. t = desk[r] /\ t.pc = "count" /\ t.call.op = "attach" /\ t.seen # None /\ DeskShape(t)
        /\ (r \notin outdated => Fits(t.call, t.seen.words)) /\ q = [t EXCEPT !.pc = "position"]
    BY <1>1, <1>5, <2>3, <2>4
  <2> HIDE DEF t, q
  <2>6. q = DeskRow("position", t.call, t.seen, t.at, t.texts)
    BY <2>5, DeskMoves, Zenon
  <2>7. DeskShape(q) /\ q.pc = "position" /\ q.call = t.call /\ q.seen = t.seen
    BY <2>6, DeskRowShape
  <2>8. r \notin outdated => DeskGuarded(q)
    BY <2>5, <2>7 DEF DeskGuarded
  <2> QED BY <1>1, <2>1, <2>5, <2>7, <2>8, GoesOnSeeing
<1>6. CASE s.call.op = "detach" /\ ~(size <= 1) /\ goes(r, "write")
  <2> DEFINE q == [s EXCEPT !.pc = "write"]
  <2>1. desk' = [desk EXCEPT ![r] = q]
    BY <1>6 DEF goes
  <2>3. s.seen # None /\ DeskShape(s) /\ s.call \in DeskCalls
    BY <1>1, <1>2, <1>6 DEF DeskSound
  <2>4. ASSUME r \notin outdated PROVE Cardinality(s.seen.words) >= 2
    <3>1. deckRow[d] = s.seen /\ IsFiniteSet(s.seen.words)
      BY <1>2, <2>3, <2>4 DEF DeskSound, DeskSaw
    <3>2. rowsNow(d) = s.seen.words
      BY <3>1, <2>3 DEF rowsNow, deckThere
    <3> QED BY <3>1, <3>2, <1>6, FS_CardinalityType
  <2> DEFINE t == s
  <2>5. t = desk[r] /\ t.pc = "count" /\ t.call.op = "detach" /\ t.seen # None /\ DeskShape(t)
        /\ (r \notin outdated => Cardinality(t.seen.words) >= 2) /\ q = [t EXCEPT !.pc = "write"]
    BY <1>1, <1>6, <2>3, <2>4
  <2> HIDE DEF t, q
  <2>6. q = DeskRow("write", t.call, t.seen, t.at, t.texts)
    BY <2>5, DeskMoves, Zenon
  <2>7. DeskShape(q) /\ q.pc = "write" /\ q.call = t.call /\ q.seen = t.seen
    BY <2>6, DeskRowShape
  <2>8. r \notin outdated => DeskGuarded(q)
    BY <2>5, <2>7 DEF DeskGuarded
  <2> QED BY <1>1, <2>1, <2>5, <2>7, <2>8, GoesOnSeeing
<1>7. \/ ends(r, "refused")
      \/ s.call.op = "publish" /\ size # 0 /\ looksAt(r, d, "write")
      \/ s.call.op = "attach" /\ ~(size + Cardinality(toAttach(r)) > MaxDeckSize) /\ goes(r, "position")
      \/ s.call.op = "detach" /\ ~(size <= 1) /\ goes(r, "write")
  BY ZenonT(60) DEF Count
<1>8. s.call.op = "attach" /\ s.seen # None => IsFiniteSet(toAttach(r)) /\ IsFiniteSet(rowsNow(d))
  <2> SUFFICES ASSUME s.call.op = "attach" PROVE IsFiniteSet(toAttach(r)) /\ IsFiniteSet(rowsNow(d))
    OBVIOUS
  <2>1. s.call \in DeskCalls /\ d \in Decks
    BY <1>1, <1>2, DeckAssumption DEF DeskSound
  <2>2. IsFiniteSet(s.call.words)
    BY <2>1, DeckAssumption
  <2>3. IsFiniteSet(rowsNow(d))
    BY <1>2, <2>1, FS_EmptySet DEF rowsNow, deckThere, ShelvesSound, DeckSound
  <2> QED BY <2>2, <2>3, FS_Subset DEF toAttach
<1>9. s.call.op = "attach" => s.seen # None
  BY <1>1, <1>2 DEF DeskSound
<1>10. s.call.op = "attach" => size \in Nat /\ Cardinality(toAttach(r)) \in Nat /\ MaxDeckSize \in Nat
  BY <1>8, <1>9, FS_CardinalityType, DeckAssumption
<1> QED
  <2> DEFINE many == Cardinality(toAttach(r))
  <2>1. s.call.op = "attach" /\ ~(size + many > MaxDeckSize) => size + many <= MaxDeckSize
    <3>1. s.call.op = "attach" => size \in Nat /\ many \in Nat /\ MaxDeckSize \in Nat
      BY <1>10
    <3> HIDE DEF size, many
    <3> QED BY <3>1
  <2> QED BY <1>3, <1>4, <1>5, <1>6, <1>7, <2>1

LEMMA RowsOfDecksFinite ==
    ASSUME ShelvesSound(deckRow, drifted)
    PROVE  IsFiniteSet(rowsOfDecks) /\ \A x \in rowsOfDecks : x.at \in Nat
<1> DEFINE there == {e \in Decks : deckThere(e)}
           f == [e \in there |-> deckRow[e]]
<1>1. IsFiniteSet(there)
  BY DeckAssumption, FS_Subset
<1>2. f \in Surjection(there, rowsOfDecks)
  BY DEF Surjection, rowsOfDecks
<1>3. IsFiniteSet(rowsOfDecks)
  BY <1>1, <1>2, FS_Surjection DEF ExistsSurjection
<1>4. \A x \in rowsOfDecks : x.at \in Nat
  BY DEF rowsOfDecks, ShelvesSound, DeckSound, DeckType, deckThere
<1> QED BY <1>3, <1>4

LEMMA PositionKeeps == ASSUME DecksInv, NEW r \in DeckRequests, Position(r) PROVE DecksInv'
<1> DEFINE s == desk[r]
           d == s.call.deck
           chosen == IF s.call.op = "attach" THEN rowsNow(d) ELSE rowsOfDecks
           at == nextIndex(chosen)
           q == [s EXCEPT !.pc = "write", !.at = at]
<1>1. rowsKept /\ s.pc = "position" /\ desk' = [desk EXCEPT ![r] = q]
  BY DEF Position
<1>2. DeskSound(r, s, outdated, deckRow) /\ ShelvesSound(deckRow, drifted)
  BY DEF DecksInv, DesksSound
<1>3. s.call \in DeskCalls /\ DeskShape(s) /\ s.call.op \in {"attach", "create"}
  BY <1>1, <1>2 DEF DeskSound
<1>4. s.call.op = "attach" => IsFiniteSet(rowsNow(d)) /\ \A x \in rowsNow(d) : x.at \in Nat
  BY <1>2, <1>3, DeckAssumption, FS_EmptySet DEF rowsNow, deckThere, ShelvesSound, DeckSound, DeckType
<1>5. at \in Nat /\ \A x \in chosen : x.at < at
  <2>1. IsFiniteSet(chosen) /\ \A x \in chosen : x.at \in Nat
    BY <1>2, <1>4, RowsOfDecksFinite
  <2> HIDE DEF chosen
  <2> QED BY <2>1, NextIndexAbove
<1>6. CASE s.call.op = "attach"
  <2>1. s.seen # None
    BY <1>1, <1>2, <1>6 DEF DeskSound
  <2>2. ASSUME r \notin outdated PROVE Fits(s.call, s.seen.words) /\ \A a \in s.seen.words : a.at < at
    <3>1. deckRow[d] = s.seen
      BY <1>2, <2>1, <2>2 DEF DeskSound, DeskSaw
    <3>2. chosen = s.seen.words
      BY <3>1, <2>1, <1>6 DEF rowsNow, deckThere
    <3>3. Fits(s.call, s.seen.words)
      BY <1>1, <1>2, <1>6, <2>1, <2>2 DEF DeskSound, DeskGuarded
    <3> HIDE DEF at, chosen
    <3> QED BY <3>2, <3>3, <1>5
  <2> DEFINE t == s
             n == at
  <2>3. /\ t = desk[r] /\ t.pc = "position" /\ t.call.op = "attach" /\ t.seen # None
        /\ q = [t EXCEPT !.pc = "write", !.at = n] /\ n \in Nat
    BY <1>1, <1>5, <1>6, <2>1
  <2>8. r \notin outdated => Fits(t.call, t.seen.words) /\ \A a \in t.seen.words : a.at < n
    BY <2>2
  <2>9. DeskShape(t)
    BY <1>3
  <2> HIDE DEF t, n, q
  <2>4. \A p, x : [t EXCEPT !.pc = p, !.at = x] = DeskRow(p, t.call, t.seen, x, t.texts)
    BY <2>9, DeskMoves, Zenon
  <2>5. q = DeskRow("write", t.call, t.seen, n, t.texts)
    BY <2>3, <2>4
  <2>6. DeskShape(q) /\ q.pc = "write" /\ q.call = t.call /\ q.seen = t.seen /\ q.at = n
    BY <2>5, DeskRowShape
  <2>7. r \notin outdated => DeskGuarded(q)
    BY <2>3, <2>6, <2>8 DEF DeskGuarded
  <2>10. desk' = [desk EXCEPT ![r] = q] /\ rowsKept
    BY <1>1
  <2>11. /\ t = desk[r] /\ t.seen # None /\ t.pc \in {"find", "count", "position"}
         /\ q.pc \in {"position", "write"} /\ q.call.op \in {"attach", "detach", "publish"}
         /\ q.pc = "position" => q.call.op = "attach"
         /\ q.pc = "write" /\ q.call.op = "attach" => q.at \in Nat
    BY <2>3, <2>6
  <2>12. DeskShape(q) /\ q.call = t.call /\ q.seen = t.seen
    BY <2>6
  <2> QED BY <2>7, <2>10, <2>11, <2>12, GoesOnSeeing
<1>7. CASE s.call.op = "create"
  <2> DEFINE t == s
             n == at
  <2>1. t.seen = None
    BY <1>1, <1>2, <1>7 DEF DeskSound, DeskSaw
  <2>2. /\ t.call.op = "create" /\ t.call \in DeskCalls /\ DeskShape(t)
        /\ q = [t EXCEPT !.pc = "write", !.at = n] /\ n \in Nat
    BY <1>1, <1>3, <1>5, <1>7
  <2> HIDE DEF t, n, q
  <2>4. \A p, x : [t EXCEPT !.pc = p, !.at = x] = DeskRow(p, t.call, t.seen, x, t.texts)
    BY <2>2, DeskMoves, Zenon
  <2>5. q = DeskRow("write", t.call, None, n, t.texts)
    BY <2>1, <2>2, <2>4
  <2>6. DeskShape(q) /\ q.pc = "write" /\ q.call = t.call /\ q.seen = None /\ q.at = n
    BY <2>5, DeskRowShape
  <2>7. DeskSound(r, q, outdated, deckRow)
    BY <2>2, <2>6 DEF DeskSound
  <2> QED BY <1>1, <2>7, DeskOnly
<1> QED BY <1>3, <1>6, <1>7

-----------------------------------------------------------------------------
\* A deck is written, and its request answered.
LEMMA DeckWriteKeeps ==
    ASSUME DecksInv, NEW r \in DeckRequests, NEW d \in Decks, NEW row, NEW reply,
           reply \notin {"find", "count", "position", "write"}, ends(r, reply),
           changesDeck(r, d, row), drifted \subseteq drifted',
           row # None => DeckSound(d, row, drifted') /\ \A a \in row.words : wordRow[a.word] # None,
           row = None => \A pair \in learned : pair[1] # d,
           UNCHANGED <<libraryOn, wordRow, learned, studied, premium, unmatched>>
    PROVE  DecksInv'
<1>1. deckRow = [e \in Decks |-> deckRow[e]] /\ ShelvesSound(deckRow, drifted)
  BY DEF DecksInv, ShelvesSound
<1>2. deckRow' = [e \in Decks |-> IF e = d THEN row ELSE deckRow[e]]
  BY <1>1 DEF changesDeck
<1>3. ShelvesSound(deckRow', drifted')
  <2>1. \A e \in Decks : deckRow'[e] # None => DeckSound(e, deckRow'[e], drifted')
    BY <1>1, <1>2 DEF ShelvesSound, DeckSound, DeckKept
  <2> QED BY <1>2, <2>1 DEF ShelvesSound, DeckSound
<1>4. ShelvedInBank(deckRow', wordRow')
  BY <1>2 DEF DecksInv, ShelvedInBank
<1>5. DesksSound(desk', outdated', deckRow')
  <2>1. DesksSound(desk', outdated', [deckRow EXCEPT ![d] = row])
    BY <1>1, DesksOutdated DEF DecksInv, changesDeck, ends
  <2> QED BY <2>1 DEF changesDeck
<1>6. ProgressThere(learned', studied', deckRow', wordRow')
  BY <1>2 DEF DecksInv, ProgressThere
<1> QED BY <1>3, <1>4, <1>5, <1>6 DEF DecksInv

\* A deck that was not seen in its present state counts as drifted.
LEMMA WritesFresh ==
    ASSUME DecksInv, NEW r \in DeckRequests, NEW d, d = desk[r].call.deck, NEW row,
           writesDeck(r, d, row), deckThere(d), desk[r].seen # None
    PROVE  /\ drifted \subseteq drifted'
           /\ d \notin drifted' => /\ d \notin drifted
                                   /\ desk[r].seen = deckRow[d] /\ DeskGuarded(desk[r])
<1>1. DeskSound(r, desk[r], outdated, deckRow)
  BY DEF DecksInv, DesksSound
<1> QED BY <1>1 DEF writesDeck, DeskSound, DeskSaw

LEMMA DeckFound ==
    ASSUME DecksInv, NEW d \in Decks, deckThere(d)
    PROVE  /\ DeckSound(d, deckRow[d], drifted)
           /\ \A a \in deckRow[d].words : wordRow[a.word] # None
  BY DEF DecksInv, ShelvesSound, ShelvedInBank, deckThere

LEMMA DeckRowOf ==
    ASSUME NEW on \in BOOLEAN, NEW words \in SUBSET [word : Words, at : Nat], NEW at \in Nat
    PROVE  LET row == [on |-> on, words |-> words, at |-> at]
           IN  row \in DeckType /\ row # None /\ row.words = words /\ row.on = on
<1> DEFINE row == [on |-> on, words |-> words, at |-> at]
<1>1. row \in DeckType
  BY DEF DeckType
<1> QED BY <1>1, DeckAssumption

LEMMA DeckWith ==
    ASSUME NEW old \in DeckType, NEW words \in SUBSET [word : Words, at : Nat]
    PROVE  LET row == [old EXCEPT !.words = words]
           IN  row \in DeckType /\ row # None /\ row.words = words /\ row.on = old.on
<1>1. old = [on |-> old.on, words |-> old.words, at |-> old.at] /\ old.on \in BOOLEAN /\ old.at \in Nat
  BY DEF DeckType
<1>2. [old EXCEPT !.words = words] = [on |-> old.on, words |-> words, at |-> old.at]
  BY <1>1
<1> QED BY <1>1, <1>2, DeckRowOf

LEMMA DeckSwitched ==
    ASSUME NEW old \in DeckType, NEW on \in BOOLEAN
    PROVE  LET row == [old EXCEPT !.on = on]
           IN  row \in DeckType /\ row # None /\ row.words = old.words /\ row.on = on
<1>1. old = [on |-> old.on, words |-> old.words, at |-> old.at]
      /\ old.words \in SUBSET [word : Words, at : Nat] /\ old.at \in Nat
  BY DEF DeckType
<1>2. [old EXCEPT !.on = on] = [on |-> on, words |-> old.words, at |-> old.at]
  BY <1>1
<1> QED BY <1>1, <1>2, DeckRowOf

LEMMA DetachKeeps == ASSUME DecksInv, NEW r \in DeckRequests, Detach(r) PROVE DecksInv'
<1> DEFINE d == desk[r].call.deck
           w == desk[r].call.word
           old == deckRow[d]
           left == {a \in old.words : a.word # w}
           row == [old EXCEPT !.words = left]
<1>1. /\ desk[r].pc = "write" /\ desk[r].call.op = "detach"
      /\ UNCHANGED <<libraryOn, wordRow, learned, studied, premium, unmatched>>
  BY DEF Detach, calling
<1>2. DeskSound(r, desk[r], outdated, deckRow)
  BY DEF DecksInv, DesksSound
<1>3. desk[r].seen # None /\ d \in Decks
  BY <1>1, <1>2, DeckAssumption DEF DeskSound
<1>4. CASE ends(r, "failed") /\ UNCHANGED <<deckRow, outdated, drifted>>
  BY <1>1, <1>4, DeskEnds DEF rowsKept
<1>5. CASE deckThere(d) /\ writesDeck(r, d, row) /\ ends(r, "done")
  <2>1. DeckSound(d, old, drifted) /\ \A a \in old.words : wordRow[a.word] # None
    BY <1>3, <1>5, DeckFound
  <2>2. old \in DeckType /\ left \in SUBSET [word : Words, at : Nat]
    BY <2>1 DEF DeckSound, DeckType
  <2>3. row \in DeckType /\ row # None /\ row.words = left /\ row.on = old.on
    BY <2>2, DeckWith
  <2>4. IsFiniteSet(left) /\ Cardinality(left) <= Cardinality(old.words)
        /\ Cardinality(left) \in Nat /\ Cardinality(old.words) \in Nat
    BY <2>1, FS_Subset, FS_CardinalityType DEF DeckSound
  <2>5. /\ drifted \subseteq drifted'
        /\ d \notin drifted' => d \notin drifted /\ desk[r].seen = old /\ DeskGuarded(desk[r])
    BY <1>3, <1>5, WritesFresh
  <2>6. ASSUME d \notin drifted', old.on PROVE left # {}
    <3> SUFFICES ASSUME left = {} PROVE FALSE
      OBVIOUS
    <3>1. Cardinality(old.words) >= 2
      BY <1>1, <2>5, <2>6 DEF DeskGuarded
    <3>2. PICK a \in old.words : TRUE
      BY <3>1, FS_EmptySet
    <3>3. old.words = {a}
      BY <3>2, <2>1 DEF DeckSound, RowPerWord
    <3>4. Cardinality({a}) = 1
      BY FS_Singleton
    <3> QED BY <3>1, <3>3, <3>4
  <2> HIDE DEF row
  <2>7. DeckKept(d, row, drifted')
    <3> SUFFICES ASSUME d \notin drifted'
                 PROVE  /\ row.on => row.words # {}
                        /\ Cardinality(row.words) <= MaxDeckSize
                        /\ \A a, b \in row.words : a.at = b.at => a = b
      BY DEF DeckKept
    <3>1. DeckKept(d, old, drifted) /\ d \notin drifted
      BY <2>1, <2>5 DEF DeckSound
    <3>2. Cardinality(old.words) <= MaxDeckSize /\ \A a, b \in old.words : a.at = b.at => a = b
      BY <3>1 DEF DeckKept
    <3>3. left \subseteq old.words
      OBVIOUS
    <3> HIDE DEF left, old
    <3>4. Cardinality(left) <= MaxDeckSize
      BY <3>2, <2>4, DeckAssumption
    <3>5. \A a, b \in left : a.at = b.at => a = b
      BY <3>2, <3>3
    <3>6. row.on => left # {}
      BY <2>3, <2>6
    <3> QED BY <2>3, <3>4, <3>5, <3>6
  <2>8. DeckSound(d, row, drifted') /\ \A a \in row.words : wordRow[a.word] # None
    BY <2>1, <2>3, <2>4, <2>7, Zenon DEF DeckSound, RowPerWord
  <2> QED BY <1>1, <1>3, <1>5, <2>3, <2>5, <2>8, DeckWriteKeeps DEF writesDeck
<1> QED BY <1>4, <1>5 DEF Detach

LEMMA SetPublishedKeeps == ASSUME DecksInv, NEW r \in DeckRequests, SetPublished(r) PROVE DecksInv'
<1> DEFINE d == desk[r].call.deck
           old == deckRow[d]
<1>1. /\ desk[r].pc = "write" /\ desk[r].call.op \in {"publish", "unpublish"}
      /\ UNCHANGED <<libraryOn, wordRow, learned, studied, premium, unmatched>>
  BY DEF SetPublished, calling
<1>2. DeskSound(r, desk[r], outdated, deckRow)
  BY DEF DecksInv, DesksSound
<1>3. d \in Decks
  BY <1>1, <1>2, DeckAssumption DEF DeskSound
<1>4. CASE ends(r, "failed") /\ UNCHANGED <<deckRow, outdated, drifted>>
  BY <1>1, <1>4, DeskEnds DEF rowsKept
<1>5. ASSUME NEW on \in BOOLEAN, deckThere(d), writesDeck(r, d, [old EXCEPT !.on = on]), ends(r, "done"),
             on => desk[r].call.op = "publish"
      PROVE  DecksInv'
  <2> DEFINE row == [old EXCEPT !.on = on]
  <2>1. DeckSound(d, old, drifted) /\ \A a \in old.words : wordRow[a.word] # None
    BY <1>3, <1>5, DeckFound
  <2>2. row \in DeckType /\ row # None /\ row.words = old.words /\ row.on = on
    BY <2>1, DeckSwitched DEF DeckSound
  <2>3. drifted \subseteq drifted'
    BY <1>5 DEF writesDeck
  <2>4. ASSUME d \notin drifted', on PROVE old.words # {}
    <3>1. desk[r].seen # None
      BY <1>1, <1>2, <1>5, <2>4 DEF DeskSound
    <3> QED BY <1>1, <1>5, <2>4, <3>1, WritesFresh DEF DeskGuarded
  <2> HIDE DEF row
  <2> HIDE DEF old
  <2>5. DeckSound(d, row, drifted')
    <3>1. DeckKept(d, row, drifted')
      BY <2>1, <2>2, <2>3, <2>4 DEF DeckSound, DeckKept
    <3> QED BY <2>1, <2>2, <3>1 DEF DeckSound
  <2>6. writesDeck(r, d, row)
    BY <1>5 DEF row
  <2> QED BY <1>1, <1>3, <1>5, <2>1, <2>2, <2>3, <2>5, <2>6, DeckWriteKeeps DEF writesDeck
<1>6. CASE deckThere(d) /\ writesDeck(r, d, [old EXCEPT !.on = desk[r].call.op = "publish"]) /\ ends(r, "done")
  <2> DEFINE on == desk[r].call.op = "publish"
  <2>1. on \in BOOLEAN
    OBVIOUS
  <2> QED BY <2>1, <1>5, <1>6
<1> QED BY <1>4, <1>6 DEF SetPublished

LEMMA CreateDeckKeeps == ASSUME DecksInv, NEW r \in DeckRequests, CreateDeck(r) PROVE DecksInv'
<1>1. /\ desk[r].pc = "write" /\ desk[r].call.op = "create" /\ ends(r, "done")
      /\ UNCHANGED <<libraryOn, wordRow, learned, studied, premium, drifted, unmatched>>
  BY DEF CreateDeck, calling
<1>2. desk[r].at \in Nat
  BY <1>1 DEF DecksInv, DesksSound, DeskSound
<1> DEFINE row == [on |-> FALSE, words |-> {}, at |-> desk[r].at]
<1>3. PICK d \in Decks : ~deckThere(d) /\ changesDeck(r, d, row)
  BY DEF CreateDeck
<1>4. row \in DeckType /\ row # None /\ row.words = {} /\ row.on = FALSE
  BY <1>2, DeckRowOf
<1> HIDE DEF row
<1>5. DeckSound(d, row, drifted')
  BY <1>4, FS_EmptySet, DeckAssumption DEF DeckSound, RowPerWord, DeckKept
<1> QED BY <1>1, <1>3, <1>4, <1>5, DeckWriteKeeps

LEMMA RemoveDeckKeeps == ASSUME DecksInv, NEW r \in DeckRequests, RemoveDeck(r) PROVE DecksInv'
<1> DEFINE d == desk[r].call.deck
<1>1. /\ desk[r].pc = "write" /\ desk[r].call.op = "removeDeck"
      /\ UNCHANGED <<libraryOn, wordRow, learned, studied, premium, drifted, unmatched>>
  BY DEF RemoveDeck, calling
<1>2. d \in Decks
  BY <1>1, DeckAssumption DEF DecksInv, DesksSound, DeskSound
<1>3. CASE ends(r, "failed") /\ UNCHANGED <<deckRow, outdated>>
  BY <1>1, <1>3, DeskEnds DEF rowsKept
<1>4. CASE changesDeck(r, d, None) /\ ends(r, "done") /\ ~\E pair \in learned : pair[1] = d
  BY <1>1, <1>2, <1>4, DeckWriteKeeps
<1> QED BY <1>3, <1>4 DEF RemoveDeck

-----------------------------------------------------------------------------
\* Words hung on a deck from a place on: what becomes of its rows.
HungOn(old, new, at, place, hung, added) ==
    /\ old \in SUBSET [word : Words, at : Nat] /\ IsFiniteSet(old) /\ RowPerWord(old)
    /\ new \in SUBSET Words /\ IsFiniteSet(new) /\ at \in Nat
    /\ place \in [new -> Nat] /\ \A v, w \in new : place[v] = place[w] => v = w
    /\ hung \in SUBSET new /\ \A a \in old : a.word \notin hung
    /\ added = {[word |-> w, at |-> at + place[w]] : w \in hung}

OnePlaceEach(rows) == \A a, b \in rows : a.at = b.at => a = b
AllBelow(rows, n) == \A a \in rows : a.at < n

LEMMA Hung ==
    ASSUME NEW old, NEW new, NEW at, NEW place, NEW hung, NEW added,
           HungOn(old, new, at, place, hung, added)
    PROVE  /\ old \cup added \in SUBSET [word : Words, at : Nat]
           /\ IsFiniteSet(old \cup added) /\ RowPerWord(old \cup added)
           /\ Cardinality(old \cup added) <= Cardinality(old) + Cardinality(new)
           /\ AllBelow(old, at) /\ OnePlaceEach(old) => OnePlaceEach(old \cup added)
<1> USE DEF HungOn
<1> DEFINE f == [w \in hung |-> [word |-> w, at |-> at + place[w]]]
<1>1. IsFiniteSet(hung) /\ Cardinality(hung) <= Cardinality(new)
  BY FS_Subset
<1>2. f \in Surjection(hung, added)
  BY DEF Surjection
<1>3. IsFiniteSet(added) /\ Cardinality(added) <= Cardinality(hung)
  <2> HIDE DEF f
  <2> QED BY <1>1, <1>2, FS_Surjection
<1>4. \A a \in added : \E w \in hung : a = [word |-> w, at |-> at + place[w]] /\ place[w] \in Nat
  OBVIOUS
<1>5. \A a \in added : a.word \in hung /\ a.at = at + place[a.word] /\ a.at \in Nat /\ place[a.word] \in Nat
                       /\ a = [word |-> a.word, at |-> a.at] /\ a \in [word : Words, at : Nat]
  BY <1>4
<1>6. \A a \in old : a \in [word : Words, at : Nat] /\ a.word \notin hung /\ a.at \in Nat
  OBVIOUS
<1> HIDE DEF f
<1>7. old \cup added \in SUBSET [word : Words, at : Nat]
  BY <1>5
<1>8. /\ IsFiniteSet(old \cup added) /\ IsFiniteSet(old \cap added)
      /\ Cardinality(old \cup added) = Cardinality(old) + Cardinality(added) - Cardinality(old \cap added)
  BY <1>3, FS_Union, FS_Intersection
<1>9. /\ Cardinality(old) \in Nat /\ Cardinality(added) \in Nat /\ Cardinality(old \cap added) \in Nat
      /\ Cardinality(hung) \in Nat /\ Cardinality(new) \in Nat
  BY <1>1, <1>3, <1>8, FS_CardinalityType
<1>10. Cardinality(old \cup added) <= Cardinality(old) + Cardinality(new)
  <2> DEFINE all == Cardinality(old \cup added)
             both == Cardinality(old \cap added)
             size == Cardinality(old)
             more == Cardinality(added)
             most == Cardinality(hung)
             limit == Cardinality(new)
  <2>1. all = size + more - both /\ more <= most /\ most <= limit
    BY <1>1, <1>3, <1>8
  <2>2. both \in Nat /\ size \in Nat /\ more \in Nat /\ most \in Nat /\ limit \in Nat
    BY <1>9
  <2> HIDE DEF all, both, size, more, most, limit
  <2>3. all <= size + limit
    BY <2>1, <2>2
  <2> QED BY <2>3 DEF all, size, limit
<1>11. RowPerWord(added)
  BY <1>5 DEF RowPerWord
<1>12. RowPerWord(old \cup added)
  <2> SUFFICES ASSUME NEW a \in old \cup added, NEW b \in old \cup added, a.word = b.word PROVE a = b
    BY DEF RowPerWord
  <2> QED BY <1>5, <1>6, <1>11 DEF RowPerWord
<1>13. ASSUME AllBelow(old, at), OnePlaceEach(old) PROVE OnePlaceEach(old \cup added)
  <2> SUFFICES ASSUME NEW a \in old \cup added, NEW b \in old \cup added, a.at = b.at PROVE a = b
    BY DEF OnePlaceEach
  <2>1. CASE a \in old /\ b \in old
    BY <1>13, <2>1 DEF OnePlaceEach
  <2>2. CASE a \in old /\ b \in added
    <3>1. a.at < at /\ b.at = at + place[b.word] /\ place[b.word] \in Nat /\ a.at \in Nat
      BY <1>5, <1>6, <1>13, <2>2 DEF AllBelow
    <3> QED BY <3>1
  <2>3. CASE a \in added /\ b \in old
    <3>1. b.at < at /\ a.at = at + place[a.word] /\ place[a.word] \in Nat /\ b.at \in Nat
      BY <1>5, <1>6, <1>13, <2>3 DEF AllBelow
    <3> QED BY <3>1
  <2>4. CASE a \in added /\ b \in added
    <3>1. /\ a.word \in new /\ b.word \in new /\ place[a.word] \in Nat /\ place[b.word] \in Nat
          /\ at + place[a.word] = at + place[b.word]
      BY <1>5, <2>4
    <3>2. place[a.word] = place[b.word]
      BY <3>1
    <3> QED BY <3>1, <3>2, <1>11, <2>4 DEF RowPerWord
  <2> QED BY <2>1, <2>2, <2>3, <2>4
<1> QED BY <1>7, <1>8, <1>10, <1>12, <1>13

LEMMA AttachKeeps == ASSUME DecksInv, NEW r \in DeckRequests, Attach(r) PROVE DecksInv'
<1> DEFINE d == desk[r].call.deck
           at == desk[r].at
           old == deckRow[d]
           new == toAttach(r)
           hung == new \ attachedWords(d)
           added(place) == {[word |-> w, at |-> at + place[w]] : w \in hung}
           row(place) == [old EXCEPT !.words = @ \cup added(place)]
<1>1. /\ desk[r].pc = "write" /\ desk[r].call.op = "attach"
      /\ UNCHANGED <<libraryOn, wordRow, learned, studied, premium, unmatched>>
  BY DEF Attach, calling
<1>2. DeskSound(r, desk[r], outdated, deckRow)
  BY DEF DecksInv, DesksSound
<1>3. desk[r].seen # None /\ at \in Nat /\ desk[r].call \in DeskCalls
  BY <1>1, <1>2 DEF DeskSound
<1>4. d \in Decks /\ new \subseteq Words /\ IsFiniteSet(new)
  <2>1. d \in Decks /\ desk[r].call.words \subseteq Words /\ IsFiniteSet(desk[r].call.words)
    BY <1>1, <1>3, DeckAssumption
  <2> QED BY <2>1, FS_Subset DEF toAttach
<1>5. CASE ends(r, "failed") /\ UNCHANGED <<deckRow, outdated, drifted>>
  BY <1>1, <1>5, DeskEnds DEF rowsKept
<1>6. ASSUME NEW place \in [new -> 0 .. Cardinality(new) - 1],
             \A v, w \in new : place[v] = place[w] => v = w,
             deckThere(d), \A w \in new : exists(w), writesDeck(r, d, row(place)), ends(r, "done")
      PROVE  DecksInv'
  <2> DEFINE words == old.words \cup added(place)
             next == row(place)
  <2>1. DeckSound(d, old, drifted) /\ \A a \in old.words : wordRow[a.word] # None
    BY <1>4, <1>6, DeckFound
  <2>2. old \in DeckType /\ IsFiniteSet(old.words) /\ RowPerWord(old.words)
        /\ old.words \in SUBSET [word : Words, at : Nat]
    BY <2>1 DEF DeckSound, DeckType
  <2>3. place \in [new -> Nat]
    <3>1. Cardinality(new) \in Nat
      BY <1>4, FS_CardinalityType
    <3> QED BY <3>1, <1>6
  <2>4. hung = new \ {a.word : a \in old.words}
    BY DEF attachedWords
  <2>5. /\ words \in SUBSET [word : Words, at : Nat] /\ IsFiniteSet(words) /\ RowPerWord(words)
        /\ Cardinality(words) <= Cardinality(old.words) + Cardinality(new)
        /\ AllBelow(old.words, at) /\ OnePlaceEach(old.words) => OnePlaceEach(words)
    <3> DEFINE more == added(place)
    <3>1. more = {[word |-> w, at |-> at + place[w]] : w \in hung} /\ words = old.words \cup more
      OBVIOUS
    <3>2. new \in SUBSET Words /\ IsFiniteSet(new) /\ at \in Nat
          /\ \A v, w \in new : place[v] = place[w] => v = w
      BY <1>3, <1>4, <1>6
    <3> DEFINE held == old.words
    <3>3. /\ held \in SUBSET [word : Words, at : Nat] /\ IsFiniteSet(held) /\ RowPerWord(held)
          /\ words = held \cup more
      BY <2>2, <2>4, <3>1
    <3>4. HungOn(held, new, at, place, hung, more)
      BY <2>2, <2>3, <2>4, <3>1, <3>2 DEF HungOn
    <3> HIDE DEF more, words, added, row, held, hung, new, at, old
    <3>5. /\ held \cup more \in SUBSET [word : Words, at : Nat]
          /\ IsFiniteSet(held \cup more) /\ RowPerWord(held \cup more)
          /\ Cardinality(held \cup more) <= Cardinality(held) + Cardinality(new)
          /\ AllBelow(held, at) /\ OnePlaceEach(held) => OnePlaceEach(held \cup more)
      BY <3>4, Hung
    <3> QED BY <3>3, <3>5 DEF held
  <2>6. \A a \in words : wordRow[a.word] # None
    BY <1>6, <2>1 DEF exists
  <2>7. next = [old EXCEPT !.words = words]
    OBVIOUS
  <2>8. writesDeck(r, d, next)
    BY <1>6
  <2> HIDE DEF next, row, added
  <2>9. next \in DeckType /\ next # None /\ next.words = words /\ next.on = old.on
    <3> HIDE DEF words
    <3> QED BY <2>2, <2>5, <2>7, DeckWith
  <2>10. /\ drifted \subseteq drifted'
         /\ d \notin drifted' => d \notin drifted /\ desk[r].seen = old /\ DeskGuarded(desk[r])
    BY <1>3, <1>6, <2>8, WritesFresh
  <2>11. ASSUME d \notin drifted' PROVE Cardinality(words) <= MaxDeckSize /\ AllBelow(old.words, at)
    <3>1. DeskGuarded(desk[r]) /\ desk[r].seen = old
      BY <2>10, <2>11
    <3>2. new = Missing(desk[r].call, old.words)
      BY <3>1 DEF toAttach, Missing
    <3>3. Cardinality(old.words) + Cardinality(new) <= MaxDeckSize /\ AllBelow(old.words, at)
      BY <1>1, <3>1, <3>2 DEF DeskGuarded, Fits, AllBelow
    <3>4. Cardinality(old.words) \in Nat /\ Cardinality(new) \in Nat /\ Cardinality(words) \in Nat
      BY <1>4, <2>2, <2>5, FS_CardinalityType
    <3> DEFINE a == Cardinality(old.words)
               b == Cardinality(new)
               c == Cardinality(words)
    <3>5. c <= a + b /\ a + b <= MaxDeckSize /\ a \in Nat /\ b \in Nat /\ c \in Nat
      BY <2>5, <3>3, <3>4
    <3> HIDE DEF a, b, c
    <3>6. c <= MaxDeckSize
      BY <3>5, DeckAssumption
    <3> QED BY <3>3, <3>6 DEF c
  <2> HIDE DEF words
  <2>12. DeckKept(d, next, drifted')
    <3> SUFFICES ASSUME d \notin drifted'
                 PROVE  /\ next.on => next.words # {}
                        /\ Cardinality(next.words) <= MaxDeckSize
                        /\ OnePlaceEach(next.words)
      BY DEF DeckKept, OnePlaceEach
    <3>1. DeckKept(d, old, drifted) /\ d \notin drifted
      BY <2>1, <2>10 DEF DeckSound
    <3>2. (old.on => old.words # {}) /\ OnePlaceEach(old.words)
      BY <3>1 DEF DeckKept, OnePlaceEach
    <3>3. old.words \subseteq words
      BY DEF words
    <3> HIDE DEF old
    <3> QED BY <2>5, <2>9, <2>11, <3>2, <3>3
  <2>13. DeckSound(d, next, drifted') /\ \A a \in next.words : wordRow[a.word] # None
    BY <2>5, <2>6, <2>9, <2>12 DEF DeckSound
  <2> QED BY <1>1, <1>4, <1>6, <2>8, <2>9, <2>10, <2>13, DeckWriteKeeps DEF writesDeck
<1>7. \/ ends(r, "failed") /\ UNCHANGED <<deckRow, outdated, drifted>>
      \/ /\ deckThere(d) /\ \A w \in new : exists(w)
         /\ \E place \in {f \in [new -> 0 .. Cardinality(new) - 1] :
                             \A v, w \in new : f[v] = f[w] => v = w} :
               writesDeck(r, d, row(place)) /\ ends(r, "done")
  BY DEF Attach
<1> QED BY <1>5, <1>6, <1>7

-----------------------------------------------------------------------------
\* The bank changes: words that were there stay, but one that is not in use.
LEMMA BankChanges ==
    ASSUME DecksInv, NEW r \in DeckRequests, NEW reply, ends(r, reply),
           reply \notin {"find", "count", "position", "write"},
           BankRows(wordRow'), TextsDistinct(wordRow', unmatched'),
           \A w \in Words : wordRow[w] # None =>
               \/ wordRow'[w] # None
               \/ /\ \A d \in Decks : deckRow[d] # None => \A a \in deckRow[d].words : a.word # w
                  /\ w \notin studied /\ \A pair \in learned : pair[2] # w,
           UNCHANGED <<libraryOn, deckRow, learned, studied, premium, outdated, drifted>>
    PROVE  DecksInv'
<1>1. DesksSound(desk', outdated, deckRow)
  <2>1. DeskSound(r, [NewRequest EXCEPT !.pc = reply], outdated, deckRow)
    BY DeskAnswered
  <2> QED BY <2>1, DeskAside DEF DecksInv, ends
<1>2. ShelvedInBank(deckRow, wordRow')
  <2> SUFFICES ASSUME NEW d \in Decks, deckRow[d] # None, NEW a \in deckRow[d].words
               PROVE  wordRow'[a.word] # None
    BY DEF ShelvedInBank
  <2>1. a.word \in Words
    BY DEF DecksInv, ShelvesSound, DeckSound, DeckType
  <2>2. wordRow[a.word] # None
    BY DEF DecksInv, ShelvedInBank
  <2> QED BY <2>1, <2>2
<1>3. ProgressThere(learned, studied, deckRow, wordRow')
  <2>1. \A pair \in learned : pair \in Decks \X Words /\ deckRow[pair[1]] # None /\ wordRow[pair[2]] # None
    BY DEF DecksInv, ProgressThere
  <2>2. \A w \in studied : w \in Words /\ wordRow[w] # None
    BY DEF DecksInv, ProgressThere
  <2>3. \A pair \in learned : wordRow'[pair[2]] # None
    BY <2>1
  <2>4. \A w \in studied : wordRow'[w] # None
    BY <2>2
  <2> QED BY <2>1, <2>2, <2>3, <2>4 DEF ProgressThere
<1> QED BY <1>1, <1>2, <1>3 DEF DecksInv

LEMMA RemoveWordKeeps == ASSUME DecksInv, NEW r \in DeckRequests, RemoveWord(r) PROVE DecksInv'
<1> DEFINE w == desk[r].call.word
<1>1. UNCHANGED <<libraryOn, deckRow, learned, studied, premium, outdated, drifted>>
      /\ unmatched' = unmatched \ {v \in Words : wordRow'[v] = None}
  BY DEF RemoveWord
<1>2. BankRows(wordRow) /\ TextsDistinct(wordRow, unmatched)
  BY DEF DecksInv
<1>3. CASE wordRow' = wordRow /\ ends(r, "refused")
  <2>1. TextsDistinct(wordRow', unmatched')
    BY <1>1, <1>2, <1>3 DEF TextsDistinct
  <2> QED BY <1>1, <1>2, <1>3, <2>1, BankChanges
<1>4. CASE /\ wordRow' = [wordRow EXCEPT ![w] = None] /\ ends(r, "done")
           /\ ~\/ \E d \in Decks : deckThere(d) /\ w \in attachedWords(d)
               \/ w \in studied \/ \E pair \in learned : pair[2] = w
  <2>1. wordRow' = [v \in Words |-> IF v = w THEN None ELSE wordRow[v]]
    BY <1>2, <1>4 DEF BankRows
  <2>2. BankRows(wordRow')
    BY <2>1 DEF BankRows
  <2>3. TextsDistinct(wordRow', unmatched')
    BY <1>1, <1>2, <2>1 DEF TextsDistinct
  <2>4. \A d \in Decks : deckRow[d] # None => \A a \in deckRow[d].words : a.word # w
    BY <1>4 DEF deckThere, attachedWords
  <2>5. w \notin studied /\ \A pair \in learned : pair[2] # w
    BY <1>4
  <2>6. \A v \in Words : v # w => wordRow'[v] = wordRow[v]
    BY <2>1
  <2> HIDE DEF w
  <2> QED BY <1>1, <1>4, <2>2, <2>3, <2>4, <2>5, <2>6, BankChanges
<1> QED BY <1>3, <1>4 DEF RemoveWord

LEMMA CreateWordKeeps == ASSUME DecksInv, NEW r \in DeckRequests, CreateWordRow(r) PROVE DecksInv'
<1>1. UNCHANGED <<libraryOn, deckRow, learned, studied, premium, outdated, drifted>> /\ ends(r, "done")
  BY DEF CreateWordRow
<1> DEFINE text == desk[r].call.text
<1>2. PICK w \in Words : /\ wordRow[w] = None /\ wordRow' = [wordRow EXCEPT ![w] = text]
                         /\ unmatched' = unmatched \cup {w}
  BY DEF CreateWordRow, exists
<1>3. BankRows(wordRow) /\ TextsDistinct(wordRow, unmatched)
  BY DEF DecksInv
<1> HIDE DEF text
<1>4. wordRow' = [v \in Words |-> IF v = w THEN text ELSE wordRow[v]]
  BY <1>2, <1>3 DEF BankRows
<1>5. BankRows(wordRow')
  BY <1>4 DEF BankRows
<1>6. TextsDistinct(wordRow', unmatched')
  BY <1>2, <1>3, <1>4 DEF TextsDistinct
<1>7. \A v \in Words : wordRow[v] # None => wordRow'[v] # None
  BY <1>2, <1>4
<1> QED BY <1>1, <1>5, <1>6, <1>7, BankChanges

LEMMA ImportCsvKeeps == ASSUME DecksInv, NEW r \in DeckRequests, ImportCsv(r) PROVE DecksInv'
<1>1. UNCHANGED <<libraryOn, deckRow, learned, studied, premium, outdated, drifted>> /\ ends(r, "done")
  BY DEF ImportCsv
<1> DEFINE texts == desk[r].texts
           free == {w \in Words : ~exists(w)}
<1>2. PICK new \in [texts -> free] :
         /\ \A t, u \in texts : new[t] = new[u] => t = u
         /\ LET textOf(w) == CHOOSE t \in texts : new[t] = w
                made == {new[t] : t \in texts}
            IN  /\ wordRow' = [w \in Words |-> IF w \in made THEN textOf(w) ELSE wordRow[w]]
                /\ unmatched' = unmatched \cup {w \in made : textOf(w) \in bankTexts}
  BY DEF ImportCsv
<1> DEFINE textOf(w) == CHOOSE t \in texts : new[t] = w
           made == {new[t] : t \in texts}
           from == [w \in made |-> textOf(w)]
<1>3. made \subseteq Words /\ \A w \in made : wordRow[w] = None
  BY DEF exists
<1>4. \A w \in made : from[w] \in texts /\ new[from[w]] = w
  OBVIOUS
<1>5. wordRow' = [w \in Words |-> IF w \in made THEN from[w] ELSE wordRow[w]]
  BY <1>2
<1>6. unmatched' = unmatched \cup {w \in made : from[w] \in bankTexts}
  BY <1>2
<1>7. BankRows(wordRow) /\ TextsDistinct(wordRow, unmatched)
  BY DEF DecksInv
<1> HIDE DEF made, from, texts, free
<1>8. BankRows(wordRow')
  BY <1>5 DEF BankRows
<1>9. TextsDistinct(wordRow', unmatched')
  <2> SUFFICES ASSUME NEW v \in Words, NEW w \in Words, v # w, wordRow'[v] # None, wordRow'[v] = wordRow'[w]
               PROVE  {v, w} \cap unmatched' # {}
    BY DEF TextsDistinct
  <2>1. CASE v \in made /\ w \in made
    BY <1>4, <1>5, <2>1
  <2>2. CASE v \in made /\ w \notin made
    <3>1. wordRow[w] = from[v] /\ wordRow[w] # None
      BY <1>5, <2>2
    <3>2. from[v] \in bankTexts
      BY <3>1 DEF bankTexts
    <3> QED BY <3>2, <1>6, <2>2
  <2>3. CASE v \notin made /\ w \in made
    <3>1. wordRow[v] = from[w] /\ wordRow[v] # None
      BY <1>5, <2>3
    <3>2. from[w] \in bankTexts
      BY <3>1 DEF bankTexts
    <3> QED BY <3>2, <1>6, <2>3
  <2>4. CASE v \notin made /\ w \notin made
    <3>1. wordRow[v] # None /\ wordRow[v] = wordRow[w]
      BY <1>5, <2>4
    <3>2. {v, w} \cap unmatched # {}
      BY <3>1, <1>7 DEF TextsDistinct
    <3> QED BY <3>2, <1>6
  <2> QED BY <2>1, <2>2, <2>3, <2>4
<1>10. \A w \in Words : wordRow[w] # None => wordRow'[w] # None
  BY <1>3, <1>5
<1> QED BY <1>1, <1>8, <1>9, <1>10, BankChanges

LEMMA MarkLearnedKeeps == ASSUME DecksInv, NEW r \in DeckRequests, MarkLearned(r) PROVE DecksInv'
<1> DEFINE call == desk[r].call
<1>1. UNCHANGED <<libraryOn, deckRow, wordRow, studied, premium, outdated, drifted, unmatched>>
      /\ desk[r].pc = "write" /\ call.op = "learn"
  BY DEF MarkLearned, calling
<1>2. CASE ends(r, "failed") /\ UNCHANGED learned
  BY <1>1, <1>2, DeskEnds DEF rowsKept
<1>3. CASE /\ deckThere(call.deck) /\ exists(call.word) /\ ends(r, "done")
           /\ learned' = learned \cup {<<call.deck, call.word>>}
  <2>1. call \in DeskCalls
    BY <1>1 DEF DecksInv, DesksSound, DeskSound
  <2>2. call.deck \in Decks /\ call.word \in Words
    BY <1>1, <2>1, DeckAssumption
  <2> HIDE DEF call
  <2>3. ProgressThere(learned', studied', deckRow', wordRow')
    BY <1>1, <1>3, <2>2 DEF DecksInv, ProgressThere, deckThere, exists
  <2>4. DesksSound(desk', outdated, deckRow)
    <3>1. DeskSound(r, [NewRequest EXCEPT !.pc = "done"], outdated, deckRow)
      BY DeskAnswered
    <3> QED BY <1>3, <3>1, DeskAside DEF DecksInv, ends
  <2> QED BY <1>1, <2>3, <2>4 DEF DecksInv
<1> QED BY <1>2, <1>3 DEF MarkLearned

LEMMA ResetProgressKeeps == ASSUME DecksInv, NEW r \in DeckRequests, ResetProgress(r) PROVE DecksInv'
<1>1. /\ UNCHANGED <<libraryOn, deckRow, wordRow, studied, premium, outdated, drifted, unmatched>>
      /\ learned' \subseteq learned /\ ends(r, "done")
  BY DEF ResetProgress
<1>2. ProgressThere(learned', studied', deckRow', wordRow')
  BY <1>1 DEF DecksInv, ProgressThere
<1>3. DesksSound(desk', outdated, deckRow)
  <2>1. DeskSound(r, [NewRequest EXCEPT !.pc = "done"], outdated, deckRow)
    BY DeskAnswered
  <2> QED BY <1>1, <2>1, DeskAside DEF DecksInv, ends
<1> QED BY <1>1, <1>2, <1>3 DEF DecksInv

LEMMA StudyKeeps == ASSUME DecksInv, NEW w \in Words, Study(w) PROVE DecksInv'
<1>1. wordRow[w] # None
  BY DEF Study, DecksInv, ShelvedInBank, deckThere, attachedWords
<1>2. ProgressThere(learned, studied', deckRow, wordRow)
  BY <1>1 DEF Study, DecksInv, ProgressThere
<1> QED BY <1>2 DEF Study, DecksInv

LEMMA DecksStep == DecksInv /\ [DecksNext]_deckVars => DecksInv'
<1> SUFFICES ASSUME DecksInv, [DecksNext]_deckVars PROVE DecksInv'
  OBVIOUS
<1>1. ASSUME NEW r \in DeckRequests, NEW call \in DeskCalls, Call(r, call) PROVE DecksInv'
  BY <1>1, CallKeeps
<1>2. ASSUME NEW r \in DeckRequests,
             Find(r) \/ Count(r) \/ Position(r) \/ CountUses(r) \/ ReadBank(r)
      PROVE  DecksInv'
  BY <1>2, FindKeeps, CountKeeps, PositionKeeps, CountUsesKeeps, ReadBankKeeps
<1>3. ASSUME NEW r \in DeckRequests,
             Attach(r) \/ Detach(r) \/ SetPublished(r) \/ CreateDeck(r) \/ RemoveDeck(r)
      PROVE  DecksInv'
  BY <1>3, AttachKeeps, DetachKeeps, SetPublishedKeeps, CreateDeckKeeps, RemoveDeckKeeps
<1>4. ASSUME NEW r \in DeckRequests,
             RemoveWord(r) \/ CreateWordRow(r) \/ ImportCsv(r) \/ MarkLearned(r) \/ ResetProgress(r)
      PROVE  DecksInv'
  BY <1>4, RemoveWordKeeps, CreateWordKeeps, ImportCsvKeeps, MarkLearnedKeeps, ResetProgressKeeps
<1>5. ASSUME NEW w \in Words, Study(w) PROVE DecksInv'
  BY <1>5, StudyKeeps
<1>6. CASE TurnLibrary
  BY <1>6 DEF TurnLibrary, DecksInv
<1>7. CASE TurnPremium
  BY <1>7 DEF TurnPremium, DecksInv
<1>8. CASE UNCHANGED deckVars
  BY <1>8 DEF deckVars, DecksInv
<1> QED BY <1>1, <1>2, <1>3, <1>4, <1>5, <1>6, <1>7, <1>8 DEF DecksNext

LEMMA DecksInvSound == DecksInv => VocabularySound
<1> SUFFICES ASSUME DecksInv PROVE VocabularySound
  OBVIOUS
<1>1. DeckGuards
  BY DEF DeckGuards, DecksInv, ShelvesSound, DeckSound, DeckKept, deckThere
<1>2. BankTextsDistinct
  BY DEF BankTextsDistinct, DecksInv, TextsDistinct, exists
<1>3. ProgressKept
  BY DEF ProgressKept, DecksInv, ProgressThere, deckThere, exists
<1> QED BY <1>1, <1>2, <1>3 DEF VocabularySound

(* However many editors write a deck at once, it is published empty, over  *)
(* its cap or with two words in a place only after a write on the strength *)
(* of a deck that had changed since; two words share a text only past an   *)
(* unguarded insert; and progress keeps its deck and word                  *)
(* (VocabDeckService, VocabWordService).                                   *)
THEOREM VocabularyAlwaysSound == DecksSpec => []VocabularySound
<1>1. DecksSpec => []DecksInv
  BY DecksInitial, DecksStep, PTL DEF DecksSpec
<1> QED BY <1>1, DecksInvSound, PTL

-----------------------------------------------------------------------------
(* The words of a student at once: each service keeps to its own tables.   *)
THEOREM WordsAlwaysSound == WordsSpec => []WordsSound
  BY VocabularyAlwaysSound, PersonalAlwaysSound, DictionaryAlwaysSound, PTL DEF WordsSpec, WordsSound

-----------------------------------------------------------------------------
(***************************************************************************)
(* Questions.  Which replies the examiner accepts depends on places only:  *)
(* distinct options stand in distinct ones, so a wrong choice is another   *)
(* place, another order swaps two of them, and a narrowed question keeps   *)
(* the right one.  The bank: a request holds a row the rules accepted.     *)
(***************************************************************************)
(* A set of naturals has a least element.                                  *)
LEMMA Smallest == ASSUME NEW S \in SUBSET Nat, S # {}
                  PROVE  \E m \in S : \A j \in S : m <= j
<1>1. PICK m \in S : \A j \in S : <<j, m>> \notin OpToRel(<, Nat)
  BY NatLessThanWellFounded, WFMin
<1>2. \A j \in S : ~(j < m)  BY <1>1 DEF OpToRel
<1>3. \A j \in S : j \in Nat /\ m \in Nat  OBVIOUS
<1>4. \A j \in S : m <= j  BY <1>2, <1>3
<1> QED  BY <1>4

LEMMA TwoAreMore ==
    ASSUME NEW S, IsFiniteSet(S), NEW a \in S, NEW b \in S, a # b
    PROVE  Cardinality(S) > 1
<1>1. Cardinality(S) \in Nat  BY FS_CardinalityType
<1>2. Cardinality(S) # 0  BY FS_EmptySet
<1>3. Cardinality(S) # 1  BY FS_Singleton
<1> QED  BY <1>1, <1>2, <1>3

LEMMA PlacesOfOptions ==
    ASSUME NEW s, s \in Seq(ToSet(s))
    PROVE  /\ IsFiniteSet(ToSet(s)) /\ Cardinality(ToSet(s)) \in Nat
           /\ Cardinality(ToSet(s)) <= Len(s)
           /\ Cardinality(ToSet(s)) = Len(s) =>
                 \A i, j \in DOMAIN s : i # j => s[i] # s[j]
<1>1. Len(s) \in Nat /\ DOMAIN s = 1 .. Len(s)  OBVIOUS
<1>2. IsFiniteSet(1 .. Len(s)) /\ Cardinality(1 .. Len(s)) = Len(s)
  BY <1>1, FS_Interval
<1>3. s \in Surjection(1 .. Len(s), ToSet(s))  BY <1>1 DEF Surjection, ToSet
<1>4. /\ IsFiniteSet(ToSet(s)) /\ Cardinality(ToSet(s)) <= Len(s)
      /\ Cardinality(ToSet(s)) = Len(s) => s \in Injection(1 .. Len(s), ToSet(s))
  BY <1>2, <1>3, FS_Surjection
<1>5. Cardinality(ToSet(s)) \in Nat  BY <1>4, FS_CardinalityType
<1>6. s \in Injection(1 .. Len(s), ToSet(s)) =>
         \A i, j \in 1 .. Len(s) : i # j => s[i] # s[j]
  BY DEF Injection, IsInjective
<1> QED  BY <1>1, <1>4, <1>5, <1>6

LEMMA OrdersFinite ==
    ASSUME NEW S, IsFiniteSet(S) PROVE IsFiniteSet(SetToSeqs(S))
<1> DEFINE D == 1 .. Cardinality(S)
           graph == [f \in [D -> S] |-> {<<i, f[i]>> : i \in D}]
<1>1. IsFiniteSet(D)
  <2>1. Cardinality(S) \in Nat  BY FS_CardinalityType
  <2> QED  BY <2>1, FS_Interval
<1> HIDE DEF D
<1>2. IsFiniteSet(SUBSET (D \X S))
  <2>1. IsFiniteSet(D \X S)  BY <1>1, FS_Product
  <2> QED  BY <2>1, FS_SUBSET
<1>3. graph \in Injection([D -> S], SUBSET (D \X S))
  <2>1. graph \in [[D -> S] -> SUBSET (D \X S)]  OBVIOUS
  <2>2. ASSUME NEW f \in [D -> S], NEW g \in [D -> S], graph[f] = graph[g] PROVE f = g
    <3>1. \A i \in D : <<i, f[i]>> \in {<<k, g[k]>> : k \in D}  BY <2>2
    <3>2. \A i \in D : f[i] = g[i]  BY <3>1
    <3> QED  BY <3>2
  <2>3. DOMAIN graph = [D -> S]  OBVIOUS
  <2> HIDE DEF graph
  <2>4. IsInjective(graph)  BY <2>2, <2>3 DEF IsInjective
  <2> QED  BY <2>1, <2>4 DEF Injection
<1>4. IsFiniteSet([D -> S])  BY <1>2, <1>3, FS_Injection
<1>5. SetToSeqs(S) \in SUBSET [D -> S]  BY DEF SetToSeqs, D
<1> QED  BY <1>4, <1>5, FS_Subset

(* The replies that the page of a choice or an ordering offers.            *)
LEMMA RepliesOf ==
    ASSUME NEW shape, NEW S, IsFiniteSet(S)
    PROVE  IsFiniteSet({[shape |-> shape, is |-> x] : x \in S})
<1> DEFINE f == [x \in S |-> [shape |-> shape, is |-> x]]
<1>1. f \in Surjection(S, {[shape |-> shape, is |-> x] : x \in S})  BY DEF Surjection
<1> QED  BY <1>1, FS_Surjection

(* Another order of the same options, with one of them kept in its place.  *)
LEMMA Swapped ==
    ASSUME NEW S, NEW n \in Nat, n = Cardinality(S), NEW p \in SetToSeqs(S),
           NEW i \in 1 .. n, NEW j \in 1 .. n, i # j
    PROVE  \E t \in SetToSeqs(S) : t # p /\ \A k \in 1 .. n : k # i /\ k # j => t[k] = p[k]
<1> DEFINE t == [k \in 1 .. n |-> IF k = i THEN p[j] ELSE IF k = j THEN p[i] ELSE p[k]]
<1>1. /\ p \in [1 .. n -> S]
      /\ \A k, l \in 1 .. n : k # l => p[k] # p[l]
  BY DEF SetToSeqs
<1>2. t \in [1 .. n -> S]  BY <1>1
<1>3. t[i] = p[j] /\ t[j] = p[i] /\ \A k \in 1 .. n : k # i /\ k # j => t[k] = p[k]  OBVIOUS
<1> HIDE DEF t
<1>4. \A k, l \in 1 .. n : k # l => t[k] # t[l]  BY <1>1, <1>3
<1>5. t \in SetToSeqs(S)  BY <1>2, <1>4 DEF SetToSeqs
<1>6. t # p  BY <1>1, <1>3
<1> QED  BY <1>3, <1>5, <1>6

LEMMA AnotherOrder ==
    ASSUME NEW S, Cardinality(S) \in Nat, Cardinality(S) >= 2, NEW p \in SetToSeqs(S)
    PROVE  \E t \in SetToSeqs(S) : t # p
<1>1. 1 \in 1 .. Cardinality(S) /\ 2 \in 1 .. Cardinality(S)  OBVIOUS
<1> QED  BY <1>1, Swapped

LEMMA AnotherStart ==
    ASSUME NEW S, Cardinality(S) \in Nat, Cardinality(S) >= 3, NEW p \in SetToSeqs(S)
    PROVE  \E t \in SetToSeqs(S) : t # p /\ t[1] = p[1]
<1>1. 1 \in 1 .. Cardinality(S) /\ 2 \in 1 .. Cardinality(S) /\ 3 \in 1 .. Cardinality(S)
  OBVIOUS
<1>2. \E t \in SetToSeqs(S) :
         t # p /\ \A k \in 1 .. Cardinality(S) : k # 2 /\ k # 3 => t[k] = p[k]
  BY <1>1, Swapped
<1> QED  BY <1>1, <1>2

LEMMA ChoiceFair ==
    ASSUME NEW q, QuestionShaped(q),
           q.type = "MULTIPLE_CHOICE", validateQuestionContent(q)
    PROVE  QuestionFair(q)
<1> DEFINE S == optionIdSet(q)
           a == q.correct.is
           n == Len(q.options)
           told(x) == [shape |-> "optionId", is |-> x]
<1>1. q.options \in Seq(S) /\ n \in Nat /\ DOMAIN q.options = 1 .. n
  BY DEF QuestionShaped, OptionsShaped, optionIdSet
<1>2. n >= 2 /\ a \in S  BY DEF validateQuestionContent
<1>3. /\ IsFiniteSet(S) /\ Cardinality(S) \in Nat
      /\ distinctIds(q) => \A i, j \in 1 .. n : i # j => q.options[i] # q.options[j]
      /\ distinctIds(q) => Cardinality(S) = n
  BY <1>1, PlacesOfOptions DEF optionIdSet, distinctIds
<1>4. Replies(q) = {told(x) : x \in S}  BY DEF Replies
<1>5. \A x : gradeQuestion(q, told(x)) <=> x = a
  BY DEF gradeQuestion, submissionShape, answerShape
<1>6. \A x \in S : told(x) \in Replies(q)  BY <1>4
<1>7. {reply \in Replies(q) : gradeQuestion(q, reply)} = {told(a)}  BY <1>2, <1>4, <1>5
<1>8. ASSUME distinctIds(q) PROVE Cardinality(Replies(q)) > 1
  <2>1. IsFiniteSet(Replies(q))  BY <1>3, <1>4, RepliesOf
  <2>2. q.options[1] \in S /\ q.options[2] \in S /\ q.options[1] # q.options[2]
    BY <1>1, <1>2, <1>3, <1>8 DEF optionIdSet, ToSet
  <2>3. told(q.options[1]) # told(q.options[2])  BY <2>2
  <2> HIDE DEF told
  <2> QED  BY <1>6, <2>1, <2>2, <2>3, TwoAreMore
<1>9. Answerable(q)
  <2>1. Cardinality({told(a)}) = 1  BY FS_Singleton
  <2> HIDE DEF told
  <2> QED  BY <1>7, <1>8, <2>1 DEF Answerable
<1>10. ASSUME distinctIds(q), NEW hint \in narrowed(q)
       PROVE  /\ hint.shape = "eliminate" /\ a \notin hint.ids
              /\ \E x \in S : x # a /\ x \notin hint.ids
  <2>1. hint \in narrowMultipleChoice(q)  BY <1>10 DEF narrowed
  <2> DEFINE e == eliminateCount(q)
  <2>2. /\ ~(e < 1)
        /\ \E picked \in kSubset(e, distractors(q)) :
              hint = [shape |-> "eliminate", ids |-> {q.options[i] : i \in picked}]
    BY <2>1 DEF narrowMultipleChoice
  <2>3. PICK picked \in kSubset(e, distractors(q)) :
              hint = [shape |-> "eliminate", ids |-> {q.options[i] : i \in picked}]
    BY <2>2
  <2>4. picked \subseteq distractors(q) /\ Cardinality(picked) = e  BY DEF kSubset
  <2>5. IsFiniteSet(distractors(q)) /\ picked \subseteq 1 .. n /\ IsFiniteSet(picked)
    <3>1. distractors(q) \in SUBSET (1 .. n)  BY <1>1 DEF distractors
    <3>2. IsFiniteSet(1 .. n)  BY <1>1, FS_Interval
    <3> QED  BY <2>4, <3>1, <3>2, FS_Subset
  <2>6. e <= n - 2
    <3>1. Cardinality(distractors(q)) \in Nat  BY <2>5, FS_CardinalityType
    <3>2. (Cardinality(distractors(q)) + 1) \div 2 \in Nat  BY <3>1
    <3> QED  BY <1>1, <1>2, <3>2 DEF eliminateCount, smaller
  <2> HIDE DEF e
  <2>7. hint.shape = "eliminate" /\ hint.ids = {q.options[i] : i \in picked}  BY <2>3
  <2>8. a \notin hint.ids
    BY <2>4, <2>7 DEF distractors
  <2> DEFINE f == [i \in picked |-> q.options[i]]
  <2>9. f \in Surjection(picked, hint.ids)  BY <2>7 DEF Surjection
  <2>10. IsFiniteSet(hint.ids) /\ Cardinality(hint.ids) <= e
    BY <2>4, <2>5, <2>9, FS_Surjection
  <2>11. /\ IsFiniteSet(hint.ids \cup {a})
         /\ Cardinality(hint.ids \cup {a}) = Cardinality(hint.ids) + 1
         /\ Cardinality(hint.ids) \in Nat
    BY <2>8, <2>10, FS_AddElement, FS_CardinalityType
  <2>12. Cardinality(hint.ids \cup {a}) < n
    <3>1. e \in Nat  BY <2>4, <2>5, FS_CardinalityType
    <3> QED  BY <1>1, <2>6, <2>10, <2>11, <3>1
  <2>13. ~(S \subseteq hint.ids \cup {a})
    <3>1. ASSUME S \in SUBSET (hint.ids \cup {a}) PROVE FALSE
      <4>1. Cardinality(S) <= Cardinality(hint.ids \cup {a})  BY <2>11, <3>1, FS_Subset
      <4> QED  BY <1>1, <1>3, <1>10, <2>11, <2>12, <4>1
    <3> QED  BY <3>1
  <2> QED  BY <2>7, <2>8, <2>13
<1>11. HintsLeaveChoice(q)
  <2> SUFFICES ASSUME distinctIds(q), NEW hint \in narrowed(q)
               PROVE  /\ \E reply \in Replies(q) : gradeQuestion(q, reply) /\ compatible(reply, hint)
                      /\ hint.shape # "letters"
                      /\ \E reply \in Replies(q) : ~gradeQuestion(q, reply) /\ compatible(reply, hint)
    BY DEF HintsLeaveChoice
  <2>1. hint.shape = "eliminate" /\ a \notin hint.ids  BY <1>10
  <2>2. PICK x \in S : x # a /\ x \notin hint.ids  BY <1>10
  <2>3. \A y : compatible(told(y), hint) <=> y \notin hint.ids  BY <2>1 DEF compatible
  <2> HIDE DEF told
  <2>4. gradeQuestion(q, told(a)) /\ ~gradeQuestion(q, told(x))  BY <1>5, <2>2
  <2> QED  BY <1>2, <1>6, <2>1, <2>2, <2>3, <2>4
<1> QED  BY <1>9, <1>11 DEF QuestionFair

LEMMA TruthFair ==
    ASSUME NEW q, QuestionShaped(q),
           q.type = "TRUE_FALSE", validateQuestionContent(q)
    PROVE  QuestionFair(q)
<1> DEFINE told(x) == [shape |-> "value", is |-> x]
           a == q.correct.is
<1>1. AnswerShaped(q.correct) /\ q.correct.shape = "value"
  BY DEF QuestionShaped, validateQuestionContent, answerShape
<1>2. a \in BOOLEAN  BY <1>1 DEF AnswerShaped
<1>3. Replies(q) = {told(x) : x \in BOOLEAN}  BY DEF Replies
<1>4. \A x : gradeQuestion(q, told(x)) <=> x = a
  BY DEF gradeQuestion, submissionShape, answerShape
<1>5. {reply \in Replies(q) : gradeQuestion(q, reply)} = {told(a)}  BY <1>2, <1>3, <1>4
<1>6. Cardinality(Replies(q)) > 1
  <2>1. IsFiniteSet(BOOLEAN)
    <3>1. IsFiniteSet({TRUE} \cup {FALSE})  BY FS_Singleton, FS_AddElement
    <3>2. BOOLEAN = {TRUE} \cup {FALSE}  OBVIOUS
    <3> QED  BY <3>1, <3>2
  <2>2. IsFiniteSet(Replies(q))  BY <1>3, <2>1, RepliesOf
  <2>3. told(TRUE) \in Replies(q) /\ told(FALSE) \in Replies(q)  BY <1>3
  <2>4. told(TRUE) # told(FALSE)
    <3>1. told(TRUE).is = TRUE /\ told(FALSE).is = FALSE  OBVIOUS
    <3> QED  BY <3>1
  <2> HIDE DEF told
  <2> QED  BY <2>2, <2>3, <2>4, TwoAreMore
<1>7. Cardinality({told(a)}) = 1  BY FS_Singleton
<1>8. Answerable(q)  BY <1>5, <1>6, <1>7 DEF Answerable
<1>9. HintsLeaveChoice(q)  BY DEF HintsLeaveChoice, narrowed
<1> QED  BY <1>8, <1>9 DEF QuestionFair

LEMMA BlankFair ==
    ASSUME NEW q, QuestionShaped(q),
           q.type = "FILL_BLANK", validateQuestionContent(q)
    PROVE  QuestionFair(q)
<1> DEFINE s == q.correct.is
           told(x) == [shape |-> "text", is |-> x]
<1>1. AnswerShaped(q.correct) /\ q.correct.shape = "accepted" /\ s # <<>>
  BY DEF QuestionShaped, validateQuestionContent, answerShape
<1>2. s \in Seq(ToSet(s)) /\ \A i \in DOMAIN s : s[i].chars \in Nat  BY <1>1 DEF AnswerShaped
<1>3. 1 \in DOMAIN s  BY <1>1, <1>2
<1>4. Replies(q) = {told(s[i]) : i \in DOMAIN s}  BY DEF Replies
<1>5. \A i \in DOMAIN s : gradeQuestion(q, told(s[i]))
  BY DEF gradeQuestion, submissionShape
<1>6. Answerable(q)  BY <1>4, <1>5 DEF Answerable
<1>7. HintsLeaveChoice(q)
  <2> SUFFICES ASSUME NEW hint \in narrowed(q)
               PROVE  /\ \E reply \in Replies(q) : gradeQuestion(q, reply) /\ compatible(reply, hint)
                      /\ hint.shape = "letters" /\ hint.length > 1
    BY DEF HintsLeaveChoice
  <2> DEFINE N == {s[i].chars : i \in DOMAIN s}
             Least(x) == \A i \in DOMAIN s : x <= s[i].chars
             m == shortestAccepted(q)
  <2>1. hint \in narrowFillBlank(q)  BY DEF narrowed
  <2>2. ~(m < 2) /\ hint.shape = "letters" /\ hint.length = m
    BY <2>1 DEF narrowFillBlank
  <2>3. N \in SUBSET Nat /\ N # {}
    <3> HIDE DEF s
    <3> QED  BY <1>2, <1>3
  <2>4. \E x \in N : Least(x)
    <3>1. PICK x \in N : \A y \in N : x <= y  BY <2>3, Smallest
    <3> QED  BY <3>1
  <2>5. m = CHOOSE x \in N : Least(x)  BY DEF shortestAccepted
  <2> HIDE DEF N, Least, m
  <2>6. m \in N  BY <2>4, <2>5
  <2>7. m > 1  BY <2>2, <2>3, <2>6
  <2>8. compatible(told(s[1]), hint)  BY <2>2 DEF compatible
  <2>9. told(s[1]) \in Replies(q) /\ gradeQuestion(q, told(s[1]))  BY <1>3, <1>4, <1>5
  <2> QED  BY <2>2, <2>7, <2>8, <2>9
<1> QED  BY <1>6, <1>7 DEF QuestionFair

LEMMA OrderFair ==
    ASSUME NEW q, QuestionShaped(q),
           q.type = "ORDERING", validateQuestionContent(q)
    PROVE  QuestionFair(q)
<1> DEFINE S == optionIdSet(q)
           s == q.correct.is
           n == Cardinality(S)
           told(x) == [shape |-> "orderedOptionIds", is |-> x]
<1>1. AnswerShaped(q.correct) /\ q.correct.shape = "orderedOptionIds"
  BY DEF QuestionShaped, validateQuestionContent, answerShape
<1>2. s \in Seq(ToSet(s)) /\ q.options \in Seq(S)
  BY <1>1 DEF AnswerShaped, QuestionShaped, OptionsShaped, optionIdSet
<1>3. /\ Len(q.options) >= 2 /\ Len(s) = Len(q.options)
      /\ Cardinality(ToSet(s)) = Len(s) /\ ToSet(s) \subseteq S
  BY DEF validateQuestionContent
<1>4. /\ IsFiniteSet(S) /\ n \in Nat /\ n <= Len(q.options)
      /\ \A i, j \in DOMAIN s : i # j => s[i] # s[j]
  BY <1>2, <1>3, PlacesOfOptions DEF optionIdSet
<1>5. Len(s) \in Nat /\ Len(q.options) \in Nat /\ DOMAIN s = 1 .. Len(s)  BY <1>2
<1>6. S = ToSet(s) /\ n = Len(s)
  <2>1. Cardinality(ToSet(s)) <= n /\ (n = Cardinality(ToSet(s)) => S = ToSet(s))
    BY <1>3, <1>4, FS_Subset
  <2>2. n = Cardinality(ToSet(s))  BY <1>3, <1>4, <1>5, <2>1
  <2> QED  BY <1>3, <2>1, <2>2
<1>7. n >= 2  BY <1>3, <1>6
<1>8. s \in SetToSeqs(S)
  <2>1. \A i \in 1 .. n : s[i] \in S  BY <1>5, <1>6 DEF ToSet
  <2>2. s = [i \in 1 .. n |-> s[i]]  BY <1>2, <1>5, <1>6
  <2> HIDE DEF S, s
  <2>3. s \in [1 .. n -> S]  BY <2>1, <2>2
  <2> QED  BY <1>4, <1>5, <1>6, <2>3 DEF SetToSeqs
<1>9. Replies(q) = {told(x) : x \in SetToSeqs(S)}  BY DEF Replies
<1>10. \A x : gradeQuestion(q, told(x)) <=> x = s
  BY DEF gradeQuestion, submissionShape, answerShape
<1>11. {reply \in Replies(q) : gradeQuestion(q, reply)} = {told(s)}  BY <1>8, <1>9, <1>10
<1>12. \A x \in SetToSeqs(S) : told(x) \in Replies(q)  BY <1>9
<1> HIDE DEF S
<1>13. Cardinality(Replies(q)) > 1
  <2>1. IsFiniteSet(Replies(q))  BY <1>4, <1>9, OrdersFinite, RepliesOf
  <2>2. PICK t \in SetToSeqs(S) : t # s  BY <1>4, <1>7, <1>8, AnotherOrder
  <2>3. told(t) # told(s)
    <3>1. told(t).is = t /\ told(s).is = s  OBVIOUS
    <3> QED  BY <2>2, <3>1
  <2> HIDE DEF told
  <2> QED  BY <1>8, <1>12, <2>1, <2>2, <2>3, TwoAreMore
<1>14. Answerable(q)
  <2>1. Cardinality({told(s)}) = 1  BY FS_Singleton
  <2> HIDE DEF told
  <2> QED  BY <1>11, <1>13, <2>1 DEF Answerable
<1>15. HintsLeaveChoice(q)
  <2> SUFFICES ASSUME NEW hint \in narrowed(q)
               PROVE  /\ \E reply \in Replies(q) : gradeQuestion(q, reply) /\ compatible(reply, hint)
                      /\ hint.shape # "letters"
                      /\ \E reply \in Replies(q) : ~gradeQuestion(q, reply) /\ compatible(reply, hint)
    BY DEF HintsLeaveChoice
  <2>1. hint \in narrowOrdering(q)  BY DEF narrowed
  <2>2. ~(Len(s) < 3) /\ hint = [shape |-> "firstOption", id |-> s[1]]
    BY <2>1 DEF narrowOrdering
  <2>3. hint.shape = "firstOption" /\ hint.id = s[1]  BY <2>2
  <2>4. n >= 3  BY <1>4, <1>6, <2>2
  <2>5. PICK t \in SetToSeqs(S) : t # s /\ t[1] = s[1]  BY <1>4, <1>8, <2>4, AnotherStart
  <2>7. \A y : compatible(told(y), hint) <=> y[1] = hint.id  BY <2>3 DEF compatible
  <2> HIDE DEF told
  <2>8. gradeQuestion(q, told(s)) /\ ~gradeQuestion(q, told(t))  BY <1>10, <2>5
  <2> QED  BY <1>8, <1>12, <2>3, <2>5, <2>7, <2>8
<1> QED  BY <1>14, <1>15 DEF QuestionFair

(* What an author can save, a student can answer, and no first hint of the *)
(* trap hunter gives the answer away, whatever the options and spellings   *)
(* (validateQuestionContent, gradeQuestion, buildTrapHints).               *)
THEOREM QuestionsAlwaysFair ==
    ASSUME NEW q, QuestionShaped(q)
    PROVE  QuestionFair(q)
<1>1. CASE ~validateQuestionContent(q)
  BY <1>1 DEF QuestionFair, Answerable, HintsLeaveChoice
<1>2. CASE validateQuestionContent(q)
  <2>1. q.type \in QuestionTypes  BY DEF QuestionShaped
  <2> QED  BY <1>2, <2>1, ChoiceFair, TruthFair, BlankFair, OrderFair DEF QuestionTypes
<1> QED  BY <1>1, <1>2

(* The bank: a question that is there has the shape of one, and fits its   *)
(* rules unless a patch was written on a row it had not read.  What a      *)
(* request waits to write, it has checked on the row it read.              *)
BankInv ==
    /\ DOMAIN patcher = Patchers
    /\ bankRow # None => /\ QuestionShaped(bankRow)
                         /\ ~crossed => validateQuestionContent(bankRow)
    /\ \A r \in Patchers : patcher[r].pc = "write" =>
          patcher[r].patch \in Patches /\ checked(patcher[r].read, patcher[r].patch)

LEMMA PatchedShaped ==
    ASSUME NEW row, QuestionShaped(row), NEW patch \in Patches
    PROVE  QuestionShaped(patched(row, patch))
<1> DEFINE D == {"type", "options", "correct"}
           new == patched(row, patch)
<1>1. D \subseteq DOMAIN row /\ DOMAIN patch = D  BY BankAssumption DEF QuestionShaped
<1>2. DOMAIN new = DOMAIN row
      /\ \A f \in D : new[f] = IF patch[f] # None THEN patch[f] ELSE row[f]
  BY <1>1 DEF patched
<1> HIDE DEF new
<1>3. new.type \in QuestionTypes  BY <1>2, BankAssumption DEF QuestionShaped
<1>4. OptionsShaped(new.options)  BY <1>2, BankAssumption DEF QuestionShaped
<1>5. AnswerShaped(new.correct)  BY <1>2, BankAssumption DEF QuestionShaped
<1> QED  BY <1>1, <1>2, <1>3, <1>4, <1>5 DEF QuestionShaped, new

LEMMA BankKept == BankInv /\ [BankNext]_bankVars => BankInv'
<1> SUFFICES ASSUME BankInv, [BankNext]_bankVars PROVE BankInv'  OBVIOUS
<1>1. CASE UNCHANGED bankVars  BY <1>1 DEF bankVars, BankInv
<1>2. CASE RemoveQuestion  BY <1>2 DEF RemoveQuestion, BankInv
<1>3. ASSUME NEW r \in Patchers, NEW patch \in Patches, ReadQuestion(r, patch) PROVE BankInv'
  <2>1. DOMAIN patcher' = Patchers /\ UNCHANGED <<bankRow, crossed>>
    BY <1>3 DEF ReadQuestion, BankInv
  <2>2. ASSUME NEW s \in Patchers, patcher'[s].pc = "write"
        PROVE  patcher'[s].patch \in Patches /\ checked(patcher'[s].read, patcher'[s].patch)
    <3>1. CASE s # r
      <4>1. patcher'[s] = patcher[s]  BY <1>3, <3>1 DEF ReadQuestion, BankInv
      <4> QED  BY <2>2, <4>1 DEF BankInv
    <3>2. CASE s = r
      <4>1. patcher'[r] = IF bankRow = None \/ ~checked(bankRow, patch) THEN [pc |-> "refused"]
                          ELSE [pc |-> "write", patch |-> patch, read |-> bankRow]
        BY <1>3 DEF ReadQuestion, BankInv
      <4>2. CASE bankRow = None \/ ~checked(bankRow, patch)
        <5>1. patcher'[r] = [pc |-> "refused"]  BY <4>1, <4>2
        <5> QED  BY <2>2, <3>2, <5>1
      <4>3. CASE ~(bankRow = None \/ ~checked(bankRow, patch))
        <5>1. patcher'[r] = [pc |-> "write", patch |-> patch, read |-> bankRow]  BY <4>1, <4>3
        <5>2. patcher'[r].patch = patch /\ patcher'[r].read = bankRow  BY <5>1
        <5> QED  BY <3>2, <4>3, <5>2
      <4> QED  BY <4>2, <4>3
    <3> QED  BY <3>1, <3>2
  <2> QED  BY <2>1, <2>2 DEF BankInv
<1>4. ASSUME NEW r \in Patchers, WriteQuestion(r) PROVE BankInv'
  <2>1. patcher[r].pc = "write"  BY <1>4 DEF WriteQuestion
  <2> DEFINE patch == patcher[r].patch
  <2>2. patch \in Patches /\ checked(patcher[r].read, patch)  BY <2>1 DEF BankInv
  <2>3. /\ DOMAIN patcher' = Patchers
        /\ \A s \in Patchers : patcher'[s].pc = "write" => patcher'[s] = patcher[s]
    BY <1>4 DEF WriteQuestion, BankInv
  <2>4. CASE bankRow = None  BY <1>4, <2>3, <2>4 DEF WriteQuestion, BankInv
  <2>5. CASE bankRow # None
    <3>1. /\ bankRow' = patched(bankRow, patch)
          /\ ~crossed' => bankRow = patcher[r].read
      BY <1>4, <2>5 DEF WriteQuestion
    <3>2. QuestionShaped(bankRow')  BY <2>2, <2>5, <3>1, PatchedShaped DEF BankInv
    <3>3. ~crossed' => validateQuestionContent(bankRow')  BY <2>2, <3>1 DEF checked
    <3> QED  BY <2>3, <3>2, <3>3 DEF BankInv
  <2> QED  BY <2>4, <2>5
<1> QED  BY <1>1, <1>2, <1>3, <1>4 DEF BankNext

(* A question of the bank can be answered, however it was patched, unless  *)
(* two patches crossed (PlacementQuestionService.update).                  *)
THEOREM BankAlwaysAnswerable == BankSpec => []BankAnswerable
<1>1. BankInit => BankInv  BY BankAssumption DEF BankInit, BankInv
<1>2. BankInv => BankAnswerable
  <2> SUFFICES ASSUME BankInv, bankRow # None, ~crossed PROVE Answerable(bankRow)
    BY DEF BankAnswerable, BankInv
  <2> QED  BY QuestionsAlwaysFair DEF BankInv, QuestionFair
<1> QED  BY <1>1, <1>2, BankKept, PTL DEF BankSpec
-----------------------------------------------------------------------------
(* Recordings and the pages of their catalogue.                            *)

LEMMA ElementOf == ASSUME NEW S, NEW s \in Seq(S), NEW k \in 1 .. Len(s) PROVE s[k] \in S
OBVIOUS

(* Of a recording that may be published no moment belongs to two           *)
(* sentences, and they come in the order they are heard, however many      *)
(* there are (validateSegmentDocument, validateContentForPublish).         *)
THEOREM RecordingsAlwaysPlay ==
    ASSUME NEW draft, draft.segments \in Seq([from : Int, to : Int])
    PROVE  RecordingPlays(draft)
<1> DEFINE s == draft.segments
<1> SUFFICES ASSUME validateContentForPublish(draft), NEW i \in DOMAIN s, NEW j \in DOMAIN s, i < j
             PROVE  s[i].to <= s[j].from
  BY DEF RecordingPlays
<1>1. sane(s) /\ \A k \in 2 .. Len(s) : s[k].from >= s[k - 1].to
  BY DEF validateContentForPublish
<1> DEFINE n == Len(s)
<1>2. n \in Nat /\ DOMAIN s = 1 .. n  OBVIOUS
<1>3. \A k \in 1 .. n : s[k].from \in Int /\ s[k].to \in Int
  <2>1. \A k \in 1 .. n : s[k] \in [from : Int, to : Int]  BY ElementOf
  <2> HIDE DEF s, n
  <2> QED  BY <2>1
<1>4. \A k \in 1 .. n : s[k].to > s[k].from  BY <1>1, <1>2 DEF sane
<1> DEFINE Bad == {k \in 1 .. n : i < k /\ ~(s[i].to <= s[k].from)}
<1> HIDE DEF s
<1>5. ASSUME Bad # {} PROVE FALSE
  <2>1. Bad \in SUBSET Nat  BY <1>2
  <2>2. PICK k \in Bad : \A l \in Bad : k <= l  BY <1>5, <2>1, Smallest
  <2>3. k \in 2 .. n /\ i \in 1 .. n /\ i < k  BY <1>2, <2>2
  <2>4. s[k].from >= s[k - 1].to  BY <1>1, <2>3
  <2>5. k - 1 \in 1 .. n /\ k - 1 \notin Bad  BY <1>2, <2>2, <2>3
  <2>6. CASE k - 1 = i  BY <1>3, <2>2, <2>3, <2>4, <2>6
  <2>7. CASE k - 1 # i
    <3>1. s[i].to <= s[k - 1].from  BY <1>2, <2>3, <2>5, <2>7
    <3>2. s[k - 1].from < s[k - 1].to  BY <1>4, <2>5
    <3>3. /\ s[i].to \in Int /\ s[k - 1].from \in Int /\ s[k - 1].to \in Int /\ s[k].from \in Int
          /\ ~(s[i].to <= s[k].from)
      BY <1>3, <2>2, <2>3, <2>5
    <3> QED  BY <2>4, <3>1, <3>2, <3>3
  <2> QED  BY <2>6, <2>7
<1> QED  BY <1>2, <1>5

(* The row that place k of page n holds, with pages of `take` rows, and how *)
(* many pages N rows fill.                                                 *)
Row(n, k, take)  == (n - 1) * take + k
Filled(N, take)  == (N + take - 1) \div take

LEMMA Parts ==
    ASSUME NEW y \in Nat, NEW d \in Nat \ {0}
    PROVE  y \div d \in Nat /\ d * (y \div d) <= y /\ y < d * (y \div d) + d
<1>1. y \div d \in Int /\ y \div d >= 0  BY SMTT(30)
<1>2. d * (y \div d) <= y  BY SMTT(30)
<1>3. y < d * (y \div d) + d  BY SMTT(30)
<1> QED  BY <1>1, <1>2, <1>3

LEMMA Products ==
    ASSUME NEW m \in Nat, NEW n \in Nat, NEW d \in Nat \ {0}, m < n
    PROVE  m * d \in Nat /\ n * d \in Nat /\ m * d + d <= n * d
<1>1. n - m - 1 \in Nat  OBVIOUS
<1>2. (n - m - 1) * d \in Nat /\ n * d = m * d + d + (n - m - 1) * d  BY <1>1
<1>3. m * d \in Nat /\ n * d \in Nat  OBVIOUS
<1> QED  BY <1>2, <1>3

LEMMA RowFromOne ==
    ASSUME NEW n \in Nat \ {0}, NEW take \in Nat \ {0}, NEW k \in 1 .. take
    PROVE  Row(n, k, take) \in Nat \ {0}
<1>1. (n - 1) * take \in Nat
  <2>1. n - 1 \in Nat  OBVIOUS
  <2> QED  BY <2>1
<1> QED  BY <1>1 DEF Row

LEMMA RowUnique ==
    ASSUME NEW take \in Nat \ {0}, NEW m \in Nat \ {0}, NEW n \in Nat \ {0},
           NEW k \in 1 .. take, NEW l \in 1 .. take, Row(m, k, take) = Row(n, l, take)
    PROVE  m = n /\ k = l
<1> DEFINE a == m - 1  b == n - 1
<1>1. a \in Nat /\ b \in Nat /\ m = a + 1 /\ n = b + 1  OBVIOUS
<1>2. a * take + k = b * take + l  BY DEF Row
<1> HIDE DEF a, b
<1>3. a * take \in Nat /\ b * take \in Nat  BY <1>1
<1>4. ASSUME a < b PROVE FALSE
  <2>1. a * take + take <= b * take  BY <1>1, <1>4, Products
  <2> QED  BY <1>2, <1>3, <2>1
<1>5. ASSUME b < a PROVE FALSE
  <2>1. b * take + take <= a * take  BY <1>1, <1>5, Products
  <2> QED  BY <1>2, <1>3, <2>1
<1>6. a = b  BY <1>1, <1>4, <1>5
<1>7. k = l  BY <1>2, <1>3, <1>6
<1> QED  BY <1>1, <1>6, <1>7

LEMMA FilledHolds ==
    ASSUME NEW N \in Nat, NEW take \in Nat \ {0}
    PROVE  Filled(N, take) \in Nat /\ N <= Filled(N, take) * take
<1> DEFINE y == N + take - 1
<1>1. y \in Nat  OBVIOUS
<1>2. Filled(N, take) = y \div take  BY DEF Filled
<1> DEFINE T == y \div take
<1>3. T \in Nat /\ y < take * T + take
  <2> HIDE DEF y
  <2> QED  BY <1>1, Parts
<1> HIDE DEF T
<1>4. take * T \in Nat /\ take * T = T * take  BY <1>3
<1>5. N <= T * take  BY <1>3, <1>4
<1> QED  BY <1>2, <1>3, <1>5 DEF T

LEMMA RowOnAPage ==
    ASSUME NEW N \in Nat, NEW take \in Nat \ {0}, NEW x \in 1 .. N
    PROVE  \E n \in 1 .. Filled(N, take), k \in 1 .. take : Row(n, k, take) = x
<1> DEFINE y == x - 1
           m == y \div take
           T == Filled(N, take)
<1>1. y \in Nat /\ x = y + 1  OBVIOUS
<1> HIDE DEF y
<1>2. m \in Nat /\ take * m <= y /\ y < take * m + take  BY <1>1, Parts
<1>3. T \in Nat /\ N <= T * take  BY FilledHolds
<1> HIDE DEF m, T
<1>4. take * m \in Nat /\ take * m = m * take  BY <1>2
<1> DEFINE k == x - m * take
<1>5. k \in 1 .. take /\ m * take + k = x  BY <1>1, <1>2, <1>4
<1> HIDE DEF k
<1>6. m < T
  <2>1. CASE T = m  BY <1>1, <1>2, <1>3, <1>4, <2>1
  <2>2. ASSUME T < m PROVE FALSE
    <3>1. T * take \in Nat /\ T * take + take <= m * take  BY <1>2, <1>3, <2>2, Products
    <3> QED  BY <1>1, <1>2, <1>3, <1>4, <3>1
  <2> QED  BY <1>2, <1>3, <2>1, <2>2
<1>7. m + 1 \in 1 .. T  BY <1>2, <1>3, <1>6
<1>8. Row(m + 1, k, take) = x
  <2>1. (m + 1) - 1 = m  BY <1>2
  <2>2. Row(m + 1, k, take) = ((m + 1) - 1) * take + k  BY DEF Row
  <2>3. ((m + 1) - 1) * take + k = m * take + k  BY <2>1
  <2> QED  BY <1>5, <2>2, <2>3
<1> QED  BY <1>5, <1>7, <1>8 DEF T

LEMMA RowsListed ==
    ASSUME NEW cards \in SUBSET Pieces, NEW listed \in cardOrders(cards)
    PROVE  LET N == Cardinality(cards)
           IN  /\ N \in Nat /\ Len(listed) = N /\ listed \in Seq(cards) /\ DOMAIN listed = 1 .. N
               /\ cards = {listed[x] : x \in 1 .. N}
<1> DEFINE N == Cardinality(cards)
<1>1. IsFiniteSet(cards) /\ N \in Nat  BY TopicsAssumption, FS_Subset, FS_CardinalityType
<1>2. IsFiniteSet(1 .. N) /\ Cardinality(1 .. N) = N  BY <1>1, FS_Interval
<1>3. /\ listed \in [1 .. N -> cards]
      /\ \A j, k \in 1 .. N : j < k => listed[j] # listed[k]
  BY DEF cardOrders
<1> HIDE DEF N
<1>4. \A j, k \in 1 .. N : j # k => listed[j] # listed[k]  BY <1>1, <1>3
<1>5. listed \in Injection(1 .. N, cards)
  <2>1. IsInjective(listed)  BY <1>3, <1>4 DEF IsInjective
  <2> QED  BY <1>3, <2>1 DEF Injection
<1>6. listed \in Surjection(1 .. N, cards)  BY <1>1, <1>2, <1>5, FS_Injection DEF N
<1>7. \A c \in cards : \E x \in 1 .. N : listed[x] = c  BY <1>6 DEF Surjection
<1>8. listed \in Seq(cards) /\ Len(listed) = N /\ DOMAIN listed = 1 .. N  BY <1>1, <1>3
<1> QED  BY <1>1, <1>3, <1>7, <1>8 DEF N

LEMMA PartOf ==
    ASSUME NEW S, NEW s \in Seq(S), NEW m \in Nat, NEW n \in Nat
    PROVE  SubSeq(s, m, n) = [i \in 1 .. (1 + n - m) |-> s[i + m - 1]]
OBVIOUS

(* What a page holds.                                                      *)
LEMMA PageOf ==
    ASSUME NEW S, NEW listed \in Seq(S), NEW skip \in Nat, NEW take \in Nat \ {0}
    PROVE  LET N    == Len(listed)
               last == IF skip + take < N THEN skip + take ELSE N
               data == SubSeq(listed, skip + 1, last)
           IN  /\ DOMAIN data = {k \in 1 .. take : skip + k <= N}
               /\ \A k \in DOMAIN data : data[k] = listed[skip + k]
               /\ N <= skip => data = <<>>
<1> DEFINE N    == Len(listed)
           last == IF skip + take < N THEN skip + take ELSE N
           data == SubSeq(listed, skip + 1, last)
<1>1. N \in Nat /\ last \in Nat  OBVIOUS
<1>2. data = [k \in 1 .. (1 + last - (skip + 1)) |-> listed[k + (skip + 1) - 1]]
  BY <1>1, PartOf
<1>3. 1 + last - (skip + 1) = last - skip /\ \A k \in Int : k + (skip + 1) - 1 = skip + k
  BY <1>1
<1>4. data = [k \in 1 .. (last - skip) |-> listed[skip + k]]  BY <1>2, <1>3
<1>5. 1 .. (last - skip) = {k \in 1 .. take : skip + k <= N}  BY <1>1
<1>6. N <= skip => data = <<>>
  <2> SUFFICES ASSUME N <= skip PROVE data = <<>>  OBVIOUS
  <2>1. 1 .. (last - skip) = {}  BY <1>1
  <2> HIDE DEF last, data
  <2>2. data = [k \in {} |-> listed[skip + k]]  BY <1>4, <2>1
  <2>3. DOMAIN data = {} /\ data \in Seq(S)  BY <2>2
  <2> QED  BY <2>3
<1> HIDE DEF data, last
<1> QED  BY <1>4, <1>5, <1>6 DEF data, last

(* All pages together: every row stands in one place.                      *)
AllPages(turned, listed, N, take) ==
    /\ DOMAIN turned = 1 .. Filled(N, take) + 1
    /\ \A n \in DOMAIN turned :
          /\ DOMAIN turned[n] = {k \in 1 .. take : Row(n, k, take) <= N}
          /\ \A k \in DOMAIN turned[n] : turned[n][k] = listed[Row(n, k, take)]

Shown(turned)   == {turned[x[1]][x[2]] : x \in Places(turned)}
Told(listed, N) == {listed[x] : x \in 1 .. N}

LEMMA PlacesOfPages ==
    ASSUME NEW N \in Nat, NEW take \in Nat \ {0}, NEW listed, NEW turned,
           AllPages(turned, listed, N, take)
    PROVE  Cardinality(Places(turned)) = N /\ Shown(turned) = Told(listed, N)
<1> DEFINE Met == Places(turned)
           at  == [x \in Met |-> Row(x[1], x[2], take)]
           T   == Filled(N, take)
<1>0. /\ DOMAIN turned = 1 .. T + 1
      /\ \A n \in DOMAIN turned :
            /\ DOMAIN turned[n] = {k \in 1 .. take : Row(n, k, take) <= N}
            /\ \A k \in DOMAIN turned[n] : turned[n][k] = listed[Row(n, k, take)]
  BY DEF AllPages
<1>1. T \in Nat  BY FilledHolds
<1>2. \A x \in Met : /\ x = <<x[1], x[2]>>
                     /\ x[1] \in DOMAIN turned /\ x[2] \in DOMAIN turned[x[1]]
  BY DEF Places
<1>3. \A n, k : n \in DOMAIN turned /\ k \in DOMAIN turned[n] => <<n, k>> \in Met
  BY DEF Places
<1> HIDE DEF Met
<1>4. \A x \in Met : /\ x[1] \in Nat \ {0} /\ x[2] \in 1 .. take /\ at[x] <= N
                     /\ turned[x[1]][x[2]] = listed[at[x]]
  <2> SUFFICES ASSUME NEW x \in Met
               PROVE  /\ x[1] \in Nat \ {0} /\ x[2] \in 1 .. take
                      /\ Row(x[1], x[2], take) <= N
                      /\ turned[x[1]][x[2]] = listed[Row(x[1], x[2], take)]
    OBVIOUS
  <2>1. x[1] \in DOMAIN turned /\ x[2] \in DOMAIN turned[x[1]]  BY <1>2
  <2>2. x[1] \in Nat \ {0}  BY <1>0, <1>1, <2>1
  <2> QED  BY <1>0, <2>1, <2>2
<1>5. at \in [Met -> 1 .. N]
  <2> SUFFICES ASSUME NEW x \in Met PROVE Row(x[1], x[2], take) \in 1 .. N  OBVIOUS
  <2>1. Row(x[1], x[2], take) \in Nat \ {0} /\ Row(x[1], x[2], take) <= N
    BY <1>4, RowFromOne
  <2> QED  BY <2>1
<1>6. ASSUME NEW x \in Met, NEW y \in Met, at[x] = at[y] PROVE x = y
  <2>1. Row(x[1], x[2], take) = Row(y[1], y[2], take)  BY <1>6
  <2>2. x[1] = y[1] /\ x[2] = y[2]  BY <1>4, <2>1, RowUnique
  <2> QED  BY <1>2, <2>2
<1>7. ASSUME NEW z \in 1 .. N PROVE \E x \in Met : at[x] = z
  <2>1. PICK n \in 1 .. T, k \in 1 .. take : Row(n, k, take) = z  BY RowOnAPage
  <2>2. n \in DOMAIN turned /\ k \in DOMAIN turned[n]
    <3>1. n \in DOMAIN turned  BY <1>0, <1>1
    <3>2. Row(n, k, take) <= N  BY <2>1
    <3> QED  BY <1>0, <3>1, <3>2
  <2>3. <<n, k>> \in Met  BY <1>3, <2>2
  <2>4. at[<<n, k>>] = z  BY <2>1, <2>3
  <2> QED  BY <2>3, <2>4
<1>8. DOMAIN at = Met  OBVIOUS
<1>9. {turned[x[1]][x[2]] : x \in Met} = {listed[x] : x \in 1 .. N}
  <2> HIDE DEF at
  <2>1. {turned[x[1]][x[2]] : x \in Met} = {listed[at[x]] : x \in Met}  BY <1>4
  <2>2. ASSUME NEW z \in 1 .. N PROVE listed[z] \in {listed[at[x]] : x \in Met}  BY <1>7
  <2>3. ASSUME NEW x \in Met PROVE listed[at[x]] \in {listed[z] : z \in 1 .. N}
    <3>1. at[x] \in 1 .. N  BY <1>5
    <3> QED  BY <3>1
  <2> QED  BY <2>1, <2>2, <2>3
<1> HIDE DEF at
<1>10. Cardinality(Met) = N
  <2>1. at \in Injection(Met, 1 .. N)
    <3>1. IsInjective(at)  BY <1>6, <1>8 DEF IsInjective
    <3> QED  BY <1>5, <3>1 DEF Injection
  <2>2. at \in Surjection(Met, 1 .. N)  BY <1>5, <1>7 DEF Surjection
  <2>3. IsFiniteSet(1 .. N) /\ Cardinality(1 .. N) = N  BY FS_Interval
  <2>4. Cardinality(Met) = Cardinality(1 .. N)  BY <2>1, <2>2, <2>3, FS_Injection
  <2> QED  BY <2>3, <2>4
<1> QED  BY <1>9, <1>10 DEF Met, Shown, Told

LEMMA PagesAreFull ==
    ASSUME NEW cards \in SUBSET Pieces, NEW listed \in cardOrders(cards), NEW limit \in Nat
    PROVE  PagesHold(cards, listed, limit)
<1> DEFINE first  == findCatalog(cards, listed, 0, limit)
           turned == [n \in 1 .. first.totalPages + 1 |-> findCatalog(cards, listed, n, limit).data]
           take   == cardsPerPage(limit)
           N      == Cardinality(cards)
           T      == Filled(N, take)
           page(skip) == SubSeq(listed, skip + 1,
                                IF skip + take < Len(listed) THEN skip + take ELSE Len(listed))
<1>1. take \in Nat \ {0}  BY DEF cardsPerPage, DEFAULT_LIMIT, MAX_LIMIT
<1>2. /\ N \in Nat /\ Len(listed) = N /\ listed \in Seq(cards)
      /\ cards = {listed[x] : x \in 1 .. N}
  BY RowsListed
<1>3. first.total = N /\ first.totalPages = T /\ first.data = page(0)
  BY DEF findCatalog, Filled
<1>4. \A n \in Nat \ {0} : findCatalog(cards, listed, n, limit).data = page((n - 1) * take)
  BY DEF findCatalog
<1> HIDE DEF take, N, page, first
<1>5. T \in Nat /\ N <= T * take  BY <1>1, <1>2, FilledHolds
<1> HIDE DEF T
<1>6. \A n \in 1 .. T + 1 : n \in Nat \ {0} /\ (n - 1) * take \in Nat
  <2> SUFFICES ASSUME NEW n \in 1 .. T + 1 PROVE n \in Nat \ {0} /\ (n - 1) * take \in Nat
    OBVIOUS
  <2>1. n - 1 \in Nat  BY <1>5
  <2>2. (n - 1) * take \in Nat  BY <1>1, <2>1
  <2> QED  BY <1>5, <2>2
<1>7. DOMAIN turned = 1 .. T + 1 /\ \A n \in 1 .. T + 1 : turned[n] = page((n - 1) * take)
  BY <1>3, <1>4, <1>6
<1> HIDE DEF turned
<1>8. \A skip \in Nat : /\ DOMAIN page(skip) = {k \in 1 .. take : skip + k <= N}
                        /\ \A k \in DOMAIN page(skip) : page(skip)[k] = listed[skip + k]
                        /\ N <= skip => page(skip) = <<>>
  <2> SUFFICES ASSUME NEW skip \in Nat
               PROVE  /\ DOMAIN page(skip) = {k \in 1 .. take : skip + k <= N}
                      /\ \A k \in DOMAIN page(skip) : page(skip)[k] = listed[skip + k]
                      /\ N <= skip => page(skip) = <<>>
    OBVIOUS
  <2> QED  BY <1>1, <1>2, PageOf DEF page
<1>9. \A n \in DOMAIN turned :
         /\ DOMAIN turned[n] = {k \in 1 .. take : Row(n, k, take) <= N}
         /\ \A k \in DOMAIN turned[n] : turned[n][k] = listed[Row(n, k, take)]
  BY <1>6, <1>7, <1>8 DEF Row
<1>10. Cardinality(Places(turned)) = N /\ Shown(turned) = Told(listed, N)
  <2>1. DOMAIN turned = 1 .. Filled(N, take) + 1  BY <1>7 DEF T
  <2>2. AllPages(turned, listed, N, take)  BY <1>9, <2>1 DEF AllPages
  <2> QED  BY <1>1, <1>2, <2>2, PlacesOfPages
<1>11. turned[T + 1] = <<>>
  <2>1. T + 1 \in 1 .. T + 1 /\ (T + 1) - 1 = T  BY <1>5
  <2>2. T * take \in Nat  BY <1>1, <1>5
  <2>3. turned[T + 1] = page(((T + 1) - 1) * take)  BY <1>7, <2>1
  <2>4. ((T + 1) - 1) * take = T * take  BY <2>1
  <2>5. page(T * take) = <<>>  BY <1>5, <1>8, <2>2
  <2> QED  BY <2>3, <2>4, <2>5
<1>12. turned[1] = page(0)
  <2>1. 1 \in 1 .. T + 1 /\ (1 - 1) * take = 0  BY <1>1, <1>5
  <2> QED  BY <1>7, <2>1
<1>13. /\ first.data = turned[1] /\ turned[first.totalPages + 1] = <<>>
       /\ Cardinality(Places(turned)) = first.total
       /\ {turned[x[1]][x[2]] : x \in Places(turned)} = cards
  BY <1>2, <1>3, <1>10, <1>11, <1>12 DEF Shown, Told
<1> QED  BY <1>13 DEF PagesHold, turned, first

(* A student who turns all the pages that findCatalog announces, under any *)
(* filter, in any order of the places and with any limit, meets every      *)
(* recording it counted once, none of them a 404, and nothing beyond the   *)
(* last page (findCatalog, findOneVisible).                                *)
THEOREM PagesAlwaysCover ==
    ASSUME NEW matching \in SUBSET Pieces, NEW limit \in Nat
    PROVE  PagesCover(matching, limit)
<1>1. ASSUME NEW topic PROVE recordingCards(topic, matching) \in SUBSET Pieces
  BY DEF recordingCards
<1>2. ASSUME NEW topic, NEW i \in recordingCards(topic, matching) PROVE findOneVisible(i) # None
  <2>1. studentSees(i) /\ i \in Pieces  BY DEF recordingCards
  <2>2. rowOf(i) # None /\ i \notin Topics  BY <2>1, TopicsAssumption DEF studentSees, isOn
  <2> QED  BY <2>1, <2>2 DEF findOneVisible, rowOf, isTopic
<1> QED  BY <1>1, <1>2, PagesAreFull DEF PagesCover
=============================================================================
