----------------------------- MODULE MCContent -----------------------------
(***************************************************************************)
(* Small instances of what is studied, and of those who make it: lessons   *)
(* and their tasks, questions, the vocabulary and its import, words saved  *)
(* by a user, the community room, and the copy of content to production.   *)
(* `subject` says which of them moves.                                     *)
(***************************************************************************)
EXTENDS TLC, LessonTasks, VocabImport, VocabDecks, PersonalWords, Catalogue, QuestionRules,
        CommunityChat, ContentBootstrap, ReviewQueue, Dictionary, PublishedTopics

CONSTANTS x1, x2, x3, y1, y2, q1, q2, m0, m1, m2, r1, r2, r3

VARIABLES subject, question

(* Two questions, a pass at one right answer, a quiz under IMMEDIATE        *)
(* feedback and a practice under ON_SUBMIT.                                 *)

given(a, b) == (q1 :> a) @@ (q2 :> b)

call(op, task, id) == [NoCall EXCEPT !.op = op, !.task = task, !.id = id]
answer(id, q, right) ==
    [call("answer", "QUIZ", id) EXCEPT !.question = q, !.right = right]
sent(task, id, sheet) == [call("submit", task, id) EXCEPT !.answers = sheet]
trap(q, right) == [call("trap", "QUIZ", None) EXCEPT !.question = q, !.right = right]
hint(q, level) == [call("hint", "QUIZ", None) EXCEPT !.question = q, !.level = level]

\* fresh: a first quiz; finishing: its last submit, in two tabs; practice: a
\* practice submitted in several tabs; traps: the mistakes of a finished quiz,
\* while a second attempt is submitted.
MCCalls(s) ==
    CASE s = "fresh" ->
            {call("start", "QUIZ", None), answer(m1, q1, TRUE), answer(m1, q1, FALSE),
             answer(m1, q2, TRUE), call("submit", "QUIZ", m1)}
      [] s = "finishing" ->
            {call("submit", "QUIZ", m1), call("submit", "QUIZ", m2), answer(m2, q1, FALSE),
             answer(m2, q2, FALSE)}
      [] s = "practice" ->
            {call("start", "PRACTICE", None), sent("PRACTICE", m1, given("right", "right")),
             sent("PRACTICE", m1, given("right", "wrong")), sent("PRACTICE", m2, given("wrong", "none"))}
      [] s = "traps" ->
            {trap(q1, TRUE), trap(q1, FALSE), trap(q2, TRUE), hint(q1, 1), hint(q1, 2),
             call("submit", "QUIZ", m1), call("start", "PRACTICE", None)}

\* A quiz attempt m0 with these answers, as its submit left it.
firstAttempt(sheet) ==
    [by |-> None, task |-> "QUIZ", id |-> m0,
     result |-> [answers |-> sheet, attemptsCount |-> 1,
                 best |-> accuracyPercent(correctCount(sheet))]]
afterFirst(sheet) ==
    [NewRow(FALSE) EXCEPT !.attemptsCount = 1, !.score = correctCount(sheet),
        !.completed = Passes(sheet), !.lastId = m0,
        !.lastAnswers = sheet,
        !.lastResult = firstAttempt(sheet).result]

MCAttempts(s) ==
    CASE s = "practice" -> {firstAttempt(given("right", "right"))}
      [] s = "traps"    -> {firstAttempt(given("wrong", "right"))}
      [] OTHER          -> {}

MCRows(s) ==
    CASE s = "finishing" ->
            [t \in Tasks |-> IF t = "PRACTICE" THEN None ELSE
              [NewRow(TRUE) EXCEPT !.current = [id |-> m1, answers |-> given("right", "right")]]]
      [] s = "practice" ->
            [t \in Tasks |-> IF t = "QUIZ" THEN afterFirst(given("right", "right"))
                             ELSE NewRow(TRUE)]
      [] s = "traps" ->
            [t \in Tasks |-> IF t = "PRACTICE" THEN None ELSE
              [afterFirst(given("wrong", "right")) EXCEPT !.started = TRUE,
                 !.current = [id |-> m1, answers |-> given("right", "wrong")]]]
      [] OTHER -> [t \in Tasks |-> None]
-----------------------------------------------------------------------------
(* The vocabulary import: two decks share a word, one of them has it twice *)
(* and room for two words, one row is reported, one has no headword.       *)

MCDataset == <<[key |-> "go", deck |-> "d1", kind |-> "good"],
               [key |-> "go", deck |-> "d1", kind |-> "good"],
               [key |-> "run", deck |-> "d1", kind |-> "bad"],
               [key |-> "go", deck |-> "d2", kind |-> "good"],
               [key |-> "no", deck |-> NoDeck, kind |-> "blank"]>>

order(stage, mode) ==
    [stage |-> stage, mode |-> mode, dry |-> FALSE, force |-> FALSE, partial |-> TRUE,
     limit |-> 0, publish |-> mode = "skip"]

MCOrders ==
    {order("check", "skip"), order("media", "skip"),
     [order("media", "skip") EXCEPT !.dry = TRUE, !.limit = 1],
     order("import", "skip"), [order("import", "skip") EXCEPT !.dry = TRUE],
     order("import", "upsert"), [order("import", "upsert") EXCEPT !.force = TRUE],
     [order("import", "upsert") EXCEPT !.partial = FALSE]}

-----------------------------------------------------------------------------
(* The library: one deck is shown, whose first word was detached, one is a  *)
(* draft, and there is room for a third.                                   *)

MCFirstDecks ==
    [d1 |-> [on |-> TRUE, words |-> {[word |-> "w1", at |-> 1]}, at |-> 0],
     d2 |-> [on |-> FALSE, words |-> {}, at |-> 1], d3 |-> None]
MCFirstWords == [w1 |-> "go", w2 |-> "run", w3 |-> None, w4 |-> None]

onDeck(op, d) == [op |-> op, deck |-> d]

MCDeskCalls ==
    {onDeck("publish", "d2"), onDeck("unpublish", "d1"), onDeck("removeDeck", "d1"),
     onDeck("create", "d3"), onDeck("forget", "d1"),
     [op |-> "learn", deck |-> "d1", word |-> "w1"],
     [op |-> "attach", deck |-> "d1", words |-> {"w1", "w2"}],
     [op |-> "attach", deck |-> "d2", words |-> {"w1", "w2"}],
     [op |-> "detach", deck |-> "d1", word |-> "w1"],
     [op |-> "detach", deck |-> "d2", word |-> "w1"],
     [op |-> "removeWord", word |-> "w1"], [op |-> "createWord", text |-> "see"],
     [op |-> "csv", texts |-> {"go", "see"}, valid |-> TRUE],
     [op |-> "csv", texts |-> {"go"}, valid |-> FALSE]}

\* One saved word, reviewed on several devices; saves around the free limit.
MCFirstSaved == [p1 |-> NewSaved("go"), p2 |-> None, p3 |-> None, p4 |-> None]

review(id, rating) == [op |-> "review", id |-> id, word |-> "p1", rating |-> rating]
update(body) == [op |-> "update", word |-> "p1", body |-> body]
\* The word as it was when it was new: a client that sends back what it was shown.
Shown == [text |-> "go", nextReviewAt |-> "null", version |-> 0] @@ Srs!DEFAULT_NEW_PROGRESS
MCSavedCalls ==
    {review("i1", "GOOD"), review("i1", "AGAIN"), review("i2", "AGAIN"),
     [op |-> "save", texts |-> <<"run">>], [op |-> "save", texts |-> <<"go", "see", "see">>],
     update([text |-> "run"]), update([lapses |-> 1]), update(Shown), [op |-> "remove", word |-> "p1"]}
ThirdCalls == {NoSaved.call, review("i2", "AGAIN"), [op |-> "remove", word |-> "p1"]}

-----------------------------------------------------------------------------
(* Words to review: four in three decks of two libraries, one in two decks, *)
(* one in a deck that is not shown; never rated, overdue, due later in the   *)
(* day, or mastered.  The student's zone is ahead of UTC.                   *)

hung(w, d) == [word |-> w, deck |-> d]
MCShelf1 == <<hung(1, "a"), hung(2, "a"), hung(1, "b"), hung(3, "b"), hung(4, "c"), hung(4, "draft")>>
MCShelves == {MCShelf1,
              <<hung(4, "c"), hung(1, "b"), hung(3, "a"), hung(4, "b"), hung(2, "b"), hung(1, "a")>>}
MCLibraryOf == [a |-> "one", b |-> "one", c |-> "two"]
MCNoon == [from |-> 1, until |-> 3]
MCOffsets == [UTC |-> [i \in -9 .. 9 |-> 0], local |-> [i \in -9 .. 9 |-> 1]]

card(state, due, created) == [state |-> state, due |-> due, created |-> created]
MCCards ==
    {c \in [1 .. 4 -> {None, card("LEARNING", -2, -2), card("RELEARNING", 1, -2), card("REVIEW", -1, -1),
                       card("MASTERED", 4, 0)}] :
        c[4] \in {None, card("REVIEW", -1, -1)}}

ask(deck, library, limit, includeNew, newLimit, tz) ==
    [deck |-> deck, library |-> library, limit |-> limit, includeNew |-> includeNew,
     newLimit |-> newLimit, tz |-> tz]
MCQueries == {ask(None, None, 1, TRUE, 2, "local"), ask(None, None, 2, TRUE, 2, None),
              ask(None, None, 3, TRUE, 2, "UTC"), ask("b", None, 3, TRUE, 2, None),
              ask(None, "one", 2, TRUE, 1, "local"), ask(None, None, 4, FALSE, 2, None)}

\* Every zone, of a day of three hours, whose clocks change once by an hour.
MCZones == {[i \in -20 .. 20 |-> IF i < at0 THEN early ELSE early + change] :
               at0 \in -8 .. 8, early \in -3 .. 3, change \in {-1, 0, 1}}

-----------------------------------------------------------------------------
(* Entries of a dictionary, each kind of content on its own.               *)

entry(senses, pronunciations, synonyms) ==
    [senses |-> senses, pronunciations |-> pronunciations, synonyms |-> synonyms]
spoken(text, ga) == [text |-> text, ga |-> ga]
Upto(n, S) == UNION {[1 .. k -> S] : k \in 0 .. n}
MCEntries ==
    Upto(3, {entry(s, <<>>, <<>>) : s \in {<<>>, <<None>>, <<"d">>, <<None, "e">>, <<"">>, <<"", "d">>}})
    \cup Upto(3, {entry(<<>>, p, <<>>) :
                     p \in {<<>>, <<spoken("u", FALSE)>>, <<spoken("u", FALSE), spoken("v", TRUE)>>}})
    \cup Upto(3, {entry(<<>>, <<>>, s) : s \in {<<>>, <<"s">>, <<"s", "t">>, <<"u", "s">>}})

-----------------------------------------------------------------------------
(* A course of a full lesson and one that is only read.                    *)

lesson(at, video, notes) ==
    [at |-> at, on |-> TRUE, video |-> video, minutes |-> 0, audio |-> FALSE, notes |-> notes]
MCFirstLessons == [l1 |-> lesson(0, 2, "text"), l2 |-> lesson(1, 0, "text"), l3 |-> None]
MCFirstTasks ==
    [x \in Lessons \X Kinds |->
        IF x[1] # "l1" THEN None
        ELSE [id |-> IF x[2] = "QUIZ" THEN 11 ELSE 12, on |-> TRUE,
              questions |-> IF x[2] = "QUIZ" THEN {21, 22} ELSE {23}]]

onCourse(op) == [op |-> op, lesson |-> "l1", kind |-> "QUIZ"]
onLesson(op, l) == [op |-> op, lesson |-> l, kind |-> "QUIZ"]
onTask(op, k) == [op |-> op, lesson |-> "l1", kind |-> k]
editing(l, change) == [op |-> "edit", lesson |-> l, kind |-> "QUIZ", change |-> change]
saving(k, keep, more) == [op |-> "save", lesson |-> "l1", kind |-> k, keep |-> keep, more |-> more]

\* what one author does while the student works at l1
Editing ==
    {saving("QUIZ", {21}, 1), saving("QUIZ", {}, 0), onTask("unpublishTask", "QUIZ"),
     onTask("deleteTask", "PRACTICE"), editing("l1", [video |-> 1]),
     editing("l1", [minutes |-> 1]),
     editing("l1", [video |-> 0, notes |-> "heading", audio |-> TRUE])}

\* what two authors do to each other
Authoring ==
    {onCourse(op) : op \in {"create", "publishCourse", "unpublishCourse", "createCourse", "removeCourse"}}
    \cup {onLesson(op, l) : op \in {"publishLesson", "unpublishLesson", "removeLesson"}, l \in {"l1", "l2"}}
    \cup {onTask(op, "PRACTICE") : op \in {"publishTask", "deleteTask"}}
    \cup {saving("PRACTICE", {}, 1), saving("PRACTICE", {23}, 0)}

MCAuthorCalls == Editing \cup Authoring

-----------------------------------------------------------------------------
(* Questions of up to three options, and answers that fit or do not.       *)

Ids3 == {"a", "b", "c"}
Orders3 == UNION {[1 .. n -> Ids3] : n \in 0 .. 3}
Texts3 == {[word |-> "", chars |-> 2], [word |-> "i", chars |-> 1], [word |-> "go", chars |-> 2],
           [word |-> "go", chars |-> 4]}

Drafts ==
    [type : {"MULTIPLE_CHOICE", "ORDERING"}, options : Orders3, explained : BOOLEAN,
     correct : {[shape |-> "optionId", is |-> id] : id \in Ids3}
               \cup {[shape |-> "orderedOptionIds", is |-> s] : s \in Orders3}]
    \cup [type : {"TRUE_FALSE", "FILL_BLANK"}, options : {<<>>}, explained : BOOLEAN,
          correct : {[shape |-> "value", is |-> b] : b \in BOOLEAN}
                    \cup {[shape |-> "accepted", is |-> s] : s \in UNION {[1 .. n -> Texts3] : n \in 0 .. 2}}]

-----------------------------------------------------------------------------
(* Two tabs send one message, someone else another.                        *)

MCMessageOf == (y1 :> "m1") @@ (y2 :> "m1") @@ ("p3" :> "m2")

\* Two domains; a lesson belongs to its course.
MCModels ==
    [course |-> [domain |-> "grammar"], lesson |-> [domain |-> "grammar"],
     question |-> [domain |-> "placement"]]
MCModelOrder == <<"course", "lesson", "question">>
MCDomainOrder == <<"grammar", "placement">>
grammarCourse == [model |-> "course", parent |-> None]
MCRowIds == {grammarCourse, [model |-> "lesson", parent |-> grammarCourse],
             [model |-> "question", parent |-> None]}
MCFirstSource == [x \in RowIds |-> "text"]
MCFirstProduction == [x \in RowIds |-> None]

apply(db, sure) == [mode |-> "apply", confirmDb |-> db, confirmProduction |-> sure]
MCArguments == {apply("railway", TRUE), apply(None, TRUE), apply("railway", FALSE),
                [apply(None, FALSE) EXCEPT !.mode = "dry"]}

\* A tunnel to production, with every pair of line endings and of statements;
\* the canonical ones are called new.
Bytes == [sql : {"old", "new"}, eol : {"LF", "CRLF"}]
MCTargets ==
    [source : {[host |-> "localhost", database |-> "engmasterai"]},
     destination : {[host |-> "localhost", database |-> "railway"]},
     liveSource : {"engmasterai", "other"}, liveDestination : {"railway"},
     clean : {TRUE}, sameNames : {TRUE}, sameSchema : {TRUE},
     migrations : {{m} : m \in [applied : Bytes, produced : Bytes, working : Bytes,
                                 canonical : {b \in Bytes : b.sql = "new"}]}]

\* A choice of two, whose options, answer or type are changed.
MCFirstQuestion == [type |-> "MULTIPLE_CHOICE", options |-> <<"a", "b">>, explained |-> FALSE,
                    correct |-> [shape |-> "optionId", is |-> "a"]]
MCPatches ==
    [type : {None, "ORDERING", "TRUE_FALSE"}, options : {None, <<"a", "c">>, <<"b", "c">>, <<"a", "b", "c">>},
     correct : {None, [shape |-> "optionId", is |-> "b"], [shape |-> "orderedOptionIds", is |-> <<"b", "a">>],
                [shape |-> "value", is |-> TRUE]}]

-----------------------------------------------------------------------------
(* A topic that is shown, one that is not and one to be made; a piece that *)
(* is shown, a draft and one to be made.                                   *)

MCFirstTopics == [s1 |-> [at |-> 0, on |-> TRUE], s2 |-> [at |-> 1, on |-> FALSE],
                  s3 |-> None, s4 |-> None]
MCFirstPieces == [i1 |-> [topic |-> "s1", at |-> 0, on |-> TRUE],
                  i2 |-> [topic |-> "s1", at |-> 2, on |-> FALSE], i3 |-> None]

task(op, row, topic, at) == [op |-> op, row |-> row, topic |-> topic, at |-> at]
MCHandCalls ==
    {task("create", "s3", None, at) : at \in {None, 1}} \cup {task("create", "s4", None, None)}
    \cup {task("create", "i3", s, None) : s \in {"s1", "s2"}}
    \cup {task("edit", "s2", None, 0), task("edit", "i1", "s2", None), task("edit", "i2", None, 0)}
    \cup {task(op, x, None, None) : op \in {"publish", "unpublish"}, x \in {"s1", "s2", "i1", "i2"}}
    \cup {task("remove", x, None, None) : x \in {"s1", "s2", "i1", "i2"}}
    \cup {task("practise", "i1", None, None)}

\* Documents of up to three sentences, the times negative and turned round too.
MCTimes == {[from |-> a, to |-> b] : a, b \in -1 .. 2}
MCMedia == {[provider |-> p, type |-> "VIDEO", url |-> u, named |-> n, linked |-> TRUE] :
                p \in {"YOUTUBE", "FILE"}, u \in {"video", "none"}, n \in BOOLEAN}
recording(s, media, on, modes, length) ==
    [segments |-> s, topicOn |-> on, modes |-> modes, length |-> length] @@ media
MCSoundMedia == [provider |-> "FILE", type |-> "AUDIO", url |-> "file", named |-> FALSE, linked |-> FALSE]
MCRecordings ==
    {recording(s, MCSoundMedia, TRUE, {"DICTATION"}, None) : s \in [1 .. 3 -> MCTimes]}
    \cup {recording(s, m, on, modes, n) :
            s \in {<<>>} \cup [1 .. 1 -> {[from |-> 0, to |-> 1], [from |-> 0, to |-> 2]}], m \in MCMedia,
            on \in BOOLEAN, modes \in SUBSET {"DICTATION", "SHADOWING"}, n \in {None, 1}}

-----------------------------------------------------------------------------
\* What another subject leaves alone is not there.
NoCatalogue ==
    /\ course = None /\ lessonRow = None /\ taskRow = None /\ nextId = None
    /\ stepsOf = None /\ marks = None /\ tries = None /\ sitting = None
    /\ paying = None /\ author = None /\ loose = None
NoQueue ==
    /\ onShelf = None /\ cards = None /\ hour = None /\ storedZone = None
NoBank ==
    /\ bankRow = None /\ patcher = None /\ crossed = None

MCInit ==
    /\ subject \in {"tasks", "rerun", "repair", "decks", "saved", "course", "editing", "authoring",
                    "queue", "zones", "dictionary", "entries", "question", "topics", "recordings",
                    "bank", "room", "marks", "bootstrap"}
    /\ Init /\ (subject # "tasks" => scene = "fresh")
    /\ question \in CASE subject = "question" -> Drafts
                     [] subject = "zones"    -> MCZones
                     [] subject = "entries"  -> MCEntries
                     [] subject = "recordings" -> MCRecordings
                     [] OTHER                -> {None}
    /\ ImportInit /\ DecksInit /\ PersonalInit /\ DictionaryInit
    /\ TopicsInit /\ (subject # "topics" => family = "vocabulary")
    /\ IF subject \in {"course", "editing", "authoring"} THEN CatalogueInit ELSE NoCatalogue
    /\ RoomInit /\ BootstrapInit
    /\ IF subject = "queue" THEN QueueInit ELSE NoQueue
    /\ IF subject = "bank" THEN BankInit ELSE NoBank

\* Requests that are alike are numbered in the order they arrive.
InOrder(f, a, b) == f[b].pc # "new" => f[a].pc # "new"

\* An import that dies and is run again, or one whose words an editor changes.
ImportScene ==
    IF subject = "rerun" THEN bounds'.edits = 0 /\ (bounds'.orders = 4 => bounds'.crashes = 1)
    ELSE bounds'.crashes = 0 /\ bounds'.orders <= 3

\* course: a student alone; editing: with an author; authoring: two authors,
\* and a practice that is handed in meanwhile.
CatalogueScene ==
    CASE subject = "course"    -> UNCHANGED author
      [] subject = "editing"   -> /\ UNCHANGED paying /\ \A k \in Kinds : tries'["l1", k] <= 1
                                  /\ \A r \in Authors : /\ author'[r].call \in Editing \cup {NewAuthor.call}
                                                        /\ author'[r].pc # "new" => r = y1
      [] subject = "authoring" -> /\ UNCHANGED <<stepsOf, paying>>
                                  /\ InOrder(author', y1, y2)
                                  /\ \A r \in Authors : author'[r].call \in Authoring \cup {NewAuthor.call}
                                  /\ \A l \in Lessons : marks'[l, "QUIZ"] = None

\* room: the server restarts, or the clock goes on to its bound; marks: the reader.
RoomScene ==
    IF subject = "room" THEN UNCHANGED marking /\ (clock'.now <= 1 \/ clock'.restarts = 0)
    ELSE UNCHANGED <<room, post, socket, ticket, received, scroll>> /\ clock'.restarts = 0

MCNext ==
    /\ UNCHANGED <<subject, question>>
    /\ \/ subject = "tasks" /\ Next
          /\ UNCHANGED <<importVars, deckVars, personalVars, catalogueVars, roomVars, bootstrapVars, queueVars, dictionaryVars, topicVars, bankVars>>
       \/ subject \in {"rerun", "repair"} /\ ImportNext /\ ImportScene
          /\ UNCHANGED <<vars, deckVars, personalVars, catalogueVars, roomVars, bootstrapVars, queueVars, dictionaryVars, topicVars, bankVars>>
       \/ subject = "decks" /\ DecksNext /\ InOrder(desk', x1, x2)
          /\ UNCHANGED <<vars, importVars, personalVars, catalogueVars, roomVars, bootstrapVars, queueVars, dictionaryVars, topicVars, bankVars>>
       \/ subject = "saved" /\ PersonalNext /\ InOrder(mine', x1, x2) /\ mine'[x3].call \in ThirdCalls
          /\ UNCHANGED <<vars, importVars, deckVars, catalogueVars, roomVars, bootstrapVars, queueVars, dictionaryVars, topicVars, bankVars>>
       \/ subject \in {"course", "editing", "authoring"} /\ CatalogueNext /\ CatalogueScene
          /\ UNCHANGED <<vars, importVars, deckVars, personalVars, roomVars, bootstrapVars, queueVars, dictionaryVars, topicVars, bankVars>>
       \/ subject \in {"room", "marks"} /\ RoomNext /\ RoomScene
          /\ UNCHANGED <<vars, importVars, deckVars, personalVars, catalogueVars, bootstrapVars, queueVars, dictionaryVars, topicVars, bankVars>>
       \/ subject = "bootstrap" /\ BootstrapNext /\ InOrder(script', y1, y2)
          /\ UNCHANGED <<vars, importVars, deckVars, personalVars, catalogueVars, roomVars, queueVars, dictionaryVars, topicVars, bankVars>>
       \/ subject = "queue" /\ QueueNext
          /\ UNCHANGED <<vars, importVars, deckVars, personalVars, catalogueVars, roomVars, bootstrapVars, dictionaryVars, topicVars, bankVars>>
       \/ subject = "dictionary" /\ DictionaryNext
          /\ InOrder(lookup', x1, x2) /\ InOrder(lookup', x2, x3)
          /\ UNCHANGED <<vars, importVars, deckVars, personalVars, catalogueVars, roomVars, bootstrapVars,
                         queueVars, topicVars, bankVars>>
       \/ subject = "topics" /\ TopicsNext /\ InOrder(hand', y1, y2) /\ hand'[r1].call \in {NewHand.call, task("remove", "s2", None, None)}
          /\ UNCHANGED <<vars, importVars, deckVars, personalVars, catalogueVars, roomVars, bootstrapVars,
                         queueVars, dictionaryVars, bankVars>>
       \/ subject = "bank" /\ BankNext /\ InOrder(patcher', y1, y2)
          /\ UNCHANGED <<vars, importVars, deckVars, personalVars, catalogueVars, roomVars, bootstrapVars,
                         queueVars, dictionaryVars, topicVars>>

MCSpec == MCInit /\ [][MCNext]_<<subject, question, vars, importVars, deckVars, personalVars,
                                 catalogueVars, roomVars, bootstrapVars, queueVars, dictionaryVars, topicVars, bankVars>>
-----------------------------------------------------------------------------
\* No request is under way.
Ended == {"new", "done", "refused", "failed"}

(* What is studied is what was made: LessonsSound; QuestionFair for every   *)
(* question of up to three options, and BankAnswerable; PagesCover, when no *)
(* request is under way, and RecordingPlays of every document of up to      *)
(* three sentences; QueueSound, and DayStartsOnce in every zone; ListsAgree *)
(* and ExtractionSound.                                                    *)
ContentHolds ==
    /\ subject \in {"course", "editing", "authoring"} => LessonsSound
    /\ subject = "question" => QuestionFair(question)
    /\ subject = "bank" => BankAnswerable
    /\ subject = "topics" /\ family = "listening" /\ (\A r \in Hands : hand[r].pc \in Ended) =>
          PagesCover(Pieces, 2) /\ PagesCover({"i2", "i3"}, 1)
    /\ subject = "recordings" => RecordingPlays(question)
    /\ subject = "queue" => QueueSound
    /\ subject = "zones" => \A instant \in -6 .. 6 : DayStartsOnce(question, instant)
    /\ subject = "saved" => ListsAgree({"go", "run", "see"}, {"p1"})
    /\ subject = "entries" => ExtractionSound(question)

(* No step takes back what somebody has done: not an import or a bootstrap *)
(* an editor's words, not a student's progress the lesson he completed.    *)
NothingTakenBack == AdminWorkKept /\ OnlyCreates /\ CompletionKept
=============================================================================
