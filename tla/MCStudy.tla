------------------------------- MODULE MCStudy -------------------------------
(***************************************************************************)
(* Small instances of what a student does besides quizzes and word         *)
(* reviews: lesson steps, the study clock, speaking, listening and the     *)
(* placement test.  `subject` says which of them moves; a transcript       *)
(* spoken word by word, a catalogue edited resource by resource and a      *)
(* paper answered, graded and edited question by question feed the         *)
(* algorithms.                                                             *)
(***************************************************************************)
EXTENDS LessonSteps, StudyClock, SpeakingLive, Listening, Placement,
        ListeningScores, TLC

CONSTANTS x1, x2, x3, y1, y2,
          MaxWords    \* longest sentence

VARIABLES subject, reference, heard, catalogue, sheet,
          bank, submitted,
          answering,    \* answers that were accepted and are not written yet
          grading,      \* what a grading has read so far
          graded        \* the scores with what they were computed from, None before

paperVars     == <<bank, submitted, answering, grading, graded>>
algorithmVars == <<reference, heard, catalogue, sheet, paperVars>>

Sentence == UNION {[1 .. n -> {"a", "b"}] : n \in 0 .. MaxWords}

\* Two resources of one pillar side by side, with and without a level, one for
\* a single goal; scenarios with and without an exercise.
Resource(id, pillar, level, sortKey, goals, fit) ==
    [id |-> id, pillar |-> pillar, level |-> level, sortKey |-> sortKey, goals |-> goals,
     fit |-> fit]
Resources ==
    {Resource(1, "GRAMMAR", 1, 1, {}, TRUE), Resource(2, "GRAMMAR", 2, 2, {}, TRUE),
     Resource(3, "VOCABULARY", 2, 1, {"TOEIC_450"}, TRUE),
     Resource(4, "VOCABULARY", 0, 0, {}, TRUE), Resource(5, "LISTENING", 6, 1, {}, TRUE),
     Resource(6, "SPEAKING", 0, 1, {"GENERAL_ENGLISH"}, TRUE),
     Resource(7, "SPEAKING", 1, 0, {"GENERAL_ENGLISH"}, FALSE)}

\* Answers of 8 questions a section, one of them deleted since in one section.
Eight == [GRAMMAR |-> 8, VOCABULARY |-> 7, LISTENING |-> 8]
Sheets ==
    [correct : [Sections -> {0, 1, 4, 7}], count : {Eight}, graded : {TRUE},
     goal : {"GENERAL_ENGLISH"}]
    \cup [correct : [Sections -> {1, 7}], count : {Eight}, graded : {TRUE},
          goal : {"TOEIC_450"}]
    \cup [correct : {[s \in Sections |-> 0]}, count : {Eight}, graded : {FALSE},
          goal : {"GENERAL_ENGLISH", "TOEIC_450"}]
-----------------------------------------------------------------------------
Unread == [bank |-> None, sheet |-> None]

MCInit ==
    /\ subject \in {"steps", "clock", "speaking", "practice", "editing", "shelf",
                    "placement", "transcript", "roadmap", "paper"}
    /\ StepsInit /\ StudyInit /\ SpeakInit /\ ListenInit /\ PlaceInit
    /\ reference \in (IF subject = "transcript" THEN Sentence ELSE {<<>>})
    /\ heard = <<>>
    /\ catalogue = {}
    /\ bank = [q \in {1, 2} |-> [section |-> "GRAMMAR", key |-> "a"]]
    /\ submitted = [q \in {1, 2} |-> None] /\ answering = submitted
    /\ grading = Unread /\ graded = None
    /\ sheet \in IF subject = "roadmap" THEN Sheets ELSE {CHOOSE x \in Sheets : TRUE}

Speak(word) ==
    /\ Len(heard) < MaxWords /\ heard' = Append(heard, word)
    /\ UNCHANGED <<reference, catalogue, sheet, paperVars>>

\* publish and unpublish
Offer(r) ==
    /\ catalogue' = IF r \in catalogue THEN catalogue \ {r} ELSE catalogue \cup {r}
    /\ UNCHANGED <<reference, heard, sheet, paperVars>>

(* The paper of two questions; both rows may be edited or deleted at any   *)
(* time.  answer checks the attempt and writes later, finalizeNow reads    *)
(* the questions and the answers by two statements and writes later: an    *)
(* answer may land after the grading.  Of several gradings the one written *)
(* last counts, so one is enough.                                          *)
Paper == <<2, 1>>
Rows  == {[section |-> "GRAMMAR", key |-> "a"], [section |-> "VOCABULARY", key |-> "b"], None}

AcceptAnswer(q, x) ==
    /\ graded = None /\ answering[q] = None
    /\ answering' = [answering EXCEPT ![q] = x]
    /\ UNCHANGED <<bank, submitted, grading, graded>>

WriteAnswer(q) ==
    /\ answering[q] # None
    /\ submitted' = [submitted EXCEPT ![q] = answering[q]]
    /\ answering' = [answering EXCEPT ![q] = None]
    /\ UNCHANGED <<bank, grading, graded>>

EditBank(q, row) ==
    /\ bank' = [bank EXCEPT ![q] = row]
    /\ UNCHANGED <<submitted, answering, grading, graded>>

ReadToGrade ==
    /\ graded = None
    /\ \/ grading.bank = None /\ grading' = [grading EXCEPT !.bank = bank]
       \/ grading.sheet = None /\ grading' = [grading EXCEPT !.sheet = submitted]
    /\ UNCHANGED <<bank, submitted, answering, graded>>

WriteGrades ==
    /\ grading.bank # None /\ grading.sheet # None
    /\ graded' = [stored |-> scoresOf(Paper, grading.bank, grading.sheet), of |-> grading]
    /\ grading' = Unread
    /\ UNCHANGED <<bank, submitted, answering>>

PaperNext ==
    /\ \/ ReadToGrade \/ WriteGrades
       \/ \E q \in {1, 2} :
             \/ WriteAnswer(q)
             \/ \E x \in {"a", "b"} : AcceptAnswer(q, x)
             \/ \E row \in Rows : EditBank(q, row)
    /\ UNCHANGED <<reference, heard, catalogue, sheet>>

Busy(f) == Cardinality({x \in DOMAIN f : f[x].pc # "new"})

\* practice: nothing but one save, of a sentence less, disturbs the student; editing:
\* overlapping saves; shelf: one of each, on a recording that comes and goes.
ListenScene ==
    CASE subject = "practice" -> /\ UNCHANGED <<content, category, checked>>
                                 /\ Busy(save') <= 1
                                 /\ \A e \in Editors : save'[e].pc = "write" => save'[e].doc = <<2>>
      [] subject = "editing"  -> UNCHANGED <<content, category, checked, request>>
      [] OTHER                -> /\ Busy(request') <= 1 /\ Busy(save') <= 1
                                 /\ \A e \in Editors :
                                       save'[e].pc = "write" => save'[e].doc \in {<<2, 1>>, <<2>>}

MCNext ==
    /\ \/ subject = "steps" /\ StepsNext
             /\ UNCHANGED <<studyVars, speakVars, listenVars, placeVars, algorithmVars>>
       \/ subject = "clock" /\ StudyNext
             /\ UNCHANGED <<stepVars, speakVars, listenVars, placeVars, algorithmVars>>
       \/ subject = "speaking" /\ SpeakNext
             /\ UNCHANGED <<stepVars, studyVars, listenVars, placeVars, algorithmVars>>
       \/ subject \in {"practice", "editing", "shelf"} /\ ListenNext /\ ListenScene
             /\ UNCHANGED <<stepVars, studyVars, speakVars, placeVars, algorithmVars>>
       \/ subject = "placement" /\ PlaceNext
             /\ UNCHANGED <<stepVars, studyVars, speakVars, listenVars, algorithmVars>>
       \/ /\ \/ subject = "transcript" /\ \E word \in {"a", "b"} : Speak(word)
             \/ subject = "roadmap" /\ \E r \in Resources : Offer(r)
             \/ subject = "paper" /\ PaperNext
          /\ UNCHANGED <<stepVars, studyVars, speakVars, listenVars, placeVars>>
    /\ UNCHANGED subject

MCSpec == MCInit /\ [][MCNext]_<<subject, stepVars, studyVars, speakVars, listenVars,
                                 placeVars, algorithmVars>>
-----------------------------------------------------------------------------
(* AlignmentOptimal for every pair of short sentences of two words.        *)
AlignmentIsOptimal == AlignmentOptimal(reference, heard)

(* Acceptable and Rising for every catalogue of the seven resources,       *)
(* Followable and Narrated when any of them went since.                    *)
RoadmapIsAcceptable ==
    subject = "roadmap" =>
        LET result     == scorePlacementAttempt(sheet.correct, sheet.count)
            level      == IF sheet.graded THEN estimateLevel(result.overallScore) ELSE 1
            candidates == loadAvailableResources(sheet.goal, catalogue)
            plan       == generateRoadmap(level, sheet.graded, result.sectionScores, candidates)
        IN  /\ Acceptable(plan, result, sheet.graded, candidates)
            /\ Rising(sheet.correct, sheet.count)
            /\ \A r \in Resources : /\ Followable(plan, sheet.goal, catalogue \ {r})
                                     /\ Narrated(plan, catalogue \ {r})

(* ReviewAgrees after every edit of the bank and every late answer.        *)
ReviewIsOfGrading ==
    graded # None => ReviewAgrees(graded.stored, graded.of, Paper, bank, submitted)

(* The algorithms, on every input of the instance.                         *)
AlgorithmsSound == AlignmentIsOptimal /\ RoadmapIsAcceptable /\ ReviewIsOfGrading

\* The documents of overlapping saves: reordered, shortened, extended, stale, with a
\* sentence twice, without any.
MCDocuments ==
    {<<1, 2>>, <<2, 1>>, <<2, New, 1>>, <<New>>, <<1, New>>, <<1, 3, 2>>, <<2>>, <<New, 2>>,
     <<1, 2, 3>>, <<1, 2, 4, 3>>, <<2, 1, 2>>, <<>>}

MCReports == {[position |-> 19, duration |-> 20], [position |-> 27, duration |-> 30],
              [position |-> 10, duration |-> 60], [position |-> 70, duration |-> 60]}

Alike == Permutations({x1, x2, x3}) \cup Permutations({y1, y2})
=============================================================================
