------------------------------ MODULE Placement ------------------------------
(***************************************************************************)
(* PlacementService for one student: attempts with a deadline, answers,    *)
(* grading by whoever comes across an attempt that is due, the roadmap     *)
(* that a grading or the skipped test writes, and the two AI calls that    *)
(* write on it later.  Attempts are numbered in the order of startedAt;    *)
(* what a student got right stands for the scores and the level.           *)
(*                                                                         *)
(* The second part is what those steps compute: the score of the graded    *)
(* answers (placement-scoring.ts), what is on offer for a goal, the        *)
(* roadmap drawn up from it without AI (roadmap-algorithm.ts), the check a *)
(* planner's answer has to pass (validate-roadmap-plan.ts), what of a      *)
(* stored roadmap is shown later, and what of a graded paper.  A resource  *)
(* is a record of its id, pillar, level (0 when it has none, else its      *)
(* place in LEVEL_ORDER), sortKey, the goals it is meant for, and `fit`.   *)
(***************************************************************************)
EXTENDS Absent, Integers, Sequences, FiniteSets

CONSTANTS Calls,          \* requests in flight at once
          MaxAttempts,    \* bound on the attempts started
          MaxRight,       \* right answers an attempt can hold
          MaxGenerations  \* bound on the roadmaps written

Tests == 1 .. MaxAttempts

\* A PlacementAttempt row, without a level until it is completed, and the Roadmap row
TestType    == [level : Nat \cup {None}]
RoadmapType == [attempt : Tests \cup {None}, level : Nat, at : Nat,
                plan : Nat \cup {None}, summary : Nat \cup {None}]

ASSUME PlacementAssumption ==
    /\ MaxAttempts \in Nat /\ MaxRight \in Nat /\ MaxGenerations \in Nat
    /\ None \notin Nat \cup TestType \cup RoadmapType

VARIABLES learningGoal,   \* User.learningGoal is set
          onboarded,      \* User.onboardedAt is set
          placement,      \* PlacementAttempt rows: level None until completed
          due,            \* attempts past their expiresAt
          right,          \* PlacementAnswer rows: how many are right
          roadmap,        \* the Roadmap row
          generation,     \* generatedAt of the last roadmap written
          call,           \* requests
          plans           \* history: plans written on each generation

placeVars == <<learningGoal, onboarded, placement, due, right, roadmap, generation, call,
               plans>>
Stored == <<learningGoal, onboarded, placement, right, roadmap, generation, plans>>

PlaceInit ==
    /\ learningGoal = FALSE /\ onboarded = FALSE
    /\ placement = [a \in Tests |-> None] /\ due = {}
    /\ right = [a \in Tests |-> 0]
    /\ roadmap = None /\ generation = 0
    /\ call = [c \in Calls |-> [pc |-> "new"]]
    /\ plans = [g \in 1 .. MaxGenerations |-> 0]
-----------------------------------------------------------------------------
Started    == {a \in Tests : placement[a] # None}
Completed  == {a \in Started : placement[a].level # None}
InProgress == Started \ Completed
Newest     == CHOOSE a \in InProgress : \A b \in InProgress : b <= a

Go(c, fields) == call' = [call EXCEPT ![c] = fields]
Done(c)       == Go(c, [pc |-> "new"])    \* answered: another request may come

\* expiresAt is startedAt and a constant, so deadlines pass in order
Deadline(a) ==
    /\ a \in Started \ due /\ \A b \in Started : b < a => b \in due
    /\ due' = due \cup {a}
    /\ UNCHANGED <<Stored, call>>

SetGoal ==
    /\ ~learningGoal /\ learningGoal' = TRUE
    /\ UNCHANGED <<onboarded, placement, due, right, roadmap, generation, call, plans>>

(* getStatus, getAttempt and start look for the newest attempt in          *)
(* progress; finalizeIfDue grades it when its time is over.                *)
Look(c, then) ==
    /\ call[c].pc = "new"
    /\ IF InProgress = {} THEN Go(c, [pc |-> then])
       ELSE IF Newest \in due THEN Go(c, [pc |-> "grade", a |-> Newest, then |-> then])
       ELSE Done(c)
    /\ UNCHANGED <<Stored, due>>

\* start goes on to create: nothing says that no attempt was created since
Create(c) ==
    LET a == Cardinality(Started) + 1
    IN  /\ call[c].pc = "create"
        /\ IF learningGoal
           THEN a \in Tests /\ placement' = [placement EXCEPT ![a] = [level |-> None]]
           ELSE UNCHANGED placement
        /\ Done(c)
        /\ UNCHANGED <<learningGoal, onboarded, due, right, roadmap, generation, plans>>

SubmitTest(c, a) ==
    /\ call[c].pc = "new" /\ a \in Started
    /\ IF a \in Completed THEN Done(c) ELSE Go(c, [pc |-> "grade", a |-> a, then |-> "new"])
    /\ UNCHANGED <<Stored, due>>

(* answer checks the attempt and then upserts the answer.                  *)
Answer(c, a) ==
    /\ call[c].pc = "new" /\ a \in Started
    /\ IF a \in Completed \cup due THEN Done(c) ELSE Go(c, [pc |-> "answer", a |-> a])
    /\ UNCHANGED <<Stored, due>>

Record(c) ==
    LET a == call[c].a
    IN  /\ call[c].pc = "answer"
        /\ \E n \in {right[a] + 1, right[a] - 1} \cap (0 .. MaxRight) :
              right' = [right EXCEPT ![a] = n]
        /\ Done(c)
        /\ UNCHANGED <<learningGoal, onboarded, placement, due, roadmap, generation, plans>>

\* finalizeNow reads the answers and the user ...
Grade(c) ==
    LET q == call[c]
    IN  /\ q.pc = "grade"
        /\ Go(c, [pc |-> "finalize", a |-> q.a, then |-> q.then, level |-> right[q.a],
                  onboard |-> ~onboarded])
        /\ UNCHANGED <<Stored, due>>

Regenerate(a, level) ==
    /\ generation < MaxGenerations
    /\ generation' = generation + 1
    /\ roadmap' = [attempt |-> a, level |-> level, at |-> generation', plan |-> None,
                   summary |-> None]

(* Mutant: the first grading of the attempt stands. *)
FinalizeFirst(c) ==
    LET q == call[c]
    IN  /\ q.pc = "finalize"
        /\ placement' = [placement EXCEPT ![q.a].level = IF @ = None THEN q.level ELSE @]
        /\ Regenerate(q.a, q.level)
        /\ onboarded' = (onboarded \/ q.onboard)
        /\ Go(c, [pc |-> q.then])
        /\ UNCHANGED <<learningGoal, due, right, plans>>

(* ... and writes the attempt, the roadmap and the user in one             *)
(* transaction, whoever else has graded the attempt meanwhile.             *)
Finalize(c) ==
    LET q == call[c]
    IN  /\ q.pc = "finalize"
        /\ placement' = [placement EXCEPT ![q.a].level = q.level]
        /\ Regenerate(q.a, q.level)
        /\ onboarded' = (onboarded \/ q.onboard)
        /\ Go(c, [pc |-> q.then])
        /\ UNCHANGED <<learningGoal, due, right, plans>>

(* startBeginner: reads the user, then persistRoadmapAndMaybeOnboard.      *)
Skip(c) ==
    /\ call[c].pc = "new"
    /\ IF learningGoal THEN Go(c, [pc |-> "persist", onboard |-> ~onboarded]) ELSE Done(c)
    /\ UNCHANGED <<Stored, due>>

Persist(c) ==
    /\ call[c].pc = "persist"
    /\ Regenerate(None, 0)
    /\ onboarded' = (onboarded \/ call[c].onboard)
    /\ Done(c)
    /\ UNCHANGED <<learningGoal, placement, due, right, plans>>

(* requestRoadmapPlan: a generation that has a plan keeps it; the write is *)
(* conditional on what was read before the planner was asked.              *)
PlanRead(c) ==
    /\ call[c].pc = "new"
    /\ IF roadmap = None \/ roadmap.plan # None THEN Done(c)
       ELSE Go(c, [pc |-> "plan", at |-> roadmap.at])
    /\ UNCHANGED <<Stored, due>>

UnplannedNow(at) == roadmap.plan = None    \* Mutant: the snapshot is left out.
Unplanned(at) == roadmap.at = at /\ roadmap.plan = None

PlanWrite(c) ==
    LET at == call[c].at
    IN  /\ call[c].pc = "plan"
        /\ IF Unplanned(at)
           THEN /\ roadmap' = [roadmap EXCEPT !.plan = at, !.summary = at]
                /\ plans' = [plans EXCEPT ![roadmap.at] = @ + 1]
           ELSE UNCHANGED <<roadmap, plans>>
        /\ Done(c)
        /\ UNCHANGED <<learningGoal, onboarded, placement, due, right, generation>>

(* requestRoadmapAnalysis: the narrative goes on whatever row is there.    *)
AnalysisRead(c) ==
    /\ call[c].pc = "new"
    /\ IF roadmap = None \/ roadmap.summary # None THEN Done(c)
       ELSE Go(c, [pc |-> "analysis", at |-> roadmap.at])
    /\ UNCHANGED <<Stored, due>>

AnalysisWrite(c) ==
    /\ call[c].pc = "analysis"
    /\ roadmap' = [roadmap EXCEPT !.summary = call[c].at]
    /\ Done(c)
    /\ UNCHANGED <<learningGoal, onboarded, placement, due, right, generation, plans>>

\* A provider or the database fails, or the plan is refused: nothing is written.
GiveUp(c) ==
    /\ call[c].pc \in {"create", "answer", "grade", "finalize", "persist", "plan", "analysis"}
    /\ Done(c) /\ UNCHANGED <<Stored, due>>

PlaceNext ==
    \/ SetGoal \/ \E a \in Tests : Deadline(a)
    \/ \E c \in Calls :
        \/ \E then \in {"create", "new"} : Look(c, then)
        \/ \E a \in Tests : SubmitTest(c, a) \/ Answer(c, a)
        \/ Create(c) \/ Record(c) \/ Grade(c) \/ Finalize(c) \/ Skip(c) \/ Persist(c)
        \/ PlanRead(c) \/ PlanWrite(c) \/ AnalysisRead(c) \/ AnalysisWrite(c) \/ GiveUp(c)

PlaceSpec == PlaceInit /\ [][PlaceNext]_placeVars
-----------------------------------------------------------------------------
(* The roadmap a student is shown and the result it links to tell of one   *)
(* level, and a student counts as onboarded exactly when there is a        *)
(* roadmap, however the gradings of an attempt, retakes and skipped tests  *)
(* overlap (finalizeNow, persistRoadmapAndMaybeOnboard).                   *)
RoadmapFollowsAttempt ==
    /\ onboarded <=> (roadmap # None)
    /\ Completed # {} => onboarded
    /\ roadmap # None /\ roadmap.attempt # None
          => roadmap.level = placement[roadmap.attempt].level

(* A plan is only ever shown on the generation it was made for, and a      *)
(* generation gets one (requestRoadmapPlan).                               *)
PlanOfThisGeneration ==
    /\ roadmap # None /\ roadmap.plan # None => roadmap.plan = roadmap.at
    /\ \A g \in DOMAIN plans : plans[g] <= 1

(* The roadmap belongs to the attempt that is kept, and the plan shown on  *)
(* it to that roadmap, whoever graded, retook or asked for it meanwhile.   *)
RoadmapSound == RoadmapFollowsAttempt /\ PlanOfThisGeneration
-----------------------------------------------------------------------------
PLACEMENT_SECTIONS == <<"GRAMMAR", "VOCABULARY", "LISTENING">>
Sections           == {"GRAMMAR", "VOCABULARY", "LISTENING"}
MAX_PLAN_PHASES    == 5
C2                 == 6    \* the last of LEVEL_ORDER; A1 is 1

\* The shortest list over S in which no element precedes a smaller one
Sorted(S, Before(_, _)) ==
    CHOOSE q \in [1 .. Cardinality(S) -> S] :
        /\ \A x \in S : \E i \in DOMAIN q : q[i] = x
        /\ \A i, j \in DOMAIN q : i < j => Before(q[i], q[j])

Rounded(part, whole) == (2 * part + whole) \div (2 * whole)

(* `count` is how many of the attempt's questions of a section still       *)
(* exist, `correct` how many of those were answered right: a question that *)
(* was deleted is in neither.                                              *)
scorePlacementAttempt(correct, count) ==
    LET score == [s \in Sections |->
                    IF count[s] > 0 THEN Rounded(100 * correct[s], count[s]) ELSE 0]
    IN  [sectionScores |-> score,
         overallScore  |-> Rounded(score["GRAMMAR"] + score["VOCABULARY"] + score["LISTENING"],
                                   Len(PLACEMENT_SECTIONS))]

\* A1 .. C1, a level every 20 points
estimateLevel(overall) == IF overall >= 80 THEN 5 ELSE overall \div 20 + 1
-----------------------------------------------------------------------------
Distance(a, b) == IF a < b THEN b - a ELSE a - b
First(S)       == CHOOSE c \in S : \A d \in S : c.sortKey <= d.sortKey

(* loadAvailableResources: what is published and meant for the goal.  A    *)
(* resource without goals is meant for every one, except that a scenario   *)
(* to speak is only ever offered to those who asked for conversation.      *)
(* `fit`: a course is of type GRAMMAR; a scenario is free talk and has a   *)
(* published exercise.                                                     *)
Suits(r, goal) ==
    /\ r.fit
    /\ IF r.pillar = "SPEAKING" THEN goal = "GENERAL_ENGLISH" /\ goal \in r.goals
       ELSE r.goals = {} \/ goal \in r.goals

loadAvailableResources(goal, published) == {r \in published : Suits(r, goal)}

(* The closest level, then the author's order; resources without a level   *)
(* only when the pillar has no other.                                      *)
pickResource(pillar, level, candidates) ==
    LET inPillar == {c \in candidates : c.pillar = pillar}
        leveled  == {c \in inPillar : c.level # 0}
        nearest  == {c \in leveled : \A d \in leveled :
                        Distance(c.level, level) <= Distance(d.level, level)}
    IN  IF leveled = {} THEN First(inPillar) ELSE First(nearest)

Covered(candidates) == {c.pillar : c \in candidates}

(* Mutant: the resource already listed is not left out. *)
ConsolidationsAny(weakest, level, candidates, items) ==
    {c \in candidates :
        /\ level < C2 /\ c.pillar = weakest /\ c.level = level + 1
        /\ \E i \in DOMAIN items : items[i].pillar = weakest}

(* The weakest section again, one level up, with something else to do.     *)
Consolidations(weakest, level, candidates, items) ==
    {c \in candidates :
        /\ level < C2 /\ c.pillar = weakest /\ c.level = level + 1
        /\ \E i \in DOMAIN items : items[i].pillar = weakest
        /\ \A i \in DOMAIN items : items[i].pillar = weakest => items[i].id # c.id}

\* scores is the section scores, or FALSE when the test was skipped
generateRoadmap(level, graded, scores, candidates) ==
    LET place(s) == CHOOSE i \in 1 .. 3 : PLACEMENT_SECTIONS[i] = s
        sooner(s, t) == IF graded /\ scores[s] # scores[t] THEN scores[s] < scores[t]
                        ELSE place(s) < place(t)
        pillars == Sorted(Sections, sooner)
        present == SelectSeq(pillars, LAMBDA s : s \in Covered(candidates))
        items   == [i \in 1 .. Len(present) |-> pickResource(present[i], level, candidates)]
        again   == IF graded THEN Consolidations(pillars[1], level, candidates, items) ELSE {}
    IN  items \o (IF again = {} THEN <<>> ELSE <<First(again)>>)
              \o (IF "SPEAKING" \in Covered(candidates)
                  THEN <<pickResource("SPEAKING", level, candidates)>> ELSE <<>>)

(* validateRoadmapPlan: only what is on offer, nothing twice, every pillar *)
(* on offer, and speaking last.                                            *)
validateRoadmapPlan(phases, candidates) ==
    /\ Len(phases) \in 1 .. MAX_PLAN_PHASES
    /\ \A i \in DOMAIN phases : phases[i] \in candidates
    /\ \A i, j \in DOMAIN phases : i # j => phases[i].id # phases[j].id
    /\ Covered(candidates) \subseteq {phases[i].pillar : i \in DOMAIN phases}
    /\ \A i \in 1 .. Len(phases) - 1 : phases[i].pillar # "SPEAKING"

(* joinLiveResources: the phases of a stored roadmap whose resource is     *)
(* still published, in their order; nobody asks again whom it is meant for.*)
joinLiveResources(items, published) ==
    SelectSeq(items, LAMBDA item : \E r \in published : r.id = item.id)

\* What the narrative is told of: the same, without the scenarios to speak.
describePhases(items, published) ==
    SelectSeq(joinLiveResources(items, published), LAMBDA item : item.pillar # "SPEAKING")
-----------------------------------------------------------------------------
(* A paper is the sequence of the questions an attempt drew; bank[q] is    *)
(* the row of a question, its section and its right answer, or None once   *)
(* it is deleted; sheet[q] what the student submitted, None if nothing.    *)

\* toAttemptState: the questions that are still there, in their order
presentQuestions(paper, bank) == SelectSeq(paper, LAMBDA q : bank[q] # None)

gradedRight(q, bank, sheet) == sheet[q] # None /\ sheet[q] = bank[q].key

\* The loop of scorePlacementAttempt over the questions that are there
tallyOf(paper, bank, sheet) ==
    LET there == presentQuestions(paper, bank)
        ofSection(s) == {i \in DOMAIN there : bank[there[i]].section = s}
    IN  [correct |-> [s \in Sections |->
                         Cardinality({i \in ofSection(s) : gradedRight(there[i], bank, sheet)})],
         count   |-> [s \in Sections |-> Cardinality(ofSection(s))]]

\* finalizeNow: what is stored of the result
scoresOf(paper, bank, sheet) ==
    LET t == tallyOf(paper, bank, sheet) IN scorePlacementAttempt(t.correct, t.count)

\* getAttemptReview, graded again with the bank of now
reviewItems(paper, bank, sheet) ==
    LET there == presentQuestions(paper, bank)
    IN  [i \in DOMAIN there |->
            [question |-> there[i], section |-> bank[there[i]].section,
             submitted |-> sheet[there[i]], isCorrect |-> gradedRight(there[i], bank, sheet)]]

\* toResultDto: the stored scores beside counts of now
resultOf(stored, paper, bank, sheet) ==
    [scores |-> stored, counts |-> tallyOf(paper, bank, sheet)]
-----------------------------------------------------------------------------
(* What a student gets without AI would pass as an answer of the planner,  *)
(* whatever is on offer for the goal and however the test went; its first  *)
(* phase is the weakest section there is something for (generateRoadmap,   *)
(* validateRoadmapPlan).                                                   *)
Acceptable(plan, result, graded, candidates) ==
    LET tested == Covered(candidates) \cap Sections
    IN  /\ candidates # {} => validateRoadmapPlan(plan, candidates)
        /\ graded /\ tested # {} =>
              \A s \in tested : result.sectionScores[plan[1].pillar] <= result.sectionScores[s]

(* An answer more never lowers the level (scorePlacementAttempt,           *)
(* estimateLevel).                                                         *)
Rising(correct, count) ==
    LET levelOf(c) == estimateLevel(scorePlacementAttempt(c, count).overallScore)
    IN  \A s \in Sections : correct[s] < count[s] =>
           levelOf([correct EXCEPT ![s] = @ + 1]) >= levelOf(correct)

(* A student is only sent to speak who asked for it, and whatever is       *)
(* withdrawn later takes its own phase with it and no other                *)
(* (loadAvailableResources, joinLiveResources).                            *)
Followable(plan, goal, later) ==
    LET shown == joinLiveResources(plan, later)
        kept  == {i \in DOMAIN plan : plan[i] \in later}
    IN  /\ Len(shown) = Cardinality(kept)
        /\ \A i \in kept :
              shown[Cardinality({j \in kept : j <= i})] = plan[i]
        /\ goal # "GENERAL_ENGLISH" => \A i \in DOMAIN plan : plan[i].pillar # "SPEAKING"

(* The narrative tells of phases the student is shown, in their order, and *)
(* of each of them that is not for speaking (describePhases).              *)
Narrated(plan, later) ==
    LET shown == joinLiveResources(plan, later)
        told  == describePhases(plan, later)
        quiet == {i \in DOMAIN shown : shown[i].pillar # "SPEAKING"}
    IN  /\ Len(told) = Cardinality(quiet)
        /\ \A i \in quiet : told[Cardinality({j \in quiet : j <= i})] = shown[i]

(* The result, the review and the stored scores tell of one grading: the   *)
(* counts are those of the ticks in the review, section by section, a      *)
(* question that was deleted is in neither, and the score of a section     *)
(* follows from its counts unless one of its questions was edited, or an   *)
(* answer to it was written, since the grading read them (`read`): an      *)
(* answer that was accepted in time may still land after it (finalizeNow,  *)
(* toResultDto, getAttemptReview).                                         *)
ReviewAgrees(stored, read, paper, bank, sheet) ==
    LET items    == reviewItems(paper, bank, sheet)
        result   == resultOf(stored, paper, bank, sheet)
        again    == scorePlacementAttempt(result.counts.correct, result.counts.count)
        ticks(s) == {i \in DOMAIN items : items[i].section = s /\ items[i].isCorrect}
        in(s, rows, q) == rows[q] # None /\ rows[q].section = s
        moved    == {q \in DOMAIN bank : bank[q] # read.bank[q] \/ sheet[q] # read.sheet[q]}
    IN  /\ \A s \in Sections :
              /\ result.counts.correct[s] = Cardinality(ticks(s))
              /\ result.counts.correct[s] <= result.counts.count[s]
              /\ \/ again.sectionScores[s] = result.scores.sectionScores[s]
                 \/ \E q \in moved : in(s, bank, q) \/ in(s, read.bank, q)
        /\ {items[i].question : i \in DOMAIN items} = {q \in DOMAIN bank : bank[q] # None}
        /\ moved = {} => again = result.scores
=============================================================================
