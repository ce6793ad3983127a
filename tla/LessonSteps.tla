----------------------------- MODULE LessonSteps -----------------------------
(***************************************************************************)
(* The video and theory steps of one lesson for one student                *)
(* (LessonStepService): each report of the player, and each click on the   *)
(* theory, is a READ COMMITTED transaction that reads the step row,        *)
(* combines it and writes it back.                                         *)
(***************************************************************************)
EXTENDS Absent, Naturals, FiniteSets

CONSTANTS Reporters,     \* the requests, each made once
          Reports,       \* [position, duration] a player may send, in seconds
          Authored       \* the author's length of the video, 0 if he gave none

\* A LessonStepProgress row: the furthest position, the duration it is out of
StepRowType == [completed : BOOLEAN, highest : Nat, duration : Nat]

ASSUME StepsAssumption ==
    /\ Authored \in Nat
    /\ Reports \subseteq [position : Nat, duration : Nat]
    /\ None \notin StepRowType

\* VIDEO_COMPLETION_RATIO, in percent, and the floor of the denominator.
RATIO == 90
MIN_COMPLETABLE_DURATION_SECONDS == 30

StepKinds == {"VIDEO", "THEORY"}

VARIABLES stepRow,     \* the LessonStepProgress rows
          report,      \* the requests: what was sent, what was read
          stepXp,      \* the steps whose completion paid XP
          writes       \* history: how often each row was written

stepVars == <<stepRow, report, stepXp, writes>>

NewReport == [pc |-> "new", step |-> None, sent |-> None, read |-> None,
              at |-> 0, retried |-> FALSE]

StepsInit ==
    /\ stepRow = [s \in StepKinds |-> None]
    /\ report = [r \in Reporters |-> NewReport]
    /\ stepXp = {} /\ writes = [s \in StepKinds |-> 0]

clamped(rep) == IF rep.position < rep.duration THEN rep.position ELSE rep.duration

\* A report against a recorded duration: is it far enough to complete?
denominator(duration) == IF Authored > 0 THEN Authored ELSE duration
reaches(position, duration) ==
    /\ denominator(duration) >= MIN_COMPLETABLE_DURATION_SECONDS
    /\ position * 100 >= RATIO * denominator(duration)

(* Mutant: the position is the last one reported. *)
combinedLast(step, read, sent) ==
    IF step = "THEORY"
    THEN [completed |-> sent = "complete" \/ (read # None /\ read.completed),
          highest |-> 0, duration |-> 0]
    ELSE LET frozen == IF read = None THEN sent.duration ELSE read.duration
         IN  [completed |-> (read # None /\ read.completed) \/ reaches(clamped(sent), frozen),
              highest |-> clamped(sent), duration |-> frozen]

(* What a transaction makes of the row it read.                            *)
combined(step, read, sent) ==
    IF step = "THEORY"
    THEN [completed |-> sent = "complete" \/ (read # None /\ read.completed),
          highest |-> 0, duration |-> 0]
    ELSE LET frozen  == IF read = None THEN sent.duration ELSE read.duration
             before  == IF read = None THEN 0 ELSE read.highest
             highest == IF clamped(sent) > before THEN clamped(sent) ELSE before
         IN  [completed |-> (read # None /\ read.completed) \/ reaches(highest, frozen),
              highest |-> highest, duration |-> frozen]
-----------------------------------------------------------------------------
Send(r, step, sent) ==
    /\ report[r].pc = "new"
    /\ report' = [report EXCEPT ![r].pc = "read", ![r].step = step, ![r].sent = sent]
    /\ UNCHANGED <<stepRow, stepXp, writes>>

RecordVideoProgress(r) == \E rep \in Reports : Send(r, "VIDEO", rep)
StartTheory(r)         == Send(r, "THEORY", "start")
CompleteTheory(r)      == Send(r, "THEORY", "complete")

ReadStep(r) ==
    LET s == report[r].step
    IN  /\ report[r].pc = "read"
        /\ report' = [report EXCEPT ![r].pc = "write", ![r].read = stepRow[s],
                                    ![r].at = writes[s]]
        /\ UNCHANGED <<stepRow, stepXp, writes>>

(* The row and, on the transition, its XP are written in one transaction.  *)
(* A create that lost to another request is P2002.                         *)
WriteStep(r) ==
    LET s   == report[r].step
        row == combined(s, report[r].read, report[r].sent)
    IN  /\ report[r].pc = "write"
        /\ report[r].read # None \/ stepRow[s] = None
        /\ stepRow' = [stepRow EXCEPT ![s] = row]
        /\ writes' = [writes EXCEPT ![s] = @ + 1]
        /\ stepXp' = IF row.completed /\ ~(report[r].read # None /\ report[r].read.completed)
                     THEN stepXp \cup {s} ELSE stepXp
        /\ report' = [report EXCEPT ![r].pc = "done"]

(* Only a video report is tried again, once.                               *)
LoseCreate(r) ==
    LET again == report[r].step = "VIDEO" /\ ~report[r].retried
    IN  /\ report[r].pc = "write"
        /\ report[r].read = None /\ stepRow[report[r].step] # None
        /\ report' = [report EXCEPT ![r].pc = IF again THEN "read" ELSE "done",
                                    ![r].retried = TRUE]
        /\ UNCHANGED <<stepRow, stepXp, writes>>

\* The transaction fails and leaves nothing.
FailStep(r) ==
    /\ report[r].pc \in {"read", "write"}
    /\ report' = [report EXCEPT ![r].pc = "done"]
    /\ UNCHANGED <<stepRow, stepXp, writes>>

StepsNext ==
    \E r \in Reporters :
        \/ RecordVideoProgress(r) \/ StartTheory(r) \/ CompleteTheory(r)
        \/ ReadStep(r) \/ WriteStep(r) \/ LoseCreate(r) \/ FailStep(r)

StepsSpec == StepsInit /\ [][StepsNext]_stepVars
-----------------------------------------------------------------------------
(* "nothing may ever clear it" (lesson-step.service.ts:229): a step is     *)
(* only un-completed, or a video set back, by a report that read the row   *)
(* before another one wrote it.                                            *)
SetBackOnlyByStaleReport ==
    [][\A s \in StepKinds :
          /\ stepRow[s] # None
          /\ \/ stepRow[s].completed /\ ~stepRow'[s].completed
             \/ stepRow'[s].highest < stepRow[s].highest
          => \E r \in Reporters :
                /\ report[r].pc = "write" /\ report'[r].pc = "done"
                /\ report[r].step = s /\ report[r].at < writes[s]]_stepVars
=============================================================================
