--------------------------- MODULE QuestionRules ---------------------------
(***************************************************************************)
(* The rules of a question (src/lesson/quiz): what an author may save,     *)
(* which reply is right (grade-question.ts), and what a hint of the trap   *)
(* hunter tells (trap-hints.ts).                                           *)
(*                                                                         *)
(* JSON values carry their shape.  A text is its normalised word and the   *)
(* number of its characters: normalizeFillBlank maps many texts to a word, *)
(* and a blank text to the word "".                                        *)
(*                                                                         *)
(* The bank of the placement test keeps such questions too, and there they *)
(* are changed a field at a time (PlacementQuestionService).               *)
(***************************************************************************)
EXTENDS Absent, Naturals, FiniteSets, Sequences, SequencesExt

CONSTANTS Patchers, Patches,    \* patches of [type, options, correct], None for a field left alone
          FirstQuestion

VARIABLES bankRow,      \* one PlacementQuestion row
          patcher,      \* the requests about it
          crossed       \* history: a patch was written on a row it had not read

bankVars == <<bankRow, patcher, crossed>>

\* A question: [type, options, correct, explained]; its options are their ids.
optionIdSet(q) == ToSet(q.options)
distinctIds(q) == Cardinality(optionIdSet(q)) = Len(q.options)

\* the shape of correctAnswer and of a submission
answerShape(type) ==
    CASE type = "MULTIPLE_CHOICE" -> "optionId"
      [] type = "TRUE_FALSE"      -> "value"
      [] type = "FILL_BLANK"      -> "accepted"
      [] type = "ORDERING"        -> "orderedOptionIds"
submissionShape(type) == IF type = "FILL_BLANK" THEN "text" ELSE answerShape(type)

\* FILL_BLANK: accepted spellings are not blank.  ORDERING: a permutation of
\* the options.  That option ids differ is for upsertTask to check.
validateQuestionContent(q) ==
    /\ q.correct.shape = answerShape(q.type)
    /\ q.type \in {"MULTIPLE_CHOICE", "ORDERING"} => Len(q.options) >= 2
    /\ q.type = "MULTIPLE_CHOICE" => q.correct.is \in optionIdSet(q)
    /\ q.type = "FILL_BLANK" =>
          q.correct.is # <<>> /\ \A i \in DOMAIN q.correct.is : q.correct.is[i].word # ""
    /\ q.type = "ORDERING" =>
          /\ Len(q.correct.is) = Len(q.options)
          /\ Cardinality(ToSet(q.correct.is)) = Len(q.correct.is)
          /\ ToSet(q.correct.is) \subseteq optionIdSet(q)

(* Mutant: an ordering is right when it starts right.                      *)
gradeFirst(q, submitted) ==
    /\ submitted.shape = submissionShape(q.type)
    /\ IF q.type = "FILL_BLANK" THEN \E i \in DOMAIN q.correct.is : q.correct.is[i].word = submitted.is.word
       ELSE IF q.type = "ORDERING" THEN q.correct.is[1] = submitted.is[1]
       ELSE submitted.is = q.correct.is

\* A submission of another shape is wrong, never an error.
gradeQuestion(q, submitted) ==
    /\ submitted.shape = submissionShape(q.type)
    /\ IF q.type = "FILL_BLANK"
       THEN \E i \in DOMAIN q.correct.is : q.correct.is[i].word = submitted.is.word
       ELSE submitted.is = q.correct.is
-----------------------------------------------------------------------------
(* Hints                                                                   *)

smaller(m, n) == IF m < n THEN m ELSE n

\* the places of the wrong options
distractors(q) == {i \in DOMAIN q.options : q.options[i] # q.correct.is}

(* Mutant: every distractor but none kept.                                 *)
eliminateAll(q) == smaller((Cardinality(distractors(q)) + 1) \div 2, Len(q.options) - 1)

\* half of the distractors, rounded up, and never the last one
eliminateCount(q) == smaller((Cardinality(distractors(q)) + 1) \div 2, Len(q.options) - 2)

\* seededShuffle keeps to one order, which may be any.
narrowMultipleChoice(q) ==
    IF eliminateCount(q) < 1 THEN {}
    ELSE {[shape |-> "eliminate", ids |-> {q.options[i] : i \in picked}] :
             picked \in kSubset(eliminateCount(q), distractors(q))}

narrowOrdering(q) ==
    IF Len(q.correct.is) < 3 THEN {}
    ELSE {[shape |-> "firstOption", id |-> q.correct.is[1]]}

shortestAccepted(q) ==
    CHOOSE n \in {q.correct.is[i].chars : i \in DOMAIN q.correct.is} :
        \A i \in DOMAIN q.correct.is : n <= q.correct.is[i].chars
narrowFillBlank(q) ==
    IF shortestAccepted(q) < 2 THEN {} ELSE {[shape |-> "letters", length |-> shortestAccepted(q)]}

\* The hints a question may give at its first level; none for TRUE_FALSE.
narrowed(q) ==
    CASE q.type = "MULTIPLE_CHOICE" -> narrowMultipleChoice(q)
      [] q.type = "ORDERING"        -> narrowOrdering(q)
      [] q.type = "FILL_BLANK"      -> narrowFillBlank(q)
      [] q.type = "TRUE_FALSE"      -> {}

\* buildTrapHints: only levels that have a source, numbered without a gap.
buildTrapHints(q, narrow) ==
    (IF narrow = None THEN <<>> ELSE <<"narrow">>) \o (IF q.explained THEN <<"explanation">> ELSE <<>>)
-----------------------------------------------------------------------------
(* The bank                                                                *)

QuestionTypes == {"MULTIPLE_CHOICE", "TRUE_FALSE", "FILL_BLANK", "ORDERING"}

\* The JSON that the columns of a question hold; which fits which is for the rules.
OptionsShaped(options) == options \in Seq(ToSet(options))
AnswerShaped(correct) ==
    \/ correct.shape = "optionId"
    \/ correct.shape = "value" /\ correct.is \in BOOLEAN
    \/ correct.shape = "orderedOptionIds" /\ correct.is \in Seq(ToSet(correct.is))
    \/ /\ correct.shape = "accepted" /\ correct.is \in Seq(ToSet(correct.is))
       /\ \A i \in DOMAIN correct.is : correct.is[i].chars \in Nat
QuestionShaped(q) ==
    /\ {"type", "options", "correct"} \subseteq DOMAIN q
    /\ q.type \in QuestionTypes /\ OptionsShaped(q.options) /\ AnswerShaped(q.correct)

ASSUME BankAssumption ==
    /\ QuestionShaped(FirstQuestion) /\ validateQuestionContent(FirstQuestion)
    /\ \A patch \in Patches :
          /\ DOMAIN patch = {"type", "options", "correct"}
          /\ patch.type = None \/ patch.type \in QuestionTypes
          /\ patch.options = None \/ OptionsShaped(patch.options)
          /\ patch.correct = None \/ AnswerShaped(patch.correct)

BankInit ==
    /\ bankRow = FirstQuestion /\ crossed = FALSE
    /\ patcher = [r \in Patchers |-> [pc |-> "new"]]

\* the row with what the patch touches
patched(row, patch) ==
    [f \in DOMAIN row |-> IF f \in DOMAIN patch /\ patch[f] # None THEN patch[f] ELSE row[f]]

(* Mutant: a patch that leaves the answer alone is not checked.            *)
checkedAlone(row, patch) ==
    patch.correct = None \/ validateQuestionContent(patched(row, patch))

\* update validates the resolved shape: what is there with what is asked for.
checked(row, patch) == validateQuestionContent(patched(row, patch))

ReadQuestion(r, patch) ==
    /\ patcher[r].pc = "new"
    /\ patcher' = [patcher EXCEPT ![r] =
                     IF bankRow = None \/ ~checked(bankRow, patch) THEN [pc |-> "refused"]
                     ELSE [pc |-> "write", patch |-> patch, read |-> bankRow]]
    /\ UNCHANGED <<bankRow, crossed>>

\* Only the fields asked for are written, on the row as it is by then.
WriteQuestion(r) ==
    /\ patcher[r].pc = "write"
    /\ IF bankRow = None
       THEN patcher' = [patcher EXCEPT ![r] = [pc |-> "failed"]] /\ UNCHANGED <<bankRow, crossed>>
       ELSE /\ bankRow' = patched(bankRow, patcher[r].patch)
            /\ crossed' = (crossed \/ bankRow # patcher[r].read)
            /\ patcher' = [patcher EXCEPT ![r] = [pc |-> "done"]]

\* An attempt in progress does not keep its questions from being removed.
RemoveQuestion == bankRow # None /\ bankRow' = None /\ UNCHANGED <<patcher, crossed>>

BankNext ==
    \/ RemoveQuestion
    \/ \E r \in Patchers : WriteQuestion(r) \/ \E patch \in Patches : ReadQuestion(r, patch)

BankSpec == BankInit /\ [][BankNext]_bankVars
-----------------------------------------------------------------------------
(* Properties                                                              *)

\* What a student can reply with what the page shows him.
Replies(q) ==
    CASE q.type = "MULTIPLE_CHOICE" -> {[shape |-> "optionId", is |-> id] : id \in optionIdSet(q)}
      [] q.type = "TRUE_FALSE"      -> {[shape |-> "value", is |-> b] : b \in BOOLEAN}
      [] q.type = "ORDERING"        -> {[shape |-> "orderedOptionIds", is |-> s] :
                                           s \in SetToSeqs(optionIdSet(q))}
      [] q.type = "FILL_BLANK"      -> {[shape |-> "text", is |-> q.correct.is[i]] :
                                           i \in DOMAIN q.correct.is}

compatible(reply, hint) ==
    CASE hint.shape = "eliminate"   -> reply.is \notin hint.ids
      [] hint.shape = "firstOption" -> reply.is[1] = hint.id
      [] hint.shape = "letters"     -> TRUE

(* What an author can save, a student can answer: one choice is right and  *)
(* no other, and every accepted spelling is.                               *)
Answerable(q) ==
    validateQuestionContent(q) =>
        LET right == {reply \in Replies(q) : gradeQuestion(q, reply)}
        IN  IF q.type = "FILL_BLANK" THEN right = Replies(q)
            ELSE Cardinality(right) = 1 /\ (distinctIds(q) => Cardinality(Replies(q)) > 1)

(* No first hint gives the answer away: the right reply agrees with it,    *)
(* and so does another one.  That option ids differ is checked apart, by   *)
(* upsertTask, before a question is saved (quiz.service.ts:980-987).       *)
HintsLeaveChoice(q) ==
    validateQuestionContent(q) /\ distinctIds(q) =>
        \A hint \in narrowed(q) :
            /\ \E reply \in Replies(q) : gradeQuestion(q, reply) /\ compatible(reply, hint)
            /\ IF hint.shape = "letters" THEN hint.length > 1
               ELSE \E reply \in Replies(q) : ~gradeQuestion(q, reply) /\ compatible(reply, hint)

(* The question of the bank can be answered, however it was patched: a row  *)
(* that breaks its own rules comes only of two patches, each right about   *)
(* the row it read.                                                        *)
BankAnswerable == bankRow # None /\ ~crossed => validateQuestionContent(bankRow) /\ Answerable(bankRow)

QuestionFair(q) == Answerable(q) /\ HintsLeaveChoice(q)
=============================================================================
