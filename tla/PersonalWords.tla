--------------------------- MODULE PersonalWords ---------------------------
(***************************************************************************)
(* The words a user saves and reviews (VocabPersonalService): a limit for  *)
(* users without a subscription, one row per text, and reviews that are    *)
(* made exactly once, under a version instead of a lock.                   *)
(*                                                                         *)
(* The SM-2 columns are what scheduler.ts makes of the ratings so far, so  *)
(* a row carries those ratings, on the columns it began with or a PATCH    *)
(* left, and the lists are of what it makes.  One user; requests are       *)
(* handled at once.                                                        *)
(***************************************************************************)
EXTENDS Absent, Integers, FiniteSets, Sequences

CONSTANTS
    Saved,          \* ids of PersonalVocabWord rows
    SavedCalls, SavedRequests,
    FreeLimit,      \* FREE_VOCAB_WORD_LIMIT
    FirstSaved      \* the rows a scene starts from

Srs == INSTANCE SrsScheduler

\* Where the columns come from: reviews alone, or a PATCH that named them.
NewSaved(text) ==
    [text |-> text, base |-> Srs!DEFAULT_NEW_PROGRESS, ratings |-> <<>>, nextReviewAt |-> "null",
     version |-> 0, shapedBy |-> "reviews"]

ColumnsType ==
    [state : Srs!LearningStates, easeFactor : Int, intervalDays : Int, repetitions : Int,
     lapses : Int, masteredAt : Int, firstLearnedAt : Int]
ReviewDates == {"null", "date"}
SavedType ==
    [text : STRING, base : ColumnsType, ratings : Seq(Srs!Ratings), nextReviewAt : ReviewDates,
     version : Int, shapedBy : {"reviews", "patch"}]

\* UpdatePersonalVocabWordDto as it arrives: a global ValidationPipe without
\* a whitelist keeps the names it does not know, and Prisma their types.
takes(body, c, S) == c \in DOMAIN body => body[c] \in S
BodyTyped(body) ==
    /\ takes(body, "text", STRING) /\ takes(body, "state", Srs!LearningStates)
    /\ takes(body, "nextReviewAt", ReviewDates)
    /\ \A c \in {"easeFactor", "intervalDays", "repetitions", "lapses", "masteredAt",
                 "firstLearnedAt", "version"} : takes(body, c, Int)

FirstIds == {w \in Saved : FirstSaved[w] # None}

ASSUME PersonalAssumption ==
    /\ FreeLimit \in Nat /\ None \notin Nat \cup SavedType
    /\ \A call \in SavedCalls : /\ call.op = "save"   => call.texts \in Seq(STRING)
                                /\ call.op = "update" => BodyTyped(call.body)
                                /\ call.op = "review" => call.rating \in Srs!Ratings
    /\ FirstSaved \in [Saved -> SavedType \cup {None}]
    /\ \A w \in FirstIds : FirstSaved[w] = NewSaved(FirstSaved[w].text)
    /\ \A v, w \in FirstIds : FirstSaved[v].text = FirstSaved[w].text => v = w
    /\ IsFiniteSet(FirstIds) /\ Cardinality(FirstIds) <= FreeLimit

VARIABLES
    saved,      \* the rows, of SavedType
    issued,     \* ids that a row has or had: an id is never used again
    reviews,    \* PersonalWordReviewLog: [id, word, rating]
    pro,        \* a live subscription
    mine,       \* the requests
    over        \* history: a word was added on an outdated count, or by a pro

personalVars == <<saved, issued, reviews, pro, mine, over>>

NoSaved == [pc |-> "new", call |-> [op |-> "none"], row |-> None, count |-> 0, todo |-> <<>>]

PersonalInit ==
    /\ saved = FirstSaved /\ issued = FirstIds /\ reviews = {} /\ pro = FALSE
    /\ mine = [r \in SavedRequests |-> NoSaved] /\ over = FALSE
-----------------------------------------------------------------------------
savedWords == {w \in Saved : saved[w] # None}
taken(text) == \E w \in savedWords : saved[w].text = text

asks(r, op, pc) == mine[r].pc = pc /\ mine[r].call.op = op
replyTo(r, reply) == mine' = [mine EXCEPT ![r] = [NoSaved EXCEPT !.pc = reply]]
proceeds(r, pc) == mine' = [mine EXCEPT ![r].pc = pc]

Ask(r, call) ==
    /\ mine[r].pc = "new"
    /\ mine' = [mine EXCEPT ![r] = [@ EXCEPT !.pc = "begin", !.call = call]]
    /\ UNCHANGED <<saved, issued, reviews, pro, over>>

\* bulkCreate drops the lines that repeat an earlier one.
unrepeated(texts) ==
    [i \in {j \in DOMAIN texts : \A k \in 1 .. j - 1 : texts[k] # texts[j]} |-> texts[i]]

\* create and bulkCreate: isUserPro and the count are read, then acted on.
CheckLimit(r) ==
    /\ asks(r, "save", "begin")
    /\ LET lines == unrepeated(mine[r].call.texts)
           count == Cardinality(savedWords)
       IN  IF ~pro /\ count + Cardinality(DOMAIN lines) > FreeLimit
           THEN replyTo(r, "limit")
           ELSE mine' = [mine EXCEPT ![r].pc = "insert", ![r].count = IF pro THEN None ELSE count,
                                     ![r].todo = lines]
    /\ UNCHANGED <<saved, issued, reviews, pro, over>>

\* Every line is an insert of its own; one that the unique text refuses is
\* reported (409) or, in a batch, skipped.
InsertSaved(r) ==
    /\ asks(r, "save", "insert") /\ DOMAIN mine[r].todo # {}
    /\ LET todo == mine[r].todo
           line == CHOOSE i \in DOMAIN todo : \A j \in DOMAIN todo : i <= j
           text == todo[line]
           rest == [i \in DOMAIN todo \ {line} |-> todo[i]]
           counted == IF mine[r].count = None THEN None ELSE mine[r].count + 1
       IN  IF taken(text)
           THEN /\ IF Len(mine[r].call.texts) = 1 THEN replyTo(r, "exists")
                   ELSE mine' = [mine EXCEPT ![r].todo = rest]
                /\ UNCHANGED <<saved, issued, over>>
           ELSE /\ \E w \in Saved \ issued : /\ saved' = [saved EXCEPT ![w] = NewSaved(text)]
                                               /\ issued' = issued \cup {w}
                /\ mine' = [mine EXCEPT ![r].todo = rest, ![r].count = counted]
                /\ over' = (over \/ mine[r].count # Cardinality(savedWords))
    /\ UNCHANGED <<reviews, pro>>

EndSave(r) ==
    /\ asks(r, "save", "insert") /\ DOMAIN mine[r].todo = {}
    /\ replyTo(r, "done") /\ UNCHANGED <<saved, issued, reviews, pro, over>>

\* The SM-2 columns, after each of the ratings.
progressAfter(base, ratings) ==
    LET after[n \in 0 .. Len(ratings)] ==
            IF n = 0 THEN base ELSE Srs!next(after[n - 1], ratings[n], n, 1)
    IN  after

\* toProgressSnapshot
snapshot(row) == progressAfter(row.base, row.ratings)[Len(row.ratings)]

\* The row with every column that the body names, text or not.
amended(row, body) ==
    LET now         == snapshot(row)
        put(c, old) == IF c \in DOMAIN body THEN body[c] ELSE old
    IN  IF DOMAIN body \subseteq {"text"} THEN [row EXCEPT !.text = put("text", row.text)]
        ELSE [text |-> put("text", row.text),
              base |-> [state          |-> put("state", now.state),
                        easeFactor     |-> put("easeFactor", now.easeFactor),
                        intervalDays   |-> put("intervalDays", now.intervalDays),
                        repetitions    |-> put("repetitions", now.repetitions),
                        lapses         |-> put("lapses", now.lapses),
                        masteredAt     |-> put("masteredAt", now.masteredAt),
                        firstLearnedAt |-> put("firstLearnedAt", now.firstLearnedAt)],
              ratings |-> <<>>, nextReviewAt |-> put("nextReviewAt", row.nextReviewAt),
              version |-> put("version", row.version), shapedBy |-> "patch"]

\* update: one statement, by id and owner, of all that the body holds
Update(r) ==
    /\ asks(r, "update", "begin")
    /\ LET w   == mine[r].call.word
           row == amended(saved[w], mine[r].call.body)
       IN  IF w \notin savedWords THEN replyTo(r, "none") /\ UNCHANGED saved
           ELSE IF \E v \in savedWords \ {w} : saved[v].text = row.text
           THEN replyTo(r, "exists") /\ UNCHANGED saved
           ELSE saved' = [saved EXCEPT ![w] = row] /\ replyTo(r, "done")
    /\ UNCHANGED <<issued, reviews, pro, over>>

\* remove: the reviews of a word go with it.
RemoveSaved(r) ==
    /\ asks(r, "remove", "begin")
    /\ IF mine[r].call.word \in savedWords
       THEN /\ saved' = [saved EXCEPT ![mine[r].call.word] = None]
            /\ reviews' = {v \in reviews : v.word # mine[r].call.word}
            /\ replyTo(r, "done")
       ELSE replyTo(r, "none") /\ UNCHANGED <<saved, reviews>>
    /\ UNCHANGED <<issued, pro, over>>
-----------------------------------------------------------------------------
(* submitReview                                                            *)

sameKey(call) == {v \in reviews : v.id = call.id}

\* A key that is logged is answered from the word's row of now, or refused.
FindReview(r) ==
    /\ asks(r, "review", "begin")
    /\ LET call == mine[r].call
       IN  IF sameKey(call) = {} THEN proceeds(r, "read")
           ELSE IF \E v \in sameKey(call) : v.word # call.word \/ v.rating # call.rating
           THEN replyTo(r, "reused")
           ELSE proceeds(r, "replay")
    /\ UNCHANGED <<saved, issued, reviews, pro, over>>

Replay(r) ==
    /\ asks(r, "review", "replay")
    /\ replyTo(r, IF mine[r].call.word \in savedWords THEN "done" ELSE "none")
    /\ UNCHANGED <<saved, issued, reviews, pro, over>>

ReadSaved(r) ==
    /\ asks(r, "review", "read")
    /\ IF mine[r].call.word \in savedWords
       THEN mine' = [mine EXCEPT ![r].pc = "write", ![r].row = saved[mine[r].call.word]]
       ELSE replyTo(r, "none")
    /\ UNCHANGED <<saved, issued, reviews, pro, over>>

\* The row is still the one that was read.
unchangedSince(r) ==
    LET w == mine[r].call.word IN w \in savedWords /\ saved[w].version = mine[r].row.version

\* attemptReview: the row under its version, then the log, whose unique key
\* aborts both.
WriteReview(r) ==
    /\ asks(r, "review", "write")
    /\ LET call == mine[r].call
           row == mine[r].row
       IN  IF ~unchangedSince(r) THEN replyTo(r, "conflict") /\ UNCHANGED <<saved, reviews>>
           ELSE IF sameKey(call) # {} THEN replyTo(r, "failed") /\ UNCHANGED <<saved, reviews>>
           ELSE /\ saved' = [saved EXCEPT ![call.word] =
                        [@ EXCEPT !.base = row.base, !.ratings = Append(row.ratings, call.rating),
                                  !.nextReviewAt = "date", !.version = row.version + 1]]
                /\ reviews' = reviews \cup {[id |-> call.id, word |-> call.word,
                                             rating |-> call.rating, nth |-> row.version + 1]}
                /\ replyTo(r, "done")
    /\ UNCHANGED <<issued, pro, over>>

Subscribe == pro' = ~pro /\ UNCHANGED <<saved, issued, reviews, mine, over>>

PersonalNext ==
    \/ \E r \in SavedRequests :
         \/ \E call \in SavedCalls : Ask(r, call)
         \/ CheckLimit(r) \/ InsertSaved(r) \/ EndSave(r) \/ Update(r) \/ RemoveSaved(r)
         \/ FindReview(r) \/ Replay(r) \/ ReadSaved(r) \/ WriteReview(r)
    \/ Subscribe

PersonalSpec == PersonalInit /\ [][PersonalNext]_personalVars
-----------------------------------------------------------------------------
(* The lists                                                               *)

LEARNING_BUCKET_STATES == {"LEARNING", "REVIEW", "RELEARNING"}

\* statusFilterWhere
statesOf(status) ==
    CASE status = "new"      -> {"NEW"}
      [] status = "learning" -> LEARNING_BUCKET_STATES
      [] status = "mastered" -> {"MASTERED"}
      [] OTHER               -> Srs!LearningStates

\* No nextReviewAt, or one before tomorrow: `later` are the words due after today.
wordDue(w, later) == saved[w].nextReviewAt = "null" \/ w \notin later

\* list: the rows of all its pages
list(status, dueOnly, later) ==
    {w \in savedWords : snapshot(saved[w]).state \in statesOf(status) /\ (dueOnly => wordDue(w, later))}

getSavedStatus(texts) == [t \in texts |-> {w \in savedWords : saved[w].text = t}]

getStats(later) ==
    LET count(S) == Cardinality({w \in savedWords : snapshot(saved[w]).state \in S})
    IN  [total |-> Cardinality(savedWords), mastered |-> count({"MASTERED"}),
         learning |-> count(LEARNING_BUCKET_STATES), new |-> count({"NEW"}),
         dueTodayCount |-> Cardinality({w \in savedWords : wordDue(w, later)}),
         struggledCount |-> Cardinality({w \in savedWords : snapshot(saved[w]).lapses > 0})]
-----------------------------------------------------------------------------
(* Properties                                                              *)

\* The words whose scheduling columns no PATCH has named: all of them, if
\* clients send what UpdatePersonalVocabWordDto declares.
reviewedOnly == {w \in savedWords : saved[w].shapedBy = "reviews"}

(* Such a word is scheduled by exactly its logged reviews, from a new      *)
(* word's columns, each of them once and in the order of their commits,    *)
(* however many requests, retries and devices send them, whatever texts it *)
(* is given meanwhile and whatever a PATCH does to the others.             *)
ReviewsApplied ==
    \A w \in reviewedOnly :
        LET logged == {v \in reviews : v.word = w}
        IN  /\ saved[w].base = Srs!DEFAULT_NEW_PROGRESS
            /\ saved[w].version = Len(saved[w].ratings)
            /\ Cardinality(logged) = saved[w].version
            /\ \A v \in logged : saved[w].ratings[v.nth] = v.rating
            /\ \A u, v \in logged : u.nth = v.nth => u = v

(* A free user holds more words than the limit only if a subscription or   *)
(* two saves at a time let more in; a text is saved once.                  *)
LimitHolds ==
    /\ Cardinality(savedWords) > FreeLimit => over
    /\ \A v, w \in savedWords : saved[v].text = saved[w].text => v = w

(* The numbers above the list are those of its filters, which leave out    *)
(* no word and show none twice; the star of a word shows the one row that  *)
(* has its text; and of the words that only reviews have scheduled, one is *)
(* new until its first review and never again, and stays due for as long,  *)
(* and only one that was known and then forgotten counts as a struggle.    *)
ListsAgree(texts, later) ==
    LET stats    == getStats(later)
        shown(s) == list(s, FALSE, later)
        rated(w, i, ratings) == i \in DOMAIN saved[w].ratings /\ saved[w].ratings[i] \in ratings
    IN  /\ stats.total = stats.new + stats.learning + stats.mastered
        /\ savedWords = UNION {shown(s) : s \in {"new", "learning", "mastered"}}
        /\ stats.new = Cardinality(shown("new")) /\ stats.mastered = Cardinality(shown("mastered"))
        /\ shown("new") \cap reviewedOnly = {w \in reviewedOnly : \A v \in reviews : v.word # w}
        /\ shown("new") \cap reviewedOnly \subseteq list("all", TRUE, later)
        /\ stats.dueTodayCount = Cardinality(list("all", TRUE, later))
        /\ stats.struggledCount <= Cardinality({w \in savedWords : w \in reviewedOnly =>
                \E i, j \in 1 .. Len(saved[w].ratings) :
                    i < j /\ rated(w, i, {"GOOD", "EASY"}) /\ rated(w, j, {"AGAIN"})})
        /\ \A t \in texts : /\ Cardinality(getSavedStatus(texts)[t]) <= 1
                             /\ getSavedStatus(texts)[t] # {} <=> taken(t)

PersonalSound == ReviewsApplied /\ LimitHolds
=============================================================================
