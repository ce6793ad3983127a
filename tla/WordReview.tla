----------------------------- MODULE WordReview -----------------------------
(***************************************************************************)
(* LearningService.submitReview and attemptReview: one student's requests  *)
(* to rate words, several of them in flight, retried and duplicated.  A    *)
(* transaction's writes are private until Commit; a statement that meets a *)
(* row of another open transaction waits.  recordProgress is one step here *)
(* (Gamification has its statements), and its day and user rows, which     *)
(* only make rivals wait longer, are left out.                             *)
(***************************************************************************)
EXTENDS XpRules, SrsScheduler, Sequences

CONSTANTS Requests,    \* the request handlers
          Answers,     \* the ratings students give
          Histories    \* the reviews of each word accepted in the past

EaseFactors == MIN_EASE_FACTOR .. MAX_EASE_FACTOR
Stamps      == {Never, 0}
CardType == [state : LearningStates, easeFactor : EaseFactors, intervalDays : Nat,
             repetitions : Nat, lapses : Nat, masteredAt : Stamps, firstLearnedAt : Stamps]
RowType  == [version : Nat, card : CardType]
LogType  == [review : Reviews, word : Words, rating : Ratings,
             resultVersion : Nat \ {0}, card : CardType]

(* A past the database can hold: logs are numbered by the versions of      *)
(* their word's row, and (userId, clientReviewId) is unique.               *)
PastPossible(h) ==
    /\ h \in [Words -> Seq(LogType)]
    /\ \A w \in Words : \A i \in DOMAIN h[w] : h[w][i].word = w /\ h[w][i].resultVersion = i
    /\ \A v, w \in Words : \A i \in DOMAIN h[v], j \in DOMAIN h[w] :
          h[v][i].review = h[w][j].review => v = w /\ i = j

(* Each was scheduled from the one before it.                              *)
PastScheduled(h) ==
    \A w \in Words : \A i \in DOMAIN h[w] : \E tie \in {0, 1} :
        h[w][i].card = next(IF i = 1 THEN DEFAULT_NEW_PROGRESS ELSE h[w][i - 1].card,
                            h[w][i].rating, 0, tie)

ASSUME WordReviewAssumption ==
    /\ Answers \subseteq Ratings
    /\ \A h \in Histories : PastPossible(h) /\ PastScheduled(h)

VARIABLES progress,    \* UserWordProgress: version and card; version 0 = no row
          logs,        \* WordReviewLog rows per word, in order of commit
          ledger,      \* the WORD_REVIEWED and WORD_MASTERED rows
          visible,     \* the words in a published deck
          req,         \* the requests in flight
          replies      \* history: the snapshots returned with 200

vars == <<progress, logs, ledger, visible, req, replies>>

NoRow   == [version |-> 0, card |-> DEFAULT_NEW_PROGRESS]
NoLog   == [review |-> "none", word |-> "none", rating |-> "none",
            resultVersion |-> 0, card |-> DEFAULT_NEW_PROGRESS]
IdleReq == [pc |-> "idle", review |-> "none", word |-> "none", rating |-> "none",
            attempt |-> 1, created |-> FALSE, before |-> NoRow, log |-> NoLog,
            logged |-> FALSE, rows |-> {}]

Log(r, w, g, v, card) ==
    [review |-> r, word |-> w, rating |-> g, resultVersion |-> v, card |-> card]
Snapshot200(log) == log      \* snapshotResponse: the reply is the stored log

Busy(q)    == req[q].pc # "idle"
Rivals(q)  == {p \in Requests \ {q} : Busy(p)}
Rows(h)    == UNION {{h[w][i] : i \in DOMAIN h[w]} : w \in Words}
Last(h)    == h[Len(h)]
EverMastered(h) == {l.word : l \in {k \in Rows(h) : k.card.state = "MASTERED"}}

Init ==
    /\ logs \in Histories
    /\ progress = [w \in Words |->
         IF logs[w] = <<>> THEN NoRow
         ELSE [version |-> Len(logs[w]), card |-> Last(logs[w]).card]]
    /\ ledger = {wordReviewedAward(l.review) : l \in Rows(logs)}
                \cup {wordMasteredAward(w) : w \in EverMastered(logs)}
    /\ visible = Words
    /\ req = [q \in Requests |-> IdleReq]
    /\ replies = {}
-----------------------------------------------------------------------------
Submit(q, r, w, g) ==
    /\ ~Busy(q)
    /\ req' = [req EXCEPT ![q] = [IdleReq EXCEPT !.pc = "check", !.review = r,
                                    !.word = w, !.rating = g]]
    /\ UNCHANGED <<progress, logs, ledger, visible, replies>>

(* The end of a request that changes nothing: an error status, or the      *)
(* rollback of everything its transaction had written.                     *)
Fail(q) ==
    /\ req' = [req EXCEPT ![q] = IdleReq]
    /\ UNCHANGED <<progress, logs, ledger, visible, replies>>

Recorded(r) == {l \in Rows(logs) : l.review = r}

(* The clientReviewId is known: with the same word and rating the stored   *)
(* snapshot is returned, whatever the word's visibility; else a 409.  (The *)
(* practice mode is compared like the rating, and is part of it here.)     *)
Replay(q) ==
    /\ req[q].pc = "check"
    /\ \E l \in Recorded(req[q].review) :
         /\ l.word = req[q].word /\ l.rating = req[q].rating
         /\ replies' = replies \cup {Snapshot200(l)}
    /\ req' = [req EXCEPT ![q] = IdleReq]
    /\ UNCHANGED <<progress, logs, ledger, visible>>

IdempotencyKeyReused(q) ==
    /\ req[q].pc = "check"
    /\ \E l \in Recorded(req[q].review) :
         l.word # req[q].word \/ l.rating # req[q].rating
    /\ Fail(q)

(* A fresh review of a word the student can see opens the transaction. *)
PassGate(q) ==
    /\ req[q].pc = "check"
    /\ Recorded(req[q].review) = {}
    /\ req[q].word \in visible
    /\ req' = [req EXCEPT ![q].pc = "find"]
    /\ UNCHANGED <<progress, logs, ledger, visible, replies>>

NotVisible(q) ==
    /\ req[q].pc = "check"
    /\ Recorded(req[q].review) = {}
    /\ req[q].word \notin visible
    /\ Fail(q)

FindProgress(q) ==
    LET row == progress[req[q].word]
    IN  /\ req[q].pc = "find"
        /\ req' = [req EXCEPT ![q].pc = IF row = NoRow THEN "create" ELSE "update",
                              ![q].before = row]
        /\ UNCHANGED <<progress, logs, ledger, visible, replies>>

(* A rival that has created or updated the word's row and is still open. *)
RowInHand(q) ==
    \E p \in Rivals(q) : /\ req[p].word = req[q].word
                         /\ req[p].created \/ req[p].log # NoLog

CreateProgress(q) ==
    /\ req[q].pc = "create"
    /\ ~RowInHand(q)
    /\ progress[req[q].word] = NoRow
    /\ req' = [req EXCEPT ![q].pc = "update", ![q].created = TRUE]
    /\ UNCHANGED <<progress, logs, ledger, visible, replies>>

(* The unique (userId, wordId) was taken meanwhile: the transaction is     *)
(* rolled back and run once more, as attempt 2.                            *)
RetryLostRace(q) ==
    /\ req[q].pc = "create"
    /\ progress[req[q].word] # NoRow
    /\ req[q].attempt = 1
    /\ req' = [req EXCEPT ![q].pc = "find", ![q].attempt = 2]
    /\ UNCHANGED <<progress, logs, ledger, visible, replies>>

(* Mutant: the row is updated by id alone. *)
VersionIgnored(q) == TRUE

(* updateMany where version = the version read: the row is waited for and  *)
(* the condition re-read, so only the first writer of a version matches.   *)
VersionMatches(q) == progress[req[q].word].version = req[q].before.version

UpdateProgress(q) ==
    /\ req[q].pc = "update"
    /\ ~RowInHand(q)
    /\ VersionMatches(q)
    /\ \E tie \in {0, 1} :
         req' = [req EXCEPT ![q].pc = "log",
                   ![q].log = Log(req[q].review, req[q].word, req[q].rating,
                                  req[q].before.version + 1,
                                  next(req[q].before.card, req[q].rating, 0, tie))]
    /\ UNCHANGED <<progress, logs, ledger, visible, replies>>

ReviewVersionConflict(q) ==
    /\ req[q].pc = "update"
    /\ ~RowInHand(q)
    /\ ~VersionMatches(q)
    /\ Fail(q)

(* The log's unique (userId, clientReviewId): a rival's is waited for, and *)
(* a committed one makes the insert fail (an unhandled P2002).             *)
CreateLog(q) ==
    /\ req[q].pc = "log"
    /\ \A p \in Rivals(q) : ~(req[p].logged /\ req[p].review = req[q].review)
    /\ Recorded(req[q].review) = {}
    /\ req' = [req EXCEPT ![q].pc = "award", ![q].logged = TRUE]
    /\ UNCHANGED <<progress, logs, ledger, visible, replies>>

DuplicateLog(q) ==
    /\ req[q].pc = "log"
    /\ Recorded(req[q].review) # {}
    /\ Fail(q)

(* Mutant: a mastered word is paid on every review that finds it mastered, *)
(* and not for the review itself.                                          *)
AwardKeysMasteredOnly(q) ==
    IF req[q].log.card.state = "MASTERED"
    THEN {wordMasteredAward(req[q].word)} ELSE {wordReviewedAward(req[q].review)}

AwardKeys(q) ==
    {wordReviewedAward(req[q].review)}
    \cup (IF justMastered(req[q].before.card, req[q].log.card)
          THEN {wordMasteredAward(req[q].word)} ELSE {})

Award(q) ==
    /\ req[q].pc = "award"
    /\ \A p \in Rivals(q) : req[p].rows \cap AwardKeys(q) = {}
    /\ req' = [req EXCEPT ![q].pc = "commit", ![q].rows = AwardKeys(q) \ ledger]
    /\ UNCHANGED <<progress, logs, ledger, visible, replies>>

(* Mutant: the version of the row is not incremented. *)
CommitSameVersion(q) ==
    LET l == req[q].log
    IN  /\ req[q].pc = "commit"
        /\ progress' = [progress EXCEPT ![l.word].card = l.card]
        /\ logs' = [logs EXCEPT ![l.word] = Append(@, l)]
        /\ ledger' = ledger \cup req[q].rows
        /\ replies' = replies \cup {Snapshot200(l)}
        /\ req' = [req EXCEPT ![q] = IdleReq]
        /\ UNCHANGED visible

Commit(q) ==
    LET l == req[q].log
    IN  /\ req[q].pc = "commit"
        /\ progress' = [progress EXCEPT ![l.word] =
                          [version |-> l.resultVersion, card |-> l.card]]
        /\ logs' = [logs EXCEPT ![l.word] = Append(@, l)]
        /\ ledger' = ledger \cup req[q].rows
        /\ replies' = replies \cup {Snapshot200(l)}
        /\ req' = [req EXCEPT ![q] = IdleReq]
        /\ UNCHANGED visible

(* A crash, a timeout or any other failed statement. *)
Crash(q) == Busy(q) /\ Fail(q)

(* An admin unpublishes or publishes the deck that holds the word. *)
SetVisible(w) ==
    /\ visible' = IF w \in visible THEN visible \ {w} ELSE visible \cup {w}
    /\ UNCHANGED <<progress, logs, ledger, req, replies>>

Run(q) ==
    \/ Replay(q) \/ IdempotencyKeyReused(q) \/ PassGate(q) \/ NotVisible(q)
    \/ FindProgress(q) \/ CreateProgress(q) \/ RetryLostRace(q)
    \/ UpdateProgress(q) \/ ReviewVersionConflict(q)
    \/ CreateLog(q) \/ DuplicateLog(q) \/ Award(q) \/ Commit(q)

Next ==
    \/ \E q \in Requests, r \in Reviews, w \in Words, g \in Answers :
         Submit(q, r, w, g)
    \/ \E q \in Requests : Run(q) \/ Crash(q)
    \/ \E w \in Words : SetVisible(w)

Spec == Init /\ [][Next]_vars
-----------------------------------------------------------------------------
Pcs     == {"idle", "check", "find", "create", "update", "log", "award", "commit"}
ReqType ==
    [pc : Pcs, review : Reviews \cup {"none"}, word : Words \cup {"none"},
     rating : Ratings \cup {"none"}, attempt : {1, 2}, created : BOOLEAN,
     before : RowType, log : LogType \cup {NoLog}, logged : BOOLEAN, rows : SUBSET Keys]

(* Every variable has its type. *)
TypeOK ==
    /\ progress \in [Words -> RowType]
    /\ logs \in [Words -> Seq(LogType)]
    /\ replies \subseteq LogType
    /\ ledger \subseteq Keys
    /\ visible \subseteq Words
    /\ req \in [Requests -> ReqType]

(* No review is lost and none is applied twice: the progress row is the    *)
(* outcome of the word's last log, and its version counts the logs.        *)
ProgressIsLastLog ==
    \A w \in Words :
        progress[w] = IF logs[w] = <<>> THEN NoRow
                      ELSE [version |-> Len(logs[w]), card |-> Last(logs[w]).card]

(* The ledger pays exactly what the logs show: one WORD_REVIEWED per       *)
(* review, and one WORD_MASTERED per word that was ever mastered, however  *)
(* often it lapses and is mastered again.                                  *)
PaidExactlyOnce ==
    ledger = {wordReviewedAward(l.review) : l \in Rows(logs)}
             \cup {wordMasteredAward(w) : w \in EverMastered(logs)}

(* Every 200 for one clientReviewId carries the same snapshot, whether it  *)
(* was the first answer or a replay, and the log still holds it.           *)
RepliesAgree ==
    /\ \A a, b \in replies : a.review = b.review => a = b
    /\ replies \subseteq Rows(logs)

(* However often a review is retried, it is paid once and answered alike.  *)
RetriesPaidAndAnsweredOnce == PaidExactlyOnce /\ RepliesAgree

(* The statements of the handlers implement the atomic ReviewHistory: in   *)
(* the order of their versions, the logs of a word are its accepted        *)
(* reviews, each scheduled from the one before.                            *)
RH == INSTANCE ReviewHistory WITH history <- logs

ImplementsReviewHistory == RH!Spec
=============================================================================
