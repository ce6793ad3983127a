-------------------------- MODULE WordReviewProofs --------------------------
(***************************************************************************)
(* The word bank.                                                          *)
(*                                                                         *)
(* Reviews for every number of requests, words and clientReviewIds.  A     *)
(* request that has a word's row in hand read the row that is there, so    *)
(* its log continues the word's history; and it has the clientReviewId it  *)
(* logs to itself, so no id is accepted twice.  The cards it leaves: the   *)
(* first two recalls keep the interval short of mastery, and rounding      *)
(* keeps the order of the intervals, since each is a larger multiple.      *)
(*                                                                         *)
(* The import for every staged table, every orders and every number of     *)
(* runs, crashes and edits.  An edited text is protected or marked late;   *)
(* what a run will create is not in the bank, but for words that came      *)
(* during it; and each row is known, failed or still to do, until its deck *)
(* is built: then it is there, or there was no room for it.                *)
(*                                                                         *)
(* The review queue for every set of decks, cards and queries.  A list in  *)
(* an order is a numbering by rank, so nothing is lost or told twice when  *)
(* rows are picked, sorted and dealt; and a deck's next word waits behind  *)
(* no other deck's word of a later round.                                  *)
(***************************************************************************)
EXTENDS WordReview, VocabImport, ReviewQueue,
        FiniteSetTheorems, SequenceTheorems, WellFoundedInduction, TLAPS

(* What a request asks. *)
AskedBy(x) == x.pc # "idle" => /\ x.review \in Reviews /\ x.word \in Words
                               /\ x.rating \in Answers

(* What a transaction has done by the statement it is at. *)
PhaseOf(x) ==
    /\ x.created => x.pc \in {"update", "log", "award", "commit"}
    /\ x.log # NoLog <=> x.pc \in {"log", "award", "commit"}
    /\ x.logged <=> x.pc \in {"award", "commit"}

(* The row it has read was the word's row at the time. *)
WasRow(row, w) ==
    \/ row = NoRow
    \/ /\ row.version \in 1 .. Len(logs[w])
       /\ row.card = logs[w][row.version].card

ReadBy(x) ==
    /\ x.pc = "create" => x.before = NoRow
    /\ x.pc \in {"update", "log", "award", "commit"} => WasRow(x.before, x.word)

(* A row in hand is as it was read, and what will be logged was scheduled  *)
(* from it.                                                                *)
Holding(x)  == x.created \/ x.log # NoLog
HeldAsRead(x) == Holding(x) => progress[x.word] = x.before
LogMade(x)  ==
    x.log # NoLog =>
       \E tie \in {0, 1} :
          x.log = Log(x.review, x.word, x.rating, x.before.version + 1,
                      next(x.before.card, x.rating, 0, tie))

(* The clientReviewId it logged is new. *)
IdFresh(x) == x.logged => Recorded(x.review) = {}

(* At COMMIT, what it pays and what is paid are together what is due. *)
Due(x) == {wordReviewedAward(x.review)}
          \cup (IF justMastered(x.before.card, x.log.card)
                THEN {wordMasteredAward(x.word)} ELSE {})
Paying(x) == x.pc = "commit" => ledger \cup x.rows = ledger \cup Due(x)

Sound(x) == /\ AskedBy(x) /\ PhaseOf(x) /\ ReadBy(x) /\ HeldAsRead(x)
            /\ LogMade(x) /\ IdFresh(x) /\ Paying(x)

(* One request has a word's row in hand, and one has logged an id. *)
Apart(x, y) == /\ Holding(x) /\ Holding(y) => x.word # y.word
               /\ x.logged /\ y.logged => x.review # y.review
AllApart == \A p, q \in Requests : p # q => Apart(req[p], req[q])

RepliesLogged == replies \subseteq Rows(logs)

Reviewing ==
    /\ TypeOK
    /\ PastPossible(logs) /\ ProgressIsLastLog
    /\ \A q \in Requests : Sound(req[q])
    /\ AllApart
    /\ PaidExactlyOnce /\ RepliesLogged
-----------------------------------------------------------------------------
(* The scheduler                                                           *)

(* A product that is rounded stays a natural number. *)
LEMMA RoundedNat ==
    ASSUME NEW n \in Nat, NEW d \in {10, 100, 1000}, NEW tie \in {0, 1}
    PROVE  Rounded(n, d, tie) \in Nat
<1>1. n \div d \in Nat /\ (2 * n + d) \div (2 * d) \in Nat
  <2>1. CASE d = 10  BY <2>1
  <2>2. CASE d = 100  BY <2>2
  <2>3. CASE d = 1000  BY <2>3
  <2>4. QED  BY <2>1, <2>2, <2>3
<1>2. QED  BY <1>1 DEF Rounded

LEMMA EaseClamped == ASSUME NEW e \in Int PROVE clampEase(e) \in EaseFactors
BY DEF clampEase, EaseFactors, MIN_EASE_FACTOR, MAX_EASE_FACTOR

LEMMA CardFields ==
    ASSUME NEW p \in CardType
    PROVE  /\ p.state \in LearningStates /\ p.easeFactor \in EaseFactors /\ p.easeFactor \in Nat
           /\ p.intervalDays \in Nat /\ p.repetitions \in Nat /\ p.lapses \in Nat
           /\ p.masteredAt \in Stamps /\ p.firstLearnedAt \in Stamps
BY DEF CardType, EaseFactors, MIN_EASE_FACTOR, MAX_EASE_FACTOR

(* What the scheduler returns is a card. *)
LEMMA AgainCard == ASSUME NEW p \in CardType PROVE again(p) \in CardType
<1> DEFINE ease == clampEase(p.easeFactor - AGAIN_EASE_PENALTY)
<1>1. ease \in EaseFactors  BY CardFields, EaseClamped DEF AGAIN_EASE_PENALTY
<1>2. "LEARNING" \in LearningStates /\ "RELEARNING" \in LearningStates  BY DEF LearningStates
<1>3. Never \in Stamps  BY DEF Stamps
<1>4. CASE preGraduation(p)
  <2>1. again(p) = [p EXCEPT !.state = "LEARNING", !.intervalDays = 1]
    BY <1>4 DEF again, preGraduation, GRADUATING_INTERVAL_DAYS
  <2>2. [p EXCEPT !.state = "LEARNING", !.intervalDays = 1] \in CardType  BY <1>2 DEF CardType
  <2>3. QED  BY <2>1, <2>2
<1>5. CASE ~preGraduation(p) /\ p.state \in {"REVIEW", "MASTERED"}
  <2>1. again(p) = [p EXCEPT !.state = "RELEARNING", !.lapses = @ + 1, !.easeFactor = ease,
                             !.intervalDays = 1, !.masteredAt = Never]
    BY <1>5 DEF again, preGraduation, GRADUATING_INTERVAL_DAYS
  <2>2. p.lapses + 1 \in Nat  BY CardFields
  <2> HIDE DEF ease
  <2>3. [p EXCEPT !.state = "RELEARNING", !.lapses = @ + 1, !.easeFactor = ease,
                  !.intervalDays = 1, !.masteredAt = Never] \in CardType
    BY <1>1, <1>2, <1>3, <2>2 DEF CardType
  <2>4. QED  BY <2>1, <2>3
<1>6. CASE ~preGraduation(p) /\ p.state \notin {"REVIEW", "MASTERED"}
  <2>1. again(p) = [p EXCEPT !.intervalDays = 1]
    BY <1>6 DEF again, preGraduation, GRADUATING_INTERVAL_DAYS
  <2>2. QED  BY <2>1 DEF CardType
<1>7. QED  BY <1>4, <1>5, <1>6

LEMMA HardCard ==
    ASSUME NEW p \in CardType, NEW tie \in {0, 1} PROVE hard(p, tie) \in CardType
<1> DEFINE ease == clampEase(p.easeFactor - HARD_EASE_PENALTY)
           stretched == Rounded(p.intervalDays * 12, 10, tie)
<1>1. ease \in EaseFactors  BY CardFields, EaseClamped DEF HARD_EASE_PENALTY
<1>2. stretched \in Nat
  <2> DEFINE long == p.intervalDays * 12
  <2>1. long \in Nat  BY CardFields
  <2> HIDE DEF long
  <2>2. Rounded(long, 10, tie) \in Nat  BY <2>1, RoundedNat
  <2>3. QED  BY <2>2 DEF long
<1>3. "LEARNING" \in LearningStates /\ "REVIEW" \in LearningStates  BY DEF LearningStates
<1>4. Never \in Stamps  BY DEF Stamps
<1>5. CASE preGraduation(p)
  <2>1. hard(p, tie) = [p EXCEPT !.state = "LEARNING", !.intervalDays = 1]
    BY <1>5 DEF hard, preGraduation, GRADUATING_INTERVAL_DAYS
  <2>2. [p EXCEPT !.state = "LEARNING", !.intervalDays = 1] \in CardType  BY <1>3 DEF CardType
  <2>3. QED  BY <2>1, <2>2
<1>6. CASE ~preGraduation(p) /\ p.state = "RELEARNING"
  <2>1. hard(p, tie) = [p EXCEPT !.intervalDays = stretched]  BY <1>6 DEF hard, preGraduation
  <2> HIDE DEF stretched
  <2>2. QED  BY <1>2, <2>1 DEF CardType
<1>7. CASE ~preGraduation(p) /\ p.state # "RELEARNING"
  <2>1. hard(p, tie) = [p EXCEPT !.state = "REVIEW", !.repetitions = @ + 1,
                                 !.easeFactor = ease, !.intervalDays = stretched,
                                 !.masteredAt = Never]
    BY <1>7 DEF hard, preGraduation
  <2>2. p.repetitions + 1 \in Nat  BY CardFields
  <2> HIDE DEF ease, stretched
  <2>3. QED  BY <1>1, <1>2, <1>3, <1>4, <2>1, <2>2 DEF CardType
<1>8. QED  BY <1>5, <1>6, <1>7

LEMMA RecalledCard ==
    ASSUME NEW p \in CardType, NEW g, NEW tie \in {0, 1}
    PROVE  recalled(p, g, 0, tie) \in CardType
<1> DEFINE ease == IF g = "EASY" THEN clampEase(p.easeFactor + EASY_EASE_BONUS)
                   ELSE p.easeFactor
           days == CASE p.repetitions = 0 ->
                          IF g = "EASY" THEN EASY_GRADUATING_INTERVAL_DAYS
                          ELSE GRADUATING_INTERVAL_DAYS
                     [] g = "GOOD" /\ p.repetitions = 1 -> SECOND_INTERVAL_DAYS
                     [] g = "EASY" /\ p.repetitions # 0 ->
                          Rounded(p.intervalDays * ease * 13, 1000, tie)
                     [] OTHER -> Rounded(p.intervalDays * ease, 100, tie)
           mastered == /\ days >= MASTERY_MIN_INTERVAL_DAYS
                       /\ p.repetitions + 1 >= MASTERY_MIN_REPETITIONS
           s == IF mastered THEN "MASTERED" ELSE "REVIEW"
           m == IF mastered THEN Stamp(p.masteredAt, 0) ELSE p.masteredAt
           f == Stamp(p.firstLearnedAt, 0)
<1>1. ease \in EaseFactors /\ ease \in Nat
  BY CardFields, EaseClamped DEF EASY_EASE_BONUS, EaseFactors, MIN_EASE_FACTOR, MAX_EASE_FACTOR
<1>2. days \in Nat
  <2> HIDE DEF ease
  <2>1. \A i, n \in Nat : i * n \in Nat  OBVIOUS
  <2>2. p.intervalDays * ease \in Nat  BY <1>1, <2>1, CardFields
  <2> DEFINE long   == p.intervalDays * ease
             longer == long * 13
  <2>3. longer \in Nat  BY <2>2
  <2> HIDE DEF long, longer
  <2>4. Rounded(longer, 1000, tie) \in Nat /\ Rounded(long, 100, tie) \in Nat
    BY <2>2, <2>3, RoundedNat, SMTT(30) DEF long
  <2>5. QED
    BY <2>4 DEF long, longer, EASY_GRADUATING_INTERVAL_DAYS, GRADUATING_INTERVAL_DAYS,
                SECOND_INTERVAL_DAYS
<1>3. recalled(p, g, 0, tie) =
        [p EXCEPT !.state = s, !.easeFactor = ease, !.intervalDays = days,
                  !.repetitions = @ + 1, !.firstLearnedAt = f, !.masteredAt = m]
  BY DEF recalled
<1>4. s \in LearningStates  BY DEF LearningStates
<1>5. m \in Stamps /\ f \in Stamps  BY CardFields DEF Stamps, Stamp
<1>6. p.repetitions + 1 \in Nat  BY CardFields
<1> HIDE DEF ease, days, mastered, s, m, f
<1>7. QED  BY <1>1, <1>2, <1>3, <1>4, <1>5, <1>6 DEF CardType

LEMMA CardStep ==
    ASSUME NEW p \in CardType, NEW g \in Ratings, NEW tie \in {0, 1}
    PROVE  next(p, g, 0, tie) \in CardType
BY AgainCard, HardCard, RecalledCard DEF next
-----------------------------------------------------------------------------
(* Steps of one request                                                    *)

LEMMA DefaultRows == NoRow \in RowType /\ IdleReq \in ReqType
<1>1. DEFAULT_NEW_PROGRESS \in CardType
  BY DEF DEFAULT_NEW_PROGRESS, CardType, LearningStates, EaseFactors, Stamps, Never,
         DEFAULT_EASE_FACTOR, MIN_EASE_FACTOR, MAX_EASE_FACTOR
<1>2. NoRow \in RowType  BY <1>1 DEF NoRow, RowType
<1>3. QED  BY <1>2 DEF IdleReq, ReqType, Pcs

LEMMA IdleSound == Sound(IdleReq) /\ ~Holding(IdleReq) /\ ~IdleReq.logged
BY DEF IdleReq, Sound, AskedBy, PhaseOf, ReadBy, HeldAsRead, Holding, LogMade, IdFresh, Paying

LEMMA DueIsAwardKeys == \A q \in Requests : Due(req[q]) = AwardKeys(q)
BY DEF Due, AwardKeys

(* A request that moves on alone keeps the invariant when what it becomes  *)
(* is sound and meets no other in hand.                                    *)
LEMMA OneMoves ==
    ASSUME Reviewing, NEW q \in Requests, NEW x \in ReqType,
           req' = [req EXCEPT ![q] = x],
           UNCHANGED <<progress, logs, ledger>>,
           visible' \subseteq Words, replies' \subseteq replies \cup Rows(logs),
           Sound(x), \A p \in Requests \ {q} : Apart(req[p], x)
    PROVE  Reviewing'
<1>1. req \in [Requests -> ReqType]  BY DEF Reviewing, TypeOK
<1>2. req'[q] = x /\ \A p \in Requests \ {q} : req'[p] = req[p]  BY <1>1
<1>3. req' \in [Requests -> ReqType]  BY <1>1
<1>4. replies' \subseteq Rows(logs)'  BY DEF Reviewing, RepliesLogged, Rows
<1>5. Rows(logs) \subseteq LogType  BY DEF Reviewing, TypeOK, Rows
<1>6. TypeOK'  BY <1>3, <1>4, <1>5 DEF Reviewing, TypeOK, Rows
<1>7. ASSUME NEW p \in Requests PROVE Sound(req[p])'
  <2>1. Sound(req'[p])  BY <1>2 DEF Reviewing
  <2>2. QED
    BY <2>1 DEF Sound, AskedBy, PhaseOf, ReadBy, WasRow, HeldAsRead, Holding, LogMade, IdFresh,
                Recorded, Rows, Paying, Due
<1>8. AllApart'  BY <1>2 DEF Reviewing, AllApart, Apart, Holding
<1>9. PastPossible(logs)' /\ ProgressIsLastLog' /\ PaidExactlyOnce'
  BY DEF Reviewing, PastPossible, ProgressIsLastLog, PaidExactlyOnce, Rows, EverMastered, Last
<1>10. QED  BY <1>4, <1>6, <1>7, <1>8, <1>9 DEF Reviewing, RepliesLogged

(* What a step finds of its own request. *)
LEMMA Finds ==
    ASSUME Reviewing, NEW q \in Requests
    PROVE  /\ req \in [Requests -> ReqType] /\ req[q] \in ReqType /\ Sound(req[q])
           /\ visible \subseteq Words
           /\ Busy(q) => req[q].review \in Reviews /\ req[q].word \in Words
                         /\ req[q].rating \in Answers /\ req[q].rating \in Ratings
BY WordReviewAssumption DEF Reviewing, TypeOK, Sound, AskedBy, Busy

LEMMA SubmitKeeps ==
    ASSUME Reviewing, NEW q \in Requests, NEW r \in Reviews, NEW w \in Words,
           NEW g \in Answers, Submit(q, r, w, g)
    PROVE  Reviewing'
<1> DEFINE x == [IdleReq EXCEPT !.pc = "check", !.review = r, !.word = w, !.rating = g]
<1>1. x \in ReqType  BY DefaultRows, WordReviewAssumption DEF ReqType, Pcs
<1>2. Sound(x) /\ ~Holding(x) /\ ~x.logged
  BY DEF IdleReq, Sound, AskedBy, PhaseOf, ReadBy, HeldAsRead, Holding, LogMade, IdFresh, Paying
<1>3. \A p \in Requests \ {q} : Apart(req[p], x)  BY <1>2 DEF Apart
<1>4. req' = [req EXCEPT ![q] = x] /\ UNCHANGED <<progress, logs, ledger, visible, replies>>
  BY DEF Submit
<1> HIDE DEF x
<1>5. QED  BY <1>1, <1>2, <1>3, <1>4, Finds, OneMoves

(* A request that ends, having written nothing or been rolled back. *)
LEMMA EndKeeps ==
    ASSUME Reviewing, NEW q \in Requests, req' = [req EXCEPT ![q] = IdleReq],
           UNCHANGED <<progress, logs, ledger, visible>>,
           replies' \subseteq replies \cup Rows(logs)
    PROVE  Reviewing'
<1>1. \A p \in Requests \ {q} : Apart(req[p], IdleReq)  BY IdleSound DEF Apart
<1>2. QED  BY <1>1, DefaultRows, IdleSound, Finds, OneMoves

LEMMA FailKeeps ==
    ASSUME Reviewing, NEW q \in Requests,
           \/ IdempotencyKeyReused(q) \/ NotVisible(q) \/ ReviewVersionConflict(q)
           \/ DuplicateLog(q) \/ Crash(q)
    PROVE  Reviewing'
<1>1. Fail(q)
  BY DEF IdempotencyKeyReused, NotVisible, ReviewVersionConflict, DuplicateLog, Crash
<1>2. QED  BY <1>1, EndKeeps DEF Fail

LEMMA ReplayKeeps ==
    ASSUME Reviewing, NEW q \in Requests, Replay(q) PROVE Reviewing'
<1>1. replies' \subseteq replies \cup Rows(logs)  BY DEF Replay, Recorded, Snapshot200
<1>2. QED  BY <1>1, EndKeeps DEF Replay

LEMMA PassGateKeeps ==
    ASSUME Reviewing, NEW q \in Requests, PassGate(q) PROVE Reviewing'
<1> DEFINE x == [req[q] EXCEPT !.pc = "find"]
<1>1. req[q].pc = "check" /\ Busy(q)  BY DEF PassGate, Busy
<1>2. x \in ReqType  BY Finds DEF ReqType, Pcs
<1>3. Sound(x) /\ ~Holding(x) /\ ~x.logged
  BY <1>1, Finds DEF ReqType, Sound, AskedBy, PhaseOf, ReadBy, HeldAsRead, Holding, LogMade,
     IdFresh, Paying
<1>4. \A p \in Requests \ {q} : Apart(req[p], x)  BY <1>3 DEF Apart
<1>5. req' = [req EXCEPT ![q] = x] /\ UNCHANGED <<progress, logs, ledger, visible, replies>>
  BY DEF PassGate
<1> HIDE DEF x
<1>6. QED  BY <1>2, <1>3, <1>4, <1>5, Finds, OneMoves

LEMMA FindProgressKeeps ==
    ASSUME Reviewing, NEW q \in Requests, FindProgress(q) PROVE Reviewing'
<1> DEFINE row == progress[req[q].word]
           x == [req[q] EXCEPT !.pc = IF row = NoRow THEN "create" ELSE "update",
                               !.before = row]
<1>1. req[q].pc = "find" /\ Busy(q)  BY DEF FindProgress, Busy
<1>2. req[q].word \in Words /\ row \in RowType  BY <1>1, Finds DEF Reviewing, TypeOK
<1>3. x \in ReqType  BY <1>2, Finds, ZenonT(60) DEF ReqType, Pcs
<1>4. WasRow(row, req[q].word)
  <2>1. logs[req[q].word] \in Seq(LogType)  BY <1>2 DEF Reviewing, TypeOK
  <2>2. CASE logs[req[q].word] = <<>>
    BY <1>2, <2>2 DEF Reviewing, ProgressIsLastLog, WasRow
  <2>3. CASE logs[req[q].word] # <<>>
    <3>1. Len(logs[req[q].word]) \in 1 .. Len(logs[req[q].word])  BY <2>1, <2>3
    <3>2. row = [version |-> Len(logs[req[q].word]), card |-> Last(logs[req[q].word]).card]
      BY <1>2, <2>3 DEF Reviewing, ProgressIsLastLog
    <3>3. QED  BY <3>1, <3>2 DEF WasRow, Last
  <2>4. QED  BY <2>2, <2>3
<1>5. Sound(x) /\ ~Holding(x) /\ ~x.logged
  BY <1>1, <1>4, Finds DEF ReqType, Sound, AskedBy, PhaseOf, ReadBy, HeldAsRead, Holding, LogMade,
     IdFresh, Paying
<1>6. \A p \in Requests \ {q} : Apart(req[p], x)  BY <1>5 DEF Apart
<1>7. req' = [req EXCEPT ![q] = x] /\ UNCHANGED <<progress, logs, ledger, visible, replies>>
  BY DEF FindProgress
<1> HIDE DEF x
<1>8. QED  BY <1>3, <1>5, <1>6, <1>7, Finds, OneMoves

LEMMA CreateProgressKeeps ==
    ASSUME Reviewing, NEW q \in Requests, CreateProgress(q) PROVE Reviewing'
<1> DEFINE x == [req[q] EXCEPT !.pc = "update", !.created = TRUE]
<1>1. req[q].pc = "create" /\ Busy(q)  BY DEF CreateProgress, Busy
<1>2. x \in ReqType  BY Finds, ZenonT(60) DEF ReqType, Pcs
<1>3. x.before = NoRow /\ progress[x.word] = NoRow
  BY <1>1, Finds DEF ReqType, Sound, ReadBy, CreateProgress
<1>4. Sound(x) /\ ~x.logged
  BY <1>1, <1>3, Finds DEF ReqType, Sound, AskedBy, PhaseOf, ReadBy, WasRow, HeldAsRead, LogMade,
     IdFresh, Paying
<1>5. ASSUME NEW p \in Requests \ {q} PROVE Apart(req[p], x)
  <2>1. Holding(req[p]) => req[p].pc # "idle"  BY Finds DEF Sound, PhaseOf, Holding
  <2>2. ~(Holding(req[p]) /\ req[p].word = req[q].word)
    BY <2>1 DEF CreateProgress, RowInHand, Rivals, Busy, Holding
  <2>3. x.word = req[q].word  BY Finds DEF ReqType
  <2>4. QED  BY <1>4, <2>2, <2>3 DEF Apart
<1>6. req' = [req EXCEPT ![q] = x] /\ UNCHANGED <<progress, logs, ledger, visible, replies>>
  BY DEF CreateProgress
<1> HIDE DEF x
<1>7. QED  BY <1>2, <1>4, <1>5, <1>6, Finds, OneMoves

LEMMA RetryLostRaceKeeps ==
    ASSUME Reviewing, NEW q \in Requests, RetryLostRace(q) PROVE Reviewing'
<1> DEFINE x == [req[q] EXCEPT !.pc = "find", !.attempt = 2]
<1>1. req[q].pc = "create" /\ Busy(q)  BY DEF RetryLostRace, Busy
<1>2. x \in ReqType  BY Finds, ZenonT(60) DEF ReqType, Pcs
<1>3. Sound(x) /\ ~Holding(x) /\ ~x.logged
  BY <1>1, Finds DEF ReqType, Sound, AskedBy, PhaseOf, ReadBy, HeldAsRead, Holding, LogMade,
     IdFresh, Paying
<1>4. \A p \in Requests \ {q} : Apart(req[p], x)  BY <1>3 DEF Apart
<1>5. req' = [req EXCEPT ![q] = x] /\ UNCHANGED <<progress, logs, ledger, visible, replies>>
  BY DEF RetryLostRace
<1> HIDE DEF x
<1>6. QED  BY <1>2, <1>3, <1>4, <1>5, Finds, OneMoves

(* The version decides: a row of the version that was read is the row read. *)
LEMMA SameVersionSameRow ==
    ASSUME Reviewing, NEW w \in Words, NEW row \in RowType, WasRow(row, w),
           progress[w].version = row.version
    PROVE  progress[w] = row
<1>1. logs[w] \in Seq(LogType)  BY DEF Reviewing, TypeOK
<1>2. CASE logs[w] = <<>>
  <2>1. progress[w] = NoRow  BY <1>2 DEF Reviewing, ProgressIsLastLog
  <2>2. row.version = 0  BY <2>1 DEF NoRow
  <2>3. row = NoRow  BY <1>1, <2>2 DEF WasRow
  <2>4. QED  BY <2>1, <2>3
<1>3. CASE logs[w] # <<>>
  <2>1. progress[w] = [version |-> Len(logs[w]), card |-> Last(logs[w]).card]
    BY <1>3 DEF Reviewing, ProgressIsLastLog
  <2>2. row.version = Len(logs[w]) /\ Len(logs[w]) # 0  BY <1>1, <1>3, <2>1
  <2>3. row.card = logs[w][row.version].card  BY <2>2 DEF WasRow, NoRow
  <2>4. QED  BY <2>1, <2>2, <2>3 DEF RowType, Last
<1>4. QED  BY <1>2, <1>3

LEMMA Writes ==
    ASSUME NEW x \in ReqType, NEW pc \in Pcs, NEW l \in LogType \cup {NoLog},
           NEW rows \in SUBSET Keys
    PROVE  /\ [x EXCEPT !.pc = pc, !.log = l] \in ReqType
           /\ [x EXCEPT !.pc = pc, !.rows = rows] \in ReqType
<1> DEFINE Logs == LogType \cup {NoLog}
           Rs == Reviews \cup {"none"}
           Ws == Words \cup {"none"}
           Gs == Ratings \cup {"none"}
           As == {1, 2}
           Ks == SUBSET Keys
           Type == [pc : Pcs, review : Rs, word : Ws, rating : Gs, attempt : As,
                    created : BOOLEAN, before : RowType, log : Logs, logged : BOOLEAN, rows : Ks]
<1>1. x \in Type /\ l \in Logs /\ rows \in Ks  BY DEF ReqType
<1> HIDE DEF Rs, Ws, Gs, As, Ks, Logs
<1>2. [x EXCEPT !.pc = pc, !.log = l] \in Type  BY <1>1
<1>3. [x EXCEPT !.pc = pc, !.rows = rows] \in Type  BY <1>1
<1>4. QED  BY <1>2, <1>3 DEF ReqType, Rs, Ws, Gs, As, Ks, Logs

LEMMA UpdateProgressKeeps ==
    ASSUME Reviewing, NEW q \in Requests, UpdateProgress(q) PROVE Reviewing'
<1>1. req[q].pc = "update" /\ Busy(q)  BY DEF UpdateProgress, Busy
<1>2. PICK tie \in {0, 1} :
        req' = [req EXCEPT ![q].pc = "log",
                   ![q].log = Log(req[q].review, req[q].word, req[q].rating,
                                  req[q].before.version + 1,
                                  next(req[q].before.card, req[q].rating, 0, tie))]
  BY DEF UpdateProgress
<1> DEFINE l == Log(req[q].review, req[q].word, req[q].rating, req[q].before.version + 1,
                    next(req[q].before.card, req[q].rating, 0, tie))
           x == [req[q] EXCEPT !.pc = "log", !.log = l]
<1>3. req[q].before \in RowType  BY Finds DEF ReqType
<1>4. l \in LogType
  <2>1. next(req[q].before.card, req[q].rating, 0, tie) \in CardType
    BY <1>1, <1>3, Finds, CardStep DEF RowType
  <2>2. req[q].before.version + 1 \in Nat \ {0}  BY <1>3 DEF RowType
  <2>3. QED  BY <1>1, <2>1, <2>2, Finds DEF Log, LogType
<1>5. l # NoLog
  <2>1. l.resultVersion # 0  BY <1>4 DEF LogType
  <2>2. QED  BY <2>1 DEF NoLog
<1>6. progress[req[q].word] = req[q].before
  <2>1. WasRow(req[q].before, req[q].word)  BY <1>1, Finds DEF Sound, ReadBy
  <2>2. progress[req[q].word].version = req[q].before.version  BY DEF UpdateProgress, VersionMatches
  <2>3. QED  BY <1>1, <1>3, <2>1, <2>2, Finds, SameVersionSameRow
<1>7. /\ x.pc = "log" /\ x.log = l /\ x.review = req[q].review /\ x.word = req[q].word
      /\ x.rating = req[q].rating /\ x.before = req[q].before /\ x.created = req[q].created
      /\ x.logged = req[q].logged /\ x.rows = req[q].rows
  BY Finds DEF ReqType
<1>8. x \in ReqType
  <2> HIDE DEF l
  <2>1. l \in LogType \cup {NoLog}  BY <1>4
  <2>2. QED  BY <2>1, Finds, Writes DEF Pcs
<1>9. Sound(x) /\ ~x.logged
  <2>1. LogMade(x)  BY <1>7 DEF LogMade
  <2> HIDE DEF x, l
  <2>2. HeldAsRead(x)  BY <1>6, <1>7 DEF HeldAsRead
  <2>3. QED
    BY <1>1, <1>5, <1>7, <2>1, <2>2, Finds DEF Sound, AskedBy, PhaseOf, ReadBy, IdFresh, Paying
<1>10. ASSUME NEW p \in Requests \ {q} PROVE Apart(req[p], x)
  <2>1. Holding(req[p]) => req[p].pc # "idle"  BY Finds DEF Sound, PhaseOf, Holding
  <2>2. ~(Holding(req[p]) /\ req[p].word = req[q].word)
    BY <2>1 DEF UpdateProgress, RowInHand, Rivals, Busy, Holding
  <2> HIDE DEF x
  <2>3. QED  BY <1>7, <1>9, <2>2 DEF Apart
<1>11. req' = [req EXCEPT ![q] = x] /\ UNCHANGED <<progress, logs, ledger, visible, replies>>
  BY <1>2 DEF UpdateProgress
<1> HIDE DEF x
<1>12. QED  BY <1>8, <1>9, <1>10, <1>11, Finds, OneMoves

LEMMA CreateLogKeeps ==
    ASSUME Reviewing, NEW q \in Requests, CreateLog(q) PROVE Reviewing'
<1> DEFINE x == [req[q] EXCEPT !.pc = "award", !.logged = TRUE]
<1>1. req[q].pc = "log" /\ Busy(q)  BY DEF CreateLog, Busy
<1>2. x \in ReqType  BY Finds, ZenonT(60) DEF ReqType, Pcs
<1>3. Sound(x)
  BY <1>1, Finds DEF ReqType, Sound, AskedBy, PhaseOf, ReadBy, HeldAsRead, Holding, LogMade,
     IdFresh, Paying, CreateLog
<1>4. ASSUME NEW p \in Requests \ {q} PROVE Apart(req[p], x)
  <2>1. Apart(req[p], req[q])  BY DEF Reviewing, AllApart
  <2>2. req[p].logged => req[p].pc # "idle"  BY Finds DEF Sound, PhaseOf
  <2>3. ~(req[p].logged /\ req[p].review = req[q].review)
    BY <2>2 DEF CreateLog, Rivals, Busy
  <2>4. /\ x.word = req[q].word /\ x.review = req[q].review
        /\ Holding(x) <=> Holding(req[q])
    BY Finds DEF ReqType, Holding
  <2>5. QED  BY <2>1, <2>3, <2>4 DEF Apart
<1>5. req' = [req EXCEPT ![q] = x] /\ UNCHANGED <<progress, logs, ledger, visible, replies>>
  BY DEF CreateLog
<1> HIDE DEF x
<1>6. QED  BY <1>2, <1>3, <1>4, <1>5, Finds, OneMoves

LEMMA AwardKeeps ==
    ASSUME Reviewing, NEW q \in Requests, Award(q) PROVE Reviewing'
<1> DEFINE x == [req[q] EXCEPT !.pc = "commit", !.rows = AwardKeys(q) \ ledger]
<1>1. req[q].pc = "award" /\ Busy(q)  BY DEF Award, Busy
<1>2. AwardKeys(q) \subseteq Keys
  BY <1>1, Finds DEF AwardKeys, Keys, ActionKeys
<1>3. x \in ReqType
  <2> DEFINE rows == AwardKeys(q) \ ledger
  <2>1. rows \in SUBSET Keys  BY <1>2
  <2> HIDE DEF rows
  <2>2. [req[q] EXCEPT !.pc = "commit", !.rows = rows] \in ReqType
    BY <2>1, Finds, Writes DEF Pcs
  <2>3. QED  BY <2>2 DEF rows
<1>4. /\ x.pc = "commit" /\ x.log = req[q].log /\ x.review = req[q].review
      /\ x.word = req[q].word /\ x.rating = req[q].rating /\ x.before = req[q].before
      /\ x.created = req[q].created /\ x.logged = req[q].logged
      /\ x.rows = AwardKeys(q) \ ledger
  BY Finds DEF ReqType
<1>5. Due(x) = AwardKeys(q)
  <2> HIDE DEF x
  <2>1. QED  BY <1>4 DEF Due, AwardKeys
<1> HIDE DEF x
<1>6. Sound(x)
  <2>1. Paying(x)  BY <1>4, <1>5 DEF Paying
  <2>2. QED
    BY <1>1, <1>4, <2>1, Finds DEF Sound, AskedBy, PhaseOf, ReadBy, HeldAsRead, Holding, LogMade,
       IdFresh
<1>7. ASSUME NEW p \in Requests \ {q} PROVE Apart(req[p], x)
  <2>1. Apart(req[p], req[q])  BY DEF Reviewing, AllApart
  <2>2. QED  BY <1>4, <2>1 DEF Apart, Holding
<1>8. req' = [req EXCEPT ![q] = x] /\ UNCHANGED <<progress, logs, ledger, visible, replies>>
  BY DEF Award, x
<1>9. QED  BY <1>3, <1>6, <1>7, <1>8, Finds, OneMoves

LEMMA SetVisibleKeeps ==
    ASSUME Reviewing, NEW w \in Words, SetVisible(w) PROVE Reviewing'
<1>1. visible' \subseteq Words  BY DEF SetVisible, Reviewing, TypeOK
<1>2. UNCHANGED <<progress, logs, ledger, req, replies>>  BY DEF SetVisible
<1>3. \A q \in Requests : Sound(req[q])'
  BY <1>2 DEF Reviewing, Sound, AskedBy, PhaseOf, ReadBy, WasRow, HeldAsRead, Holding, LogMade,
     IdFresh, Recorded, Rows, Paying, Due
<1>4. TypeOK'
  BY <1>1, <1>2 DEF Reviewing, TypeOK
<1>5. PastPossible(logs)' /\ ProgressIsLastLog'
  BY <1>2 DEF Reviewing, PastPossible, ProgressIsLastLog, Rows, Last
<1>6. AllApart'
  BY <1>2 DEF Reviewing, AllApart, Apart, Holding
<1>7. PaidExactlyOnce' /\ RepliesLogged'
  BY <1>2 DEF Reviewing, PaidExactlyOnce, RepliesLogged, Rows, EverMastered
<1>8. QED
  BY <1>3, <1>4, <1>5, <1>6, <1>7 DEF Reviewing
-----------------------------------------------------------------------------
(* COMMIT                                                                  *)

(* What a request that commits has in hand. *)
LEMMA Committing ==
    ASSUME Reviewing, NEW q \in Requests, req[q].pc = "commit"
    PROVE  LET l == req[q].log  w == req[q].word
           IN  /\ w \in Words /\ l \in LogType /\ l.word = w /\ l.review = req[q].review
               /\ progress[w] = req[q].before /\ req[q].before.version = Len(logs[w])
               /\ Recorded(l.review) = {}
               /\ \E tie \in {0, 1} :
                     l = Log(req[q].review, w, req[q].rating, Len(logs[w]) + 1,
                             next(req[q].before.card, req[q].rating, 0, tie))
<1> DEFINE l == req[q].log  w == req[q].word
<1>1. Busy(q) /\ w \in Words  BY Finds DEF Busy
<1>2. l # NoLog /\ req[q].logged  BY Finds DEF Sound, PhaseOf
<1>3. l \in LogType  BY <1>2, Finds DEF ReqType
<1>4. progress[w] = req[q].before  BY <1>2, Finds DEF Sound, HeldAsRead, Holding
<1>5. logs[w] \in Seq(LogType)  BY <1>1 DEF Reviewing, TypeOK
<1>6. req[q].before.version = Len(logs[w])
  <2>1. CASE logs[w] = <<>>
    <3>1. progress[w] = NoRow  BY <1>1, <2>1 DEF Reviewing, ProgressIsLastLog
    <3>2. progress[w].version = 0 /\ Len(logs[w]) = 0  BY <2>1, <3>1 DEF NoRow
    <3>3. QED  BY <1>4, <3>2
  <2>2. CASE logs[w] # <<>>
    <3>1. progress[w] = [version |-> Len(logs[w]), card |-> Last(logs[w]).card]
      BY <1>1, <2>2 DEF Reviewing, ProgressIsLastLog
    <3>2. progress[w].version = Len(logs[w])  BY <3>1
    <3>3. QED  BY <1>4, <3>2
  <2>3. QED  BY <2>1, <2>2
<1>7. PICK tie \in {0, 1} :
        l = Log(req[q].review, w, req[q].rating, Len(logs[w]) + 1,
                next(req[q].before.card, req[q].rating, 0, tie))
  BY <1>2, <1>6, Finds DEF Sound, LogMade
<1>8. l.word = w /\ l.review = req[q].review  BY <1>7 DEF Log
<1>9. Recorded(l.review) = {}  BY <1>2, <1>8, Finds DEF Sound, IdFresh
<1>10. QED  BY <1>1, <1>3, <1>4, <1>6, <1>7, <1>8, <1>9

(* A log appended to its word's history is one more row. *)
LEMMA OneMoreRow ==
    ASSUME logs \in [Words -> Seq(LogType)], NEW w \in Words, NEW l \in LogType,
           logs' = [logs EXCEPT ![w] = Append(@, l)]
    PROVE  /\ logs' \in [Words -> Seq(LogType)]
           /\ logs'[w] = Append(logs[w], l) /\ \A v \in Words \ {w} : logs'[v] = logs[v]
           /\ Len(logs'[w]) = Len(logs[w]) + 1 /\ logs'[w][Len(logs[w]) + 1] = l
           /\ \A i \in 1 .. Len(logs[w]) : logs'[w][i] = logs[w][i]
           /\ \A v \in Words : DOMAIN logs[v] = 1 .. Len(logs[v])
           /\ \A v \in Words : DOMAIN logs'[v] = 1 .. Len(logs'[v])
           /\ Rows(logs') = Rows(logs) \cup {l}
<1>1. logs' \in [Words -> Seq(LogType)]  OBVIOUS
<1>2. logs'[w] = Append(logs[w], l) /\ \A v \in Words \ {w} : logs'[v] = logs[v]  OBVIOUS
<1>3. logs[w] \in Seq(LogType)  OBVIOUS
<1>4. /\ Len(logs'[w]) = Len(logs[w]) + 1 /\ logs'[w][Len(logs[w]) + 1] = l
      /\ \A i \in 1 .. Len(logs[w]) : logs'[w][i] = logs[w][i]
  BY <1>2, <1>3
<1>5. /\ \A v \in Words : DOMAIN logs[v] = 1 .. Len(logs[v])
      /\ \A v \in Words : DOMAIN logs'[v] = 1 .. Len(logs'[v])
  BY <1>1
<1>6. Rows(logs') = Rows(logs) \cup {l}
  <2>1. \A k : k \in Rows(logs') <=> \E v \in Words : \E i \in 1 .. Len(logs'[v]) : k = logs'[v][i]
    BY <1>5 DEF Rows
  <2>2. \A k : k \in Rows(logs) <=> \E v \in Words : \E i \in 1 .. Len(logs[v]) : k = logs[v][i]
    BY <1>5 DEF Rows
  <2>3. Len(logs[w]) \in Nat  BY <1>3
  <2>4. ASSUME NEW k, k \in Rows(logs') PROVE k \in Rows(logs) \cup {l}
    <3>1. PICK v \in Words : \E i \in 1 .. Len(logs'[v]) : k = logs'[v][i]  BY <2>1, <2>4
    <3>2. PICK i \in 1 .. Len(logs'[v]) : k = logs'[v][i]  BY <3>1
    <3>3. CASE v # w  BY <1>2, <2>2, <3>2, <3>3
    <3>4. CASE v = w /\ i = Len(logs[w]) + 1  BY <1>4, <3>2, <3>4
    <3>5. CASE v = w /\ i # Len(logs[w]) + 1
      <4>1. i \in 1 .. Len(logs[w])  BY <1>4, <2>3, <3>5
      <4>2. k = logs[w][i]  BY <1>4, <3>2, <3>5, <4>1
      <4>3. QED  BY <2>2, <4>1, <4>2
    <3>6. QED  BY <3>3, <3>4, <3>5
  <2>5. Rows(logs) \subseteq Rows(logs')
    <3>1. ASSUME NEW k \in Rows(logs) PROVE k \in Rows(logs')
      <4>1. PICK v \in Words : \E i \in 1 .. Len(logs[v]) : k = logs[v][i]  BY <2>2
      <4>2. PICK i \in 1 .. Len(logs[v]) : k = logs[v][i]  BY <4>1
      <4>3. i \in 1 .. Len(logs'[v]) /\ k = logs'[v][i]  BY <1>2, <1>4, <2>3, <4>2
      <4>4. QED  BY <2>1, <4>3
    <3>2. QED  BY <3>1
  <2>6. l \in Rows(logs')
    <3>1. Len(logs[w]) + 1 \in 1 .. Len(logs'[w])  BY <1>4, <2>3
    <3>2. QED  BY <1>4, <2>1, <3>1
  <2>7. QED  BY <2>4, <2>5, <2>6
<1>7. QED  BY <1>1, <1>2, <1>4, <1>5, <1>6

LEMMA CommitKeeps ==
    ASSUME Reviewing, NEW q \in Requests, Commit(q) PROVE Reviewing'
<1> DEFINE l == req[q].log  w == req[q].word
<1>1. req[q].pc = "commit"  BY DEF Commit
<1>2. /\ w \in Words /\ l \in LogType /\ l.word = w /\ l.review = req[q].review
      /\ progress[w] = req[q].before /\ req[q].before.version = Len(logs[w])
      /\ Recorded(l.review) = {} /\ l.resultVersion = Len(logs[w]) + 1
  <2>1. /\ w \in Words /\ l \in LogType /\ l.word = w /\ l.review = req[q].review
        /\ progress[w] = req[q].before /\ req[q].before.version = Len(logs[w])
        /\ Recorded(l.review) = {}
        /\ \E tie \in {0, 1} :
              l = Log(req[q].review, w, req[q].rating, Len(logs[w]) + 1,
                      next(req[q].before.card, req[q].rating, 0, tie))
    BY <1>1, Committing
  <2>2. l.resultVersion = Len(logs[w]) + 1  BY <2>1 DEF Log
  <2>3. QED  BY <2>1, <2>2
<1>3. /\ progress' = [progress EXCEPT ![w] = [version |-> l.resultVersion, card |-> l.card]]
      /\ logs' = [logs EXCEPT ![w] = Append(@, l)]
      /\ ledger' = ledger \cup req[q].rows
      /\ replies' = replies \cup {l}
      /\ req' = [req EXCEPT ![q] = IdleReq]
      /\ visible' = visible
  BY <1>2 DEF Commit, Snapshot200
<1>4. logs \in [Words -> Seq(LogType)] /\ Len(logs[w]) \in Nat
  BY <1>2 DEF Reviewing, TypeOK
<1> HIDE DEF l, w
<1>5. /\ logs' \in [Words -> Seq(LogType)]
      /\ logs'[w] = Append(logs[w], l) /\ \A v \in Words \ {w} : logs'[v] = logs[v]
      /\ Len(logs'[w]) = Len(logs[w]) + 1 /\ logs'[w][Len(logs[w]) + 1] = l
      /\ \A i \in 1 .. Len(logs[w]) : logs'[w][i] = logs[w][i]
      /\ \A v \in Words : DOMAIN logs[v] = 1 .. Len(logs[v])
      /\ \A v \in Words : DOMAIN logs'[v] = 1 .. Len(logs'[v])
      /\ Rows(logs') = Rows(logs) \cup {l}
  BY <1>2, <1>3, <1>4, OneMoreRow
<1>6. TypeOK'
  <2>1. req' \in [Requests -> ReqType]  BY <1>3, DefaultRows DEF Reviewing, TypeOK
  <2>2. progress' \in [Words -> RowType]
    BY <1>2, <1>3 DEF Reviewing, TypeOK, RowType, LogType
  <2>3. ledger' \subseteq Keys  BY <1>3, Finds DEF Reviewing, TypeOK, ReqType
  <2>4. QED  BY <1>2, <1>3, <1>5, <2>1, <2>2, <2>3 DEF Reviewing, TypeOK
<1>7. PastPossible(logs)'
  <2>1. \A k \in Rows(logs) : k.review # l.review  BY <1>2 DEF Recorded
  <2>2. \A v \in Words : \A i \in DOMAIN logs[v] : logs[v][i] \in Rows(logs)  BY DEF Rows
  <2>3. \A v \in Words : \A i \in DOMAIN logs'[v] :
           \/ i \in DOMAIN logs[v] /\ logs'[v][i] = logs[v][i]
           \/ v = w /\ i = Len(logs[w]) + 1 /\ logs'[v][i] = l
    BY <1>4, <1>5
  <2>4. PastPossible(logs)  BY DEF Reviewing
  <2>5. \A v \in Words : \A i \in DOMAIN logs'[v] :
           logs'[v][i].word = v /\ logs'[v][i].resultVersion = i
    BY <1>2, <2>3, <2>4, SMTT(30) DEF PastPossible
  <2>6. ASSUME NEW u \in Words, NEW v \in Words, NEW i \in DOMAIN logs'[u],
               NEW j \in DOMAIN logs'[v], logs'[u][i].review = logs'[v][j].review
        PROVE  u = v /\ i = j
    BY <2>1, <2>2, <2>3, <2>4, <2>6, SMTT(30) DEF PastPossible
  <2>7. QED  BY <1>5, <2>5, <2>6 DEF PastPossible
<1>8. ProgressIsLastLog'
  <2>1. progress'[w] = [version |-> Len(logs'[w]), card |-> Last(logs'[w]).card]
    BY <1>2, <1>3, <1>5 DEF Reviewing, TypeOK, Last
  <2>2. logs'[w] # <<>>  BY <1>4, <1>5
  <2>3. \A v \in Words \ {w} : progress'[v] = progress[v]  BY <1>3 DEF Reviewing, TypeOK
  <2>4. QED  BY <1>5, <2>1, <2>2, <2>3 DEF Reviewing, ProgressIsLastLog, Last
<1>9. ASSUME NEW p \in Requests PROVE Sound(req[p])'
  <2>1. CASE p = q
    <3>1. req'[p] = IdleReq  BY <1>3, <2>1, Finds
    <3>2. QED
      BY <3>1 DEF IdleReq, Sound, AskedBy, PhaseOf, ReadBy, HeldAsRead, Holding, LogMade, IdFresh,
         Paying
  <2>2. CASE p # q
    <3>1. req'[p] = req[p] /\ Sound(req[p])  BY <1>3, <2>2, Finds
    <3>2. Holding(req[q]) /\ req[q].logged  BY <1>1, Finds DEF Sound, PhaseOf, Holding
    <3>3. Apart(req[p], req[q])  BY <2>2 DEF Reviewing, AllApart
    <3>4. AskedBy(req[p])' /\ PhaseOf(req[p])' /\ LogMade(req[p])'
      BY <3>1 DEF Sound, AskedBy, PhaseOf, LogMade
    <3>5. ReadBy(req[p])'
      <4>1. \A row : \A v \in Words : WasRow(row, v) =>
               \/ row = NoRow
               \/ row.version \in 1 .. Len(logs'[v]) /\ row.card = logs'[v][row.version].card
        BY <1>4, <1>5 DEF WasRow
      <4>2. req[p].pc # "idle" => req[p].word \in Words  BY Finds DEF Busy
      <4>3. QED  BY <3>1, <4>1, <4>2 DEF Sound, ReadBy, WasRow
    <3>6. HeldAsRead(req[p])'
      <4>1. Holding(req[p]) => req[p].word \in Words \ {w}
        BY <3>1, <3>2, <3>3, Finds DEF Apart, w, Sound, PhaseOf, Holding, Busy
      <4>2. Holding(req[p]) => progress'[req[p].word] = progress[req[p].word]
        BY <1>3, <4>1 DEF Reviewing, TypeOK
      <4>3. QED  BY <3>1, <4>2 DEF Sound, HeldAsRead, Holding
    <3>7. IdFresh(req[p])'
      <4>1. req[p].logged => req[p].review # l.review  BY <1>2, <3>2, <3>3 DEF Apart
      <4>2. QED  BY <1>5, <3>1, <4>1 DEF Sound, IdFresh, Recorded
    <3>8. Paying(req[p])'
      BY <1>3, <3>1 DEF Sound, Paying, Due
    <3>9. QED  BY <3>4, <3>5, <3>6, <3>7, <3>8 DEF Sound
  <2>3. QED  BY <2>1, <2>2
<1>10. AllApart'
  <2>1. req'[q] = IdleReq /\ \A p \in Requests \ {q} : req'[p] = req[p]  BY <1>3, Finds
  <2>2. QED  BY <2>1, IdleSound DEF Reviewing, AllApart, Apart, Holding
<1>11. PaidExactlyOnce'
  <2>1. ledger' = ledger \cup Due(req[q])  BY <1>1, <1>3, Finds DEF Sound, Paying
  <2>2. {wordReviewedAward(k.review) : k \in Rows(logs')} =
           {wordReviewedAward(k.review) : k \in Rows(logs)} \cup {wordReviewedAward(l.review)}
    BY <1>5
  <2>3. EverMastered(logs') =
           EverMastered(logs) \cup (IF l.card.state = "MASTERED" THEN {w} ELSE {})
    BY <1>2, <1>5 DEF EverMastered
  <2>4. l.card.state = "MASTERED" /\ req[q].before.card.state = "MASTERED" =>
           w \in EverMastered(logs)
    <3>1. SUFFICES ASSUME req[q].before.card.state = "MASTERED" PROVE w \in EverMastered(logs)
      OBVIOUS
    <3>2. progress[w].card.state = "MASTERED"  BY <1>2, <3>1
    <3>3. logs[w] # <<>> /\ progress[w].card = Last(logs[w]).card
      <4>1. progress[w] # NoRow  BY <3>2 DEF NoRow, DEFAULT_NEW_PROGRESS
      <4>2. logs[w] # <<>>  BY <1>2, <4>1 DEF Reviewing, ProgressIsLastLog
      <4>3. progress[w] = [version |-> Len(logs[w]), card |-> Last(logs[w]).card]
        BY <1>2, <4>2 DEF Reviewing, ProgressIsLastLog
      <4>4. QED  BY <4>2, <4>3
    <3>4. Len(logs[w]) \in DOMAIN logs[w]  BY <1>2, <1>4, <1>5, <3>3
    <3>5. Last(logs[w]) \in Rows(logs) /\ Last(logs[w]).word = w
      BY <1>2, <3>4 DEF Rows, Last, Reviewing, PastPossible
    <3>6. QED  BY <3>2, <3>3, <3>5 DEF EverMastered
  <2>5. Due(req[q]) = {wordReviewedAward(l.review)}
           \cup (IF justMastered(req[q].before.card, l.card) THEN {wordMasteredAward(w)} ELSE {})
    BY <1>2 DEF Due, l, w
  <2>6. {wordMasteredAward(v) : v \in EverMastered(logs')} \cup {wordReviewedAward(l.review)}
           = {wordMasteredAward(v) : v \in EverMastered(logs)} \cup Due(req[q])
    BY <2>3, <2>4, <2>5 DEF justMastered
  <2>7. QED  BY <2>1, <2>2, <2>6 DEF Reviewing, PaidExactlyOnce
<1>12. RepliesLogged'  BY <1>3, <1>5 DEF Reviewing, RepliesLogged
<1>13. QED  BY <1>6, <1>7, <1>8, <1>9, <1>10, <1>11, <1>12 DEF Reviewing
-----------------------------------------------------------------------------
(* The whole                                                               *)

LEMMA InitReviewing == Init => Reviewing
<1> SUFFICES ASSUME Init PROVE Reviewing  OBVIOUS
<1>1. PastPossible(logs)  BY WordReviewAssumption DEF Init
<1>2. logs \in [Words -> Seq(LogType)]  BY <1>1 DEF PastPossible
<1>3. ProgressIsLastLog  BY DEF Init, ProgressIsLastLog
<1>4. progress \in [Words -> RowType]
  <2>1. ASSUME NEW w \in Words PROVE progress[w] \in RowType
    <3>1. CASE logs[w] = <<>>
      <4>1. progress[w] = NoRow  BY <3>1 DEF Init
      <4>2. QED  BY <4>1, DefaultRows
    <3>2. CASE logs[w] # <<>>
      <4>1. logs[w] \in Seq(LogType)  BY <1>2
      <4>2. Len(logs[w]) \in Nat /\ Last(logs[w]) \in LogType  BY <3>2, <4>1 DEF Last
      <4>3. progress[w] = [version |-> Len(logs[w]), card |-> Last(logs[w]).card]
        BY <3>2 DEF Init
      <4>4. QED  BY <4>2, <4>3 DEF LogType, RowType
    <3>3. QED  BY <3>1, <3>2
  <2>2. QED  BY <2>1 DEF Init
<1>5. \A l \in Rows(logs) : l \in LogType  BY <1>2 DEF Rows
<1>6. ledger \subseteq Keys
  <2>1. \A l \in Rows(logs) : l.review \in Reviews /\ l.word \in Words  BY <1>5 DEF LogType
  <2>2. EverMastered(logs) \subseteq Words  BY <2>1 DEF EverMastered
  <2>3. QED  BY <2>1, <2>2 DEF Init, Keys, ActionKeys
<1>7. req = [q \in Requests |-> IdleReq]  BY DEF Init
<1>8. TypeOK  BY <1>2, <1>4, <1>6, <1>7, DefaultRows DEF Init, TypeOK
<1>9. (\A q \in Requests : Sound(req[q])) /\ AllApart
  BY <1>7, IdleSound DEF AllApart, Apart
<1>10. PaidExactlyOnce /\ RepliesLogged  BY DEF Init, PaidExactlyOnce, RepliesLogged
<1>11. QED  BY <1>1, <1>3, <1>8, <1>9, <1>10 DEF Reviewing

LEMMA NextReviewing == Reviewing /\ [Next]_vars => Reviewing'
<1> SUFFICES ASSUME Reviewing, [Next]_vars PROVE Reviewing'  OBVIOUS
<1>1. CASE UNCHANGED vars
  <2>1. \A q \in Requests : Sound(req[q])'
    BY <1>1 DEF vars, Reviewing, Sound, AskedBy, PhaseOf, ReadBy, WasRow, HeldAsRead, Holding,
       LogMade, IdFresh, Recorded, Rows, Paying, Due
  <2>2. TypeOK'  BY <1>1 DEF vars, Reviewing, TypeOK
  <2>3. PastPossible(logs)' /\ ProgressIsLastLog'
    BY <1>1 DEF vars, Reviewing, PastPossible, ProgressIsLastLog, Last
  <2>4. AllApart'  BY <1>1 DEF vars, Reviewing, AllApart, Apart, Holding
  <2>5. PaidExactlyOnce' /\ RepliesLogged'
    BY <1>1 DEF vars, Reviewing, PaidExactlyOnce, RepliesLogged, Rows, EverMastered
  <2>6. QED  BY <2>1, <2>2, <2>3, <2>4, <2>5 DEF Reviewing
<1>2. CASE \E q \in Requests, r \in Reviews, w \in Words, g \in Answers : Submit(q, r, w, g)
  BY <1>2, SubmitKeeps
<1>3. ASSUME NEW q \in Requests, Run(q) PROVE Reviewing'
  BY <1>3, ReplayKeeps, FailKeeps, PassGateKeeps, FindProgressKeeps, CreateProgressKeeps,
     RetryLostRaceKeeps, UpdateProgressKeeps, CreateLogKeeps, AwardKeeps, CommitKeeps DEF Run
<1>4. ASSUME NEW q \in Requests, Crash(q) PROVE Reviewing'  BY <1>4, FailKeeps
<1>5. CASE \E w \in Words : SetVisible(w)  BY <1>5, SetVisibleKeeps
<1>6. QED  BY <1>1, <1>2, <1>3, <1>4, <1>5 DEF Next

LEMMA AlwaysReviewing == Spec => []Reviewing
BY InitReviewing, NextReviewing, PTL DEF Spec

(* Every variable has its type. *)
THEOREM Typed == Spec => []TypeOK
<1>1. Reviewing => TypeOK  BY DEF Reviewing
<1>2. QED  BY <1>1, AlwaysReviewing, PTL

(* No review is lost and none is applied twice: submitReview's conditional *)
(* update lets a card be replaced only by what was scheduled from it.      *)
THEOREM ProgressAlwaysLastLog == Spec => []ProgressIsLastLog
<1>1. Reviewing => ProgressIsLastLog  BY DEF Reviewing
<1>2. QED  BY <1>1, AlwaysReviewing, PTL

(* However often a review is retried, it is paid once, and every 200 that  *)
(* is returned for it carries the snapshot of the one log it left.         *)
THEOREM RetriesAlwaysPaidOnce == Spec => []RetriesPaidAndAnsweredOnce
<1>1. Reviewing => RetriesPaidAndAnsweredOnce
  <2>1. SUFFICES ASSUME Reviewing PROVE RepliesAgree
    BY DEF Reviewing, RetriesPaidAndAnsweredOnce
  <2>2. ASSUME NEW a \in Rows(logs), NEW b \in Rows(logs), a.review = b.review PROVE a = b
    <3>1. PICK v \in Words : \E i \in DOMAIN logs[v] : a = logs[v][i]  BY DEF Rows
    <3>2. PICK i \in DOMAIN logs[v] : a = logs[v][i]  BY <3>1
    <3>3. PICK w \in Words : \E j \in DOMAIN logs[w] : b = logs[w][j]  BY DEF Rows
    <3>4. PICK j \in DOMAIN logs[w] : b = logs[w][j]  BY <3>3
    <3>5. logs[v][i].review = logs[w][j].review  BY <2>2, <3>2, <3>4
    <3>6. v = w /\ i = j
      <4>1. PastPossible(logs)  BY <2>1 DEF Reviewing
      <4>2. QED  BY <3>2, <3>4, <3>5, <4>1 DEF PastPossible
    <3>7. QED  BY <3>2, <3>4, <3>6
  <2>3. replies \subseteq Rows(logs)  BY <2>1 DEF Reviewing, RepliesLogged
  <2>4. ASSUME NEW a \in replies, NEW b \in replies, a.review = b.review PROVE a = b
    BY <2>2, <2>3, <2>4
  <2>5. QED  BY <2>3, <2>4 DEF RepliesAgree
<1>2. QED  BY <1>1, AlwaysReviewing, PTL
-----------------------------------------------------------------------------
(* The atomic history                                                      *)

(* The scheduler of the abstract history is the scheduler of the handlers. *)
LEMMA SameConstants ==
    /\ RH!GRADUATING_INTERVAL_DAYS = GRADUATING_INTERVAL_DAYS
    /\ RH!SECOND_INTERVAL_DAYS = SECOND_INTERVAL_DAYS
    /\ RH!EASY_GRADUATING_INTERVAL_DAYS = EASY_GRADUATING_INTERVAL_DAYS
    /\ RH!AGAIN_EASE_PENALTY = AGAIN_EASE_PENALTY /\ RH!HARD_EASE_PENALTY = HARD_EASE_PENALTY
    /\ RH!EASY_EASE_BONUS = EASY_EASE_BONUS /\ RH!Never = Never
    /\ RH!MASTERY_MIN_INTERVAL_DAYS = MASTERY_MIN_INTERVAL_DAYS
    /\ RH!MASTERY_MIN_REPETITIONS = MASTERY_MIN_REPETITIONS
    /\ \A e : RH!clampEase(e) = clampEase(e)
    /\ \A n, d, tie : RH!Rounded(n, d, tie) = Rounded(n, d, tie)
    /\ \A p : RH!preGraduation(p) = preGraduation(p)
<1>1. \A e : RH!clampEase(e) = clampEase(e)
  BY DEF RH!clampEase, clampEase, RH!MIN_EASE_FACTOR, MIN_EASE_FACTOR, RH!MAX_EASE_FACTOR,
         MAX_EASE_FACTOR
<1>2. \A n, d, tie : RH!Rounded(n, d, tie) = Rounded(n, d, tie)  BY DEF RH!Rounded, Rounded
<1>3. \A p : RH!preGraduation(p) = preGraduation(p)  BY DEF RH!preGraduation, preGraduation
<1>4. QED
  BY <1>1, <1>2, <1>3
  DEF RH!GRADUATING_INTERVAL_DAYS, GRADUATING_INTERVAL_DAYS, RH!SECOND_INTERVAL_DAYS,
      SECOND_INTERVAL_DAYS, RH!EASY_GRADUATING_INTERVAL_DAYS, EASY_GRADUATING_INTERVAL_DAYS,
      RH!AGAIN_EASE_PENALTY, AGAIN_EASE_PENALTY, RH!HARD_EASE_PENALTY, HARD_EASE_PENALTY,
      RH!EASY_EASE_BONUS, EASY_EASE_BONUS, RH!Never, Never, RH!MASTERY_MIN_INTERVAL_DAYS,
      MASTERY_MIN_INTERVAL_DAYS, RH!MASTERY_MIN_REPETITIONS, MASTERY_MIN_REPETITIONS

LEMMA SameScheduler ==
    ASSUME NEW p, NEW g, NEW tie PROVE RH!next(p, g, 0, tie) = next(p, g, 0, tie)
<1>1. RH!again(p) = again(p)  BY SameConstants DEF RH!again, again
<1>2. RH!hard(p, tie) = hard(p, tie)  BY SameConstants DEF RH!hard, hard
<1>3. RH!Stamp(p.masteredAt, 0) = Stamp(p.masteredAt, 0)
      /\ RH!Stamp(p.firstLearnedAt, 0) = Stamp(p.firstLearnedAt, 0)
  BY SameConstants DEF RH!Stamp, Stamp
<1>4. RH!recalled(p, g, 0, tie) = recalled(p, g, 0, tie)
  <2> DEFINE ease == IF g = "EASY" THEN clampEase(p.easeFactor + EASY_EASE_BONUS)
                     ELSE p.easeFactor
             rhEase == IF g = "EASY" THEN RH!clampEase(p.easeFactor + RH!EASY_EASE_BONUS)
                       ELSE p.easeFactor
             days == CASE p.repetitions = 0 ->
                            IF g = "EASY" THEN EASY_GRADUATING_INTERVAL_DAYS
                            ELSE GRADUATING_INTERVAL_DAYS
                       [] g = "GOOD" /\ p.repetitions = 1 -> SECOND_INTERVAL_DAYS
                       [] g = "EASY" /\ p.repetitions # 0 ->
                            Rounded(p.intervalDays * ease * 13, 1000, tie)
                       [] OTHER -> Rounded(p.intervalDays * ease, 100, tie)
             rhDays == CASE p.repetitions = 0 ->
                              IF g = "EASY" THEN RH!EASY_GRADUATING_INTERVAL_DAYS
                              ELSE RH!GRADUATING_INTERVAL_DAYS
                         [] g = "GOOD" /\ p.repetitions = 1 -> RH!SECOND_INTERVAL_DAYS
                         [] g = "EASY" /\ p.repetitions # 0 ->
                              RH!Rounded(p.intervalDays * rhEase * 13, 1000, tie)
                         [] OTHER -> RH!Rounded(p.intervalDays * rhEase, 100, tie)
             mastered(d) == /\ d >= MASTERY_MIN_INTERVAL_DAYS
                            /\ p.repetitions + 1 >= MASTERY_MIN_REPETITIONS
             rhMastered(d) == /\ d >= RH!MASTERY_MIN_INTERVAL_DAYS
                              /\ p.repetitions + 1 >= RH!MASTERY_MIN_REPETITIONS
             graded(e, d, m, f, t) ==
                 [p EXCEPT !.state = IF m THEN "MASTERED" ELSE "REVIEW", !.easeFactor = e,
                           !.intervalDays = d, !.repetitions = @ + 1, !.firstLearnedAt = f,
                           !.masteredAt = IF m THEN t ELSE @]
  <2>1. rhEase = ease  BY SameConstants
  <2>2. rhDays = days
    <3> HIDE DEF ease, rhEase
    <3>1. QED  BY <2>1, SameConstants
  <2>3. rhMastered(rhDays) = mastered(days)
    <3> HIDE DEF days, rhDays
    <3>1. QED  BY <2>2, SameConstants
  <2>4. recalled(p, g, 0, tie) = graded(ease, days, mastered(days), Stamp(p.firstLearnedAt, 0),
                                        Stamp(p.masteredAt, 0))
    BY DEF recalled
  <2>5. RH!recalled(p, g, 0, tie) =
          graded(rhEase, rhDays, rhMastered(rhDays), RH!Stamp(p.firstLearnedAt, 0),
                 RH!Stamp(p.masteredAt, 0))
    BY DEF RH!recalled
  <2> HIDE DEF ease, rhEase, days, rhDays, mastered, rhMastered, graded
  <2>6. QED  BY <1>3, <2>1, <2>2, <2>3, <2>4, <2>5
<1>5. QED  BY <1>1, <1>2, <1>4 DEF RH!next, next

(* Every statement but COMMIT leaves the histories alone, and COMMIT is    *)
(* one accepted review.                                                    *)
LEMMA CommitAccepts ==
    ASSUME Reviewing, NEW q \in Requests, Commit(q) PROVE RH!Next
<1> DEFINE l == req[q].log  w == req[q].word
<1>1. req[q].pc = "commit"  BY DEF Commit
<1>2. /\ w \in Words /\ l \in LogType /\ l.word = w /\ l.review = req[q].review
      /\ progress[w] = req[q].before /\ req[q].before.version = Len(logs[w])
      /\ Recorded(l.review) = {}
      /\ \E tie \in {0, 1} :
            l = Log(req[q].review, w, req[q].rating, Len(logs[w]) + 1,
                    next(req[q].before.card, req[q].rating, 0, tie))
  BY <1>1, Committing
<1>3. PICK tie \in {0, 1} :
        l = Log(req[q].review, w, req[q].rating, Len(logs[w]) + 1,
                next(req[q].before.card, req[q].rating, 0, tie))
  BY <1>2
<1>4. req[q].review \in Reviews /\ req[q].rating \in Answers  BY <1>1, Finds DEF Busy
<1>5. logs' = [logs EXCEPT ![w] = Append(@, l)]  BY <1>2 DEF Commit
<1>6. RH!Card(logs[w]) = req[q].before.card
  <2>1. CASE logs[w] = <<>>
    <3>1. progress[w] = NoRow  BY <1>2, <2>1 DEF Reviewing, ProgressIsLastLog
    <3>2. QED
      BY <1>2, <2>1, <3>1 DEF RH!Card, NoRow, RH!DEFAULT_NEW_PROGRESS, DEFAULT_NEW_PROGRESS,
         RH!DEFAULT_EASE_FACTOR, DEFAULT_EASE_FACTOR, RH!Never, Never
  <2>2. CASE logs[w] # <<>>
    <3>1. progress[w] = [version |-> Len(logs[w]), card |-> Last(logs[w]).card]
      BY <1>2, <2>2 DEF Reviewing, ProgressIsLastLog
    <3>2. progress[w].card = Last(logs[w]).card  BY <3>1
    <3>3. RH!Card(logs[w]) = Last(logs[w]).card  BY <2>2 DEF RH!Card, Last
    <3>4. QED  BY <1>2, <3>2, <3>3
  <2>3. QED  BY <2>1, <2>2
<1>7. ~RH!Accepted(req[q].review)  BY <1>2 DEF RH!Accepted, Recorded, Rows
<1>8. l = [review |-> req[q].review, word |-> w, rating |-> req[q].rating,
           resultVersion |-> Len(logs[w]) + 1,
           card |-> RH!next(RH!Card(logs[w]), req[q].rating, 0, tie)]
  BY <1>3, <1>6, SameScheduler DEF Log
<1> HIDE DEF l, w
<1>9. RH!Accept(req[q].review, w, req[q].rating, tie)
  BY <1>2, <1>5, <1>7, <1>8 DEF RH!Accept
<1>10. QED  BY <1>2, <1>4, <1>9 DEF RH!Next

(* The handlers implement the atomic ReviewHistory: a word's logs are its  *)
(* accepted reviews in order, each scheduled from the one before, and a    *)
(* clientReviewId is accepted once.                                        *)
THEOREM ReviewsImplementHistory == Spec => ImplementsReviewHistory
<1>1. Init => RH!Init  BY DEF Init, RH!Init
<1>2. Reviewing /\ [Next]_vars => [RH!Next]_logs
  <2>1. SUFFICES ASSUME Reviewing, [Next]_vars PROVE RH!Next \/ UNCHANGED logs  OBVIOUS
  <2>2. CASE UNCHANGED vars  BY <2>2 DEF vars
  <2>3. CASE \E q \in Requests, r \in Reviews, w \in Words, g \in Answers : Submit(q, r, w, g)
    BY <2>3 DEF Submit
  <2>4. ASSUME NEW q \in Requests, Run(q) PROVE RH!Next \/ UNCHANGED logs
    <3>1. CASE Commit(q)  BY <2>1, <3>1, CommitAccepts
    <3>2. CASE ~Commit(q)
      BY <2>4, <3>2 DEF Run, Replay, IdempotencyKeyReused, PassGate, NotVisible, FindProgress,
         CreateProgress, RetryLostRace, UpdateProgress, ReviewVersionConflict, CreateLog,
         DuplicateLog, Award, Fail
    <3>3. QED  BY <3>1, <3>2
  <2>5. ASSUME NEW q \in Requests, Crash(q) PROVE RH!Next \/ UNCHANGED logs
    BY <2>5 DEF Crash, Fail
  <2>6. CASE \E w \in Words : SetVisible(w)  BY <2>6 DEF SetVisible
  <2>7. QED  BY <2>1, <2>2, <2>3, <2>4, <2>5, <2>6 DEF Next
<1>3. QED  BY <1>1, <1>2, AlwaysReviewing, PTL DEF Spec, ImplementsReviewHistory, RH!Spec
-----------------------------------------------------------------------------
(* The cards (SrsScheduler): what the reviews leave.                       *)

(* A set of numbers has a least one.                                       *)
LEMMA LeastPlace == ASSUME NEW S \in SUBSET Nat, S # {}
                    PROVE  \E m \in S : \A j \in S : m <= j
<1>1. PICK m \in S : \A j \in S : <<j, m>> \notin OpToRel(<, Nat)
  BY NatLessThanWellFounded, WFMin
<1>2. \A j \in S : ~(j < m)  BY <1>1 DEF OpToRel
<1>3. \A j \in S : j \in Nat /\ m \in Nat  OBVIOUS
<1>4. \A j \in S : m <= j  BY <1>2, <1>3
<1> QED  BY <1>4

(* Rounding, by quotient and remainder.                                    *)
Rounds(n, d, tie) ==
    \E q \in Nat, r \in Nat :
       /\ r < d /\ n = q * d + r
       /\ Rounded(n, d, tie) = IF 2 * r < d THEN q ELSE IF 2 * r = d THEN q + tie ELSE q + 1

LEMMA RoundedIs ==
    ASSUME NEW n \in Nat, NEW d \in {10, 100, 1000}, NEW tie \in {0, 1}
    PROVE  Rounds(n, d, tie)
<1> DEFINE q == n \div d  r == n % d
<1>1. /\ q \in Nat /\ r \in Nat /\ r < d /\ n = q * d + r
      /\ Rounded(n, d, tie) = IF 2 * r < d THEN q ELSE IF 2 * r = d THEN q + tie ELSE q + 1
  <2>1. CASE d = 10  BY <2>1, SMTT(30) DEF Rounded
  <2>2. CASE d = 100  BY <2>2, SMTT(30) DEF Rounded
  <2>3. CASE d = 1000  BY <2>3, SMTT(30) DEF Rounded
  <2> QED  BY <2>1, <2>2, <2>3
<1> HIDE DEF q, r
<1> QED  BY <1>1 DEF Rounds

LEMMA RoundedGrows ==
    ASSUME NEW m \in Nat, NEW n \in Nat, NEW c \in {10, 100}, NEW d \in {100, 1000}, c <= d,
           m * d <= n * c, NEW tie \in {0, 1}
    PROVE  Rounded(m, c, tie) <= Rounded(n, d, tie)
<1>a. c \in {10, 100, 1000} /\ d \in {10, 100, 1000}  OBVIOUS
<1>b. Rounds(m, c, tie) /\ Rounds(n, d, tie)  BY <1>a, RoundedIs
<1>1. PICK p \in Nat, r \in Nat :
      /\ r < c /\ m = p * c + r
      /\ Rounded(m, c, tie) = IF 2 * r < c THEN p ELSE IF 2 * r = c THEN p + tie ELSE p + 1
  BY <1>b DEF Rounds
<1>2. PICK q \in Nat, s \in Nat :
      /\ s < d /\ n = q * d + s
      /\ Rounded(n, d, tie) = IF 2 * s < d THEN q ELSE IF 2 * s = d THEN q + tie ELSE q + 1
  BY <1>b DEF Rounds
<1>3. CASE c = 10 /\ d = 100  BY <1>1, <1>2, <1>3, SMTT(30)
<1>4. CASE c = 10 /\ d = 1000  BY <1>1, <1>2, <1>4, SMTT(30)
<1>5. CASE c = 100 /\ d = 100  BY <1>1, <1>2, <1>5, SMTT(30)
<1>6. CASE c = 100 /\ d = 1000  BY <1>1, <1>2, <1>6, SMTT(30)
<1> QED  BY <1>3, <1>4, <1>5, <1>6

LEMMA ProductGrows ==
    ASSUME NEW i \in Nat, NEW e \in Nat, NEW f \in Nat, e <= f PROVE i * e \in Nat /\ i * e <= i * f
<1>1. f = e + (f - e) /\ f - e \in Nat  OBVIOUS
<1>2. i * (f - e) \in Nat /\ i * f = i * e + i * (f - e)  BY <1>1
<1> QED  BY <1>2

(* What a HARD answer, a GOOD one and an EASY one make of an interval.     *)
LEMMA Stretched ==
    ASSUME NEW i \in Nat, NEW tie \in {0, 1}
    PROVE  /\ Rounded(i * 12, 10, tie) \in Nat /\ i <= Rounded(i * 12, 10, tie)
           /\ i <= 1 => Rounded(i * 12, 10, tie) = i
           /\ i <= 4 => Rounded(i * 12, 10, tie) <= 5
           /\ i <= 16 => Rounded(i * 12, 10, tie) <= 20
<1> DEFINE m == i * 12
<1>1. m \in Nat /\ m = i * 12  OBVIOUS
<1>a. 10 \in {10, 100, 1000}  OBVIOUS
<1> HIDE DEF m
<1>b. Rounds(m, 10, tie)  BY <1>1, <1>a, RoundedIs
<1>2. PICK q \in Nat, r \in Nat :
      /\ r < 10 /\ m = q * 10 + r
      /\ Rounded(m, 10, tie) = IF 2 * r < 10 THEN q ELSE IF 2 * r = 10 THEN q + tie ELSE q + 1
  BY <1>b DEF Rounds
<1>3. Rounded(m, 10, tie) \in Nat /\ i <= Rounded(m, 10, tie)  BY <1>1, <1>2, SMTT(30)
<1>4. i <= 1 => Rounded(m, 10, tie) = i  BY <1>1, <1>2, SMTT(30)
<1>5. i <= 4 => Rounded(m, 10, tie) <= 5  BY <1>1, <1>2, SMTT(30)
<1>6. i <= 16 => Rounded(m, 10, tie) <= 20  BY <1>1, <1>2, SMTT(30)
<1> QED  BY <1>3, <1>4, <1>5, <1>6 DEF m

LEMMA Recalled ==
    ASSUME NEW i \in Nat, NEW e \in EaseFactors, NEW f \in EaseFactors, e <= f, NEW tie \in {0, 1}
    PROVE  LET hardDays == Rounded(i * 12, 10, tie)
               goodDays == Rounded(i * e, 100, tie)
               easyDays == Rounded(i * f * 13, 1000, tie)
           IN  /\ goodDays \in Nat /\ easyDays \in Nat
               /\ hardDays <= goodDays /\ goodDays <= easyDays
               /\ i <= 4 => easyDays <= 16
<1> DEFINE h == i * 12  g == i * e  z == i * f  y == z * 13
<1>1. e \in Nat /\ f \in Nat /\ 130 <= e /\ f <= 300
  BY DEF EaseFactors, MIN_EASE_FACTOR, MAX_EASE_FACTOR
<1>2. i * 130 <= g /\ g \in Nat /\ g <= z /\ z \in Nat /\ z <= i * 300
  BY <1>1, ProductGrows
<1>3. h \in Nat /\ h = i * 12 /\ y \in Nat /\ y = z * 13  BY <1>2
<1>a. 10 \in {10, 100} /\ 100 \in {10, 100} /\ 100 \in {100, 1000} /\ 1000 \in {100, 1000}
      /\ 100 \in {10, 100, 1000} /\ 1000 \in {10, 100, 1000} /\ 10 <= 100 /\ 100 <= 1000
  OBVIOUS
<1> HIDE DEF h, g, z, y
<1>4. h * 100 <= g * 10 /\ g * 1000 <= y * 100  BY <1>2, <1>3
<1>5. Rounded(h, 10, tie) <= Rounded(g, 100, tie)  BY <1>2, <1>3, <1>4, <1>a, RoundedGrows
<1>6. Rounded(g, 100, tie) <= Rounded(y, 1000, tie)  BY <1>2, <1>3, <1>4, <1>a, RoundedGrows
<1>7. Rounded(g, 100, tie) \in Nat /\ Rounded(y, 1000, tie) \in Nat
  <2>1. Rounded(g, 100, tie) \in Nat  BY <1>2, <1>a, RoundedNat
  <2>2. Rounded(y, 1000, tie) \in Nat  BY <1>3, <1>a, RoundedNat
  <2> QED  BY <2>1, <2>2
<1>8. i <= 4 => Rounded(y, 1000, tie) <= 16
  <2>0. Rounds(y, 1000, tie)  BY <1>3, <1>a, RoundedIs
  <2>1. PICK q \in Nat, r \in Nat :
        /\ r < 1000 /\ y = q * 1000 + r
        /\ Rounded(y, 1000, tie) =
             IF 2 * r < 1000 THEN q ELSE IF 2 * r = 1000 THEN q + tie ELSE q + 1
    BY <2>0 DEF Rounds
  <2> QED  BY <1>2, <1>3, <2>1, SMTT(30)
<1> QED  BY <1>5, <1>6, <1>7, <1>8 DEF h, g, z, y

(* The first two recalls leave the interval short of mastery.              *)
Scheduled(p) ==
    /\ Shaped(p)
    /\ p.repetitions = 0 => p.intervalDays <= 1
    /\ p.repetitions # 0 => p.intervalDays >= 1
    /\ p.repetitions = 1 => p.intervalDays <= 4
    /\ p.repetitions = 2 => p.intervalDays <= 16

LEMMA AgainScheduled ==
    ASSUME NEW p \in CardType, Scheduled(p) PROVE Scheduled(again(p)) /\ again(p).intervalDays = 1
<1> DEFINE ease == clampEase(p.easeFactor - AGAIN_EASE_PENALTY)
<1>1. ease \in EaseFactors  BY CardFields, EaseClamped DEF AGAIN_EASE_PENALTY
<1> HIDE DEF ease
<1>2. /\ again(p).intervalDays = 1 /\ again(p).repetitions = p.repetitions
      /\ again(p).firstLearnedAt = p.firstLearnedAt
      /\ preGraduation(p) => /\ again(p).state = "LEARNING" /\ again(p).masteredAt = p.masteredAt
                             /\ again(p).easeFactor = p.easeFactor
      /\ ~preGraduation(p) => again(p).state = "RELEARNING"
      /\ p.state \in {"REVIEW", "MASTERED"} =>
            again(p).masteredAt = Never /\ again(p).easeFactor = ease
      /\ p.state = "RELEARNING" => /\ again(p).masteredAt = p.masteredAt
                                   /\ again(p).easeFactor = p.easeFactor
  BY CardFields DEF again, preGraduation, CardType, LearningStates, GRADUATING_INTERVAL_DAYS, ease
<1>3. p.state \in LearningStates /\ p.repetitions \in Nat  BY CardFields
<1> QED  BY <1>1, <1>2, <1>3 DEF Scheduled, Shaped, preGraduation, LearningStates, EaseFactors,
            MASTERY_MIN_INTERVAL_DAYS, MASTERY_MIN_REPETITIONS

LEMMA HardScheduled ==
    ASSUME NEW p \in CardType, Scheduled(p), NEW tie \in {0, 1}
    PROVE  /\ Scheduled(hard(p, tie))
           /\ hard(p, tie).intervalDays = IF preGraduation(p) THEN 1
                                          ELSE Rounded(p.intervalDays * 12, 10, tie)
<1> DEFINE ease == clampEase(p.easeFactor - HARD_EASE_PENALTY)
           days == Rounded(p.intervalDays * 12, 10, tie)
           h == hard(p, tie)
<1>1. ease \in EaseFactors  BY CardFields, EaseClamped DEF HARD_EASE_PENALTY
<1>2. /\ days \in Nat /\ p.intervalDays <= days
      /\ p.intervalDays <= 1 => days = p.intervalDays
      /\ p.intervalDays <= 4 => days <= 5
      /\ p.intervalDays <= 16 => days <= 20
  BY CardFields, Stretched
<1> HIDE DEF ease, days
<1>3. /\ preGraduation(p) => /\ h.state = "LEARNING" /\ h.intervalDays = 1
                             /\ h.repetitions = p.repetitions /\ h.masteredAt = p.masteredAt
                             /\ h.easeFactor = p.easeFactor
      /\ p.state = "RELEARNING" => /\ h.state = "RELEARNING" /\ h.intervalDays = days
                                   /\ h.repetitions = p.repetitions
                                   /\ h.masteredAt = p.masteredAt
                                   /\ h.easeFactor = p.easeFactor
      /\ p.state \in {"REVIEW", "MASTERED"} =>
            /\ h.state = "REVIEW" /\ h.intervalDays = days
            /\ h.repetitions = p.repetitions + 1 /\ h.masteredAt = Never
            /\ h.easeFactor = ease
      /\ h.firstLearnedAt = p.firstLearnedAt
  BY CardFields DEF hard, preGraduation, CardType, LearningStates, GRADUATING_INTERVAL_DAYS,
     ease, days
<1>4. p.state \in LearningStates /\ p.repetitions \in Nat /\ p.intervalDays \in Nat
  BY CardFields
<1> HIDE DEF h
<1>5. Scheduled(h)
  <2>1. CASE preGraduation(p)
    BY <1>3, <1>4, <2>1 DEF Scheduled, Shaped, preGraduation, MASTERY_MIN_INTERVAL_DAYS
  <2>2. CASE p.state = "RELEARNING"
    BY <1>2, <1>3, <1>4, <2>2 DEF Scheduled, Shaped, preGraduation, MASTERY_MIN_INTERVAL_DAYS
  <2>3. CASE p.state \in {"REVIEW", "MASTERED"}
    BY <1>1, <1>2, <1>3, <1>4, <2>3, SMTT(30) DEF Scheduled, Shaped, preGraduation, EaseFactors,
       MASTERY_MIN_INTERVAL_DAYS, MASTERY_MIN_REPETITIONS
  <2> QED  BY <1>4, <2>1, <2>2, <2>3 DEF LearningStates, preGraduation
<1>6. h.intervalDays = IF preGraduation(p) THEN 1 ELSE days
  BY <1>3, <1>4 DEF LearningStates, preGraduation
<1> QED  BY <1>5, <1>6 DEF h, days

(* The days a recall gives, and the ease it is given with. *)
RecallEase(p, g) == IF g = "EASY" THEN clampEase(p.easeFactor + EASY_EASE_BONUS) ELSE p.easeFactor
RecallDays(p, g, tie) ==
    CASE p.repetitions = 0 -> IF g = "EASY" THEN 4 ELSE 1
      [] g = "GOOD" /\ p.repetitions = 1 -> 6
      [] g = "EASY" /\ p.repetitions # 0 ->
           Rounded(p.intervalDays * RecallEase(p, g) * 13, 1000, tie)
      [] OTHER -> Rounded(p.intervalDays * RecallEase(p, g), 100, tie)

LEMMA RecalledDays ==
    ASSUME NEW p \in CardType, Scheduled(p), NEW tie \in {0, 1}
    PROVE  LET good == RecallDays(p, "GOOD", tie)
               easy == RecallDays(p, "EASY", tie)
               hardDays == Rounded(p.intervalDays * 12, 10, tie)
           IN  /\ good \in Nat /\ easy \in Nat
               /\ p.intervalDays <= good /\ p.intervalDays <= easy
               /\ p.repetitions # 1 => good <= easy
               /\ p.repetitions # 0 => hardDays <= good /\ hardDays <= easy
               /\ p.repetitions = 0 => good = 1 /\ easy = 4
               /\ p.repetitions = 1 => good = 6 /\ easy <= 16
<1> DEFINE e == RecallEase(p, "GOOD")  f == RecallEase(p, "EASY")
           i == p.intervalDays
           h == Rounded(i * 12, 10, tie)
           g == Rounded(i * e, 100, tie)
           y == Rounded(i * f * 13, 1000, tie)
<1>1. e \in EaseFactors /\ f \in EaseFactors /\ e <= f
  BY CardFields, EaseClamped DEF RecallEase, EASY_EASE_BONUS, EaseFactors, clampEase,
     MIN_EASE_FACTOR, MAX_EASE_FACTOR
<1>2. i \in Nat /\ p.repetitions \in Nat  BY CardFields
<1>3. /\ p.repetitions = 0 => RecallDays(p, "GOOD", tie) = 1 /\ RecallDays(p, "EASY", tie) = 4
      /\ p.repetitions # 0 => RecallDays(p, "EASY", tie) = y
      /\ p.repetitions = 1 => RecallDays(p, "GOOD", tie) = 6
      /\ p.repetitions \notin {0, 1} => RecallDays(p, "GOOD", tie) = g
  BY DEF RecallDays
<1> HIDE DEF e, f, i
<1>4. /\ h \in Nat /\ i <= h /\ (i <= 4 => h <= 5)  BY <1>2, Stretched
<1>5. /\ g \in Nat /\ y \in Nat /\ h <= g /\ g <= y /\ (i <= 4 => y <= 16)
  BY <1>1, <1>2, Recalled
<1>6. /\ p.repetitions = 0 => i <= 1
      /\ p.repetitions = 1 => i <= 4
  BY DEF Scheduled, i
<1> HIDE DEF h, g, y
<1>7. LET good == RecallDays(p, "GOOD", tie)
          easy == RecallDays(p, "EASY", tie)
      IN  /\ good \in Nat /\ easy \in Nat
          /\ i <= good /\ i <= easy
          /\ p.repetitions # 1 => good <= easy
          /\ p.repetitions # 0 => h <= good /\ h <= easy
          /\ p.repetitions = 0 => good = 1 /\ easy = 4
          /\ p.repetitions = 1 => good = 6 /\ easy <= 16
  BY <1>2, <1>3, <1>4, <1>5, <1>6
<1> QED  BY <1>7 DEF i, h

LEMMA RecalledScheduled ==
    ASSUME NEW p \in CardType, Scheduled(p), NEW tie \in {0, 1}, NEW g \in {"GOOD", "EASY"}
    PROVE  /\ Scheduled(recalled(p, g, 0, tie))
           /\ recalled(p, g, 0, tie).intervalDays = RecallDays(p, g, tie)
<1> DEFINE ease == RecallEase(p, g)
           days == RecallDays(p, g, tie)
           mastered == days >= 21 /\ p.repetitions + 1 >= 3
           c == recalled(p, g, 0, tie)
<1>1. ease \in EaseFactors
  BY CardFields, EaseClamped DEF RecallEase, EASY_EASE_BONUS, EaseFactors, MIN_EASE_FACTOR,
     MAX_EASE_FACTOR
<1>2. /\ days \in Nat /\ p.intervalDays <= days /\ (p.repetitions = 0 => days \in {1, 4})
      /\ p.repetitions = 1 => days <= 16 /\ days # 0
  BY RecalledDays, CardFields DEF Scheduled
<1>3. /\ c.state = IF mastered THEN "MASTERED" ELSE "REVIEW"
      /\ c.easeFactor = ease /\ c.intervalDays = days /\ c.repetitions = p.repetitions + 1
      /\ c.firstLearnedAt = Stamp(p.firstLearnedAt, 0)
      /\ c.masteredAt = IF mastered THEN Stamp(p.masteredAt, 0) ELSE p.masteredAt
  BY CardFields DEF recalled, CardType, RecallEase, RecallDays, MASTERY_MIN_INTERVAL_DAYS,
     MASTERY_MIN_REPETITIONS, EASY_GRADUATING_INTERVAL_DAYS, GRADUATING_INTERVAL_DAYS,
     SECOND_INTERVAL_DAYS
<1>4. /\ p.state \in LearningStates /\ p.repetitions \in Nat /\ p.intervalDays \in Nat
      /\ Stamp(p.firstLearnedAt, 0) # Never /\ Stamp(p.masteredAt, 0) # Never
  BY CardFields DEF Stamp, Never
<1> HIDE DEF c, ease, days
<1>5. Scheduled(c)
  BY <1>1, <1>2, <1>3, <1>4 DEF Scheduled, Shaped, preGraduation, LearningStates, EaseFactors,
     MASTERY_MIN_INTERVAL_DAYS, MASTERY_MIN_REPETITIONS
<1> QED  BY <1>3, <1>5 DEF c, days

LEMMA NextScheduled ==
    ASSUME NEW p \in CardType, Scheduled(p), NEW g \in Ratings, NEW tie \in {0, 1}
    PROVE  Scheduled(next(p, g, 0, tie))
BY AgainScheduled, HardScheduled, RecalledScheduled DEF next, Ratings

LEMMA AnswersInOrder == ASSUME NEW p \in CardType, Scheduled(p) PROVE AnswersOrdered(p)
<1> SUFFICES ASSUME NEW tie \in {0, 1}
             PROVE  LET days(rating) == next(p, rating, 0, tie).intervalDays
                    IN  /\ days("AGAIN") <= days("HARD")
                        /\ days("HARD") <= days("GOOD") /\ days("HARD") <= days("EASY")
                        /\ p.repetitions # 1 => days("GOOD") <= days("EASY")
                        /\ p.intervalDays <= days("GOOD")
  BY DEF AnswersOrdered
<1> DEFINE good == RecallDays(p, "GOOD", tie)
           easy == RecallDays(p, "EASY", tie)
           h == Rounded(p.intervalDays * 12, 10, tie)
<1>1. next(p, "AGAIN", 0, tie).intervalDays = 1  BY AgainScheduled DEF next
<1>2. next(p, "HARD", 0, tie).intervalDays = IF preGraduation(p) THEN 1 ELSE h
  BY HardScheduled DEF next
<1>3. next(p, "GOOD", 0, tie).intervalDays = good /\ next(p, "EASY", 0, tie).intervalDays = easy
  BY RecalledScheduled DEF next
<1>4. /\ good \in Nat /\ easy \in Nat
      /\ p.intervalDays <= good
      /\ p.repetitions # 1 => good <= easy
      /\ p.repetitions # 0 => h <= good /\ h <= easy
      /\ p.repetitions = 0 => good = 1 /\ easy = 4
  BY RecalledDays
<1>5. p.intervalDays <= h /\ h \in Nat /\ p.intervalDays \in Nat  BY CardFields, Stretched
<1>6. /\ preGraduation(p) <=> p.repetitions = 0
      /\ p.repetitions # 0 => p.intervalDays >= 1
  BY DEF Scheduled, Shaped
<1> HIDE DEF good, easy, h
<1> QED  BY <1>1, <1>2, <1>3, <1>4, <1>5, <1>6

LEMMA NewScheduled == DEFAULT_NEW_PROGRESS \in CardType /\ Scheduled(DEFAULT_NEW_PROGRESS)
BY DEF DEFAULT_NEW_PROGRESS, Scheduled, Shaped, preGraduation, CardType, LearningStates,
   EaseFactors, Stamps, Never, DEFAULT_EASE_FACTOR, MIN_EASE_FACTOR, MAX_EASE_FACTOR,
   MASTERY_MIN_INTERVAL_DAYS, MASTERY_MIN_REPETITIONS

CardsScheduled == \A w \in Words : Scheduled(progress[w].card)

(* No review is the first that was scheduled wrongly.                      *)
LEMMA PastCards ==
    ASSUME PastPossible(logs), PastScheduled(logs), NEW w \in Words, NEW k \in DOMAIN logs[w]
    PROVE  Scheduled(logs[w][k].card)
<1>1. logs[w] \in Seq(LogType)  BY DEF PastPossible
<1>2. /\ DOMAIN logs[w] = 1 .. Len(logs[w]) /\ Len(logs[w]) \in Nat
      /\ \A i \in DOMAIN logs[w] : /\ logs[w][i].rating \in Ratings
                                   /\ logs[w][i].card \in CardType
  <2>1. DOMAIN logs[w] = 1 .. Len(logs[w]) /\ Len(logs[w]) \in Nat  BY <1>1
  <2>2. \A i \in DOMAIN logs[w] : logs[w][i] \in LogType  BY <1>1
  <2>3. QED  BY <2>1, <2>2 DEF LogType
<1> DEFINE S == {i \in DOMAIN logs[w] : ~Scheduled(logs[w][i].card)}
<1>3. CASE S # {}
  <2>1. S \in SUBSET Nat  BY <1>2
  <2>2. PICK m \in S : \A j \in S : m <= j  BY <1>3, <2>1, LeastPlace
  <2>3. m \in DOMAIN logs[w] /\ m \in Nat /\ ~Scheduled(logs[w][m].card)  BY <2>1, <2>2
  <2> DEFINE before == IF m = 1 THEN DEFAULT_NEW_PROGRESS ELSE logs[w][m - 1].card
  <2>4. PICK tie \in {0, 1} : logs[w][m].card = next(before, logs[w][m].rating, 0, tie)
    BY <2>3 DEF PastScheduled
  <2>5. before \in CardType /\ Scheduled(before)
    <3>1. CASE m = 1  BY <3>1, NewScheduled
    <3>2. CASE m # 1
      <4>1. m - 1 \in DOMAIN logs[w] /\ ~(m <= m - 1)  BY <1>2, <2>3, <3>2
      <4>2. m - 1 \notin S  BY <2>2, <4>1
      <4>3. QED  BY <1>2, <3>2, <4>1, <4>2
    <3>3. QED  BY <3>1, <3>2
  <2> HIDE DEF before
  <2>6. logs[w][m].rating \in Ratings  BY <1>2, <2>3
  <2>7. QED  BY <2>3, <2>4, <2>5, <2>6, NextScheduled
<1>4. CASE S = {}  BY <1>4
<1> QED  BY <1>3, <1>4

LEMMA CardsStart == Init => CardsScheduled
<1> SUFFICES ASSUME Init, NEW w \in Words PROVE Scheduled(progress[w].card)
  BY DEF CardsScheduled
<1>1. PastPossible(logs) /\ PastScheduled(logs)  BY WordReviewAssumption DEF Init
<1>2. CASE logs[w] = <<>>
  <2>1. progress[w] = NoRow  BY <1>2 DEF Init
  <2>2. QED  BY <2>1, NewScheduled DEF NoRow
<1>3. CASE logs[w] # <<>>
  <2>1. logs[w] \in Seq(LogType)  BY <1>1 DEF PastPossible
  <2>2. Len(logs[w]) \in DOMAIN logs[w]  BY <1>3, <2>1
  <2>3. progress[w].card = logs[w][Len(logs[w])].card  BY <1>3 DEF Init, Last
  <2>4. QED  BY <1>1, <2>2, <2>3, PastCards
<1> QED  BY <1>2, <1>3

LEMMA CardsKept == Reviewing /\ CardsScheduled /\ [Next]_vars => CardsScheduled'
<1> SUFFICES ASSUME Reviewing, CardsScheduled, [Next]_vars PROVE CardsScheduled'  OBVIOUS
<1>1. CASE progress' = progress  BY <1>1 DEF CardsScheduled
<1>2. ASSUME NEW q \in Requests, Commit(q) PROVE CardsScheduled'
  <2> DEFINE l == req[q].log  v == req[q].word
  <2>1. req[q].pc = "commit"  BY <1>2 DEF Commit
  <2>2. /\ v \in Words /\ l \in LogType /\ l.word = v /\ progress[v] = req[q].before
        /\ \E tie \in {0, 1} :
              l = Log(req[q].review, v, req[q].rating, Len(logs[v]) + 1,
                      next(req[q].before.card, req[q].rating, 0, tie))
    BY <2>1, Committing
  <2>3. PICK tie \in {0, 1} : l.card = next(progress[v].card, l.rating, 0, tie)
    BY <2>2 DEF Log
  <2>4. progress \in [Words -> RowType]  BY DEF Reviewing, TypeOK
  <2>5. progress[v].card \in CardType /\ Scheduled(progress[v].card)
    BY <2>2, <2>4 DEF RowType, CardsScheduled
  <2>6. l.rating \in Ratings  BY <2>2 DEF LogType
  <2>7. progress' = [progress EXCEPT ![l.word] = [version |-> l.resultVersion, card |-> l.card]]
    BY <1>2 DEF Commit
  <2> HIDE DEF l
  <2>8. Scheduled(l.card)  BY <2>3, <2>5, <2>6, NextScheduled
  <2>9. \A w \in Words : progress'[w].card = IF w = v THEN l.card ELSE progress[w].card
    BY <2>2, <2>4, <2>7
  <2>10. QED  BY <2>8, <2>9 DEF CardsScheduled
<1>3. ASSUME NEW q \in Requests, Run(q), ~Commit(q) PROVE progress' = progress
  BY <1>3 DEF Run, Replay, IdempotencyKeyReused, PassGate, NotVisible, FindProgress,
     CreateProgress, RetryLostRace, UpdateProgress, ReviewVersionConflict, CreateLog,
     DuplicateLog, Award, Fail
<1>4. QED  BY <1>1, <1>2, <1>3 DEF Next, vars, Submit, Crash, Fail, SetVisible

(* However the reviews of a word are ordered, retried and lost, its card   *)
(* is one the rules of the scheduler leave (Shaped), and the intervals     *)
(* shown for the four answers are in order (AnswersOrdered).               *)
THEOREM CardsAlwaysShaped ==
    Spec => [](\A w \in Words : Shaped(progress[w].card) /\ AnswersOrdered(progress[w].card))
<1>1. Reviewing /\ CardsScheduled =>
        \A w \in Words : Shaped(progress[w].card) /\ AnswersOrdered(progress[w].card)
  <2> SUFFICES ASSUME Reviewing, CardsScheduled, NEW w \in Words
               PROVE  Shaped(progress[w].card) /\ AnswersOrdered(progress[w].card)
    OBVIOUS
  <2>1. progress[w].card \in CardType  BY DEF Reviewing, TypeOK, RowType
  <2>2. QED  BY <2>1, AnswersInOrder DEF CardsScheduled, Scheduled
<1>2. QED  BY <1>1, CardsStart, CardsKept, AlwaysReviewing, PTL DEF Spec
-----------------------------------------------------------------------------
(* The import (VocabImport).                                               *)

\* The place of i among the members of a set.
RankIn(S, i) == Cardinality({j \in S : j <= i})

LEMMA RanksGrow ==
    ASSUME NEW S \in SUBSET Nat, IsFiniteSet(S), NEW i \in S, NEW j \in S, i < j
    PROVE  RankIn(S, i) < RankIn(S, j)
<1> DEFINE A == {k \in S : k <= i}
           B == {k \in S : k <= j}
<1>1. IsFiniteSet(A) /\ IsFiniteSet(B)  BY FS_Subset
<1>0. i \in Nat /\ j \in Nat /\ \A k \in S : k \in Nat  OBVIOUS
<1>5. ~(j <= i) /\ j <= j /\ \A k \in S : k <= i => k <= j  BY <1>0
<1>2. A \subseteq B /\ j \in B /\ j \notin A  BY <1>5, Zenon
<1>3. Cardinality(A) \in Nat /\ Cardinality(B) \in Nat  BY <1>1, FS_CardinalityType
<1>4. Cardinality(A) <= Cardinality(B) /\ (Cardinality(B) = Cardinality(A) => B = A)
  BY <1>1, <1>2, FS_Subset
<1> QED  BY <1>2, <1>3, <1>4 DEF RankIn

(* inOrder lists every member once, in order.                              *)
LEMMA Listed ==
    ASSUME NEW S \in SUBSET Nat, IsFiniteSet(S)
    PROVE  /\ Cardinality(S) \in Nat
           /\ DOMAIN inOrder(S) = 1 .. Cardinality(S)
           /\ \A n \in 1 .. Cardinality(S) : inOrder(S)[n] \in S /\ RankIn(S, inOrder(S)[n]) = n
           /\ \A i \in S : RankIn(S, i) \in 1 .. Cardinality(S) /\ inOrder(S)[RankIn(S, i)] = i
<1> DEFINE N == Cardinality(S)
           rank == [i \in S |-> RankIn(S, i)]
<1>1. N \in Nat  BY FS_CardinalityType
<1>2. ASSUME NEW i \in S PROVE RankIn(S, i) \in 1 .. N
  <2> DEFINE A == {j \in S : j <= i}
  <2>1. IsFiniteSet(A) /\ Cardinality(A) <= N /\ i \in A  BY FS_Subset
  <2>2. Cardinality(A) \in Nat /\ Cardinality(A) # 0
    BY <2>1, FS_CardinalityType, FS_EmptySet
  <2> QED  BY <1>1, <2>1, <2>2 DEF RankIn
<1>3. \A i, j \in S : RankIn(S, i) = RankIn(S, j) => i = j
  <2> SUFFICES ASSUME NEW i \in S, NEW j \in S, i < j PROVE RankIn(S, i) # RankIn(S, j)
    OBVIOUS
  <2>1. RankIn(S, i) < RankIn(S, j)  BY RanksGrow
  <2>2. RankIn(S, i) \in Int /\ RankIn(S, j) \in Int  BY <1>2, <1>1
  <2> QED  BY <2>1, <2>2
<1>4. rank \in Injection(S, 1 .. N)  BY <1>2, <1>3 DEF Injection, IsInjective
<1>5. IsFiniteSet(1 .. N) /\ Cardinality(1 .. N) = N  BY <1>1, FS_Interval
<1>6. rank \in Surjection(S, 1 .. N)  BY <1>4, <1>5, FS_Injection
<1>7. ASSUME NEW n \in 1 .. N PROVE \E i \in S : RankIn(S, i) = n
  BY <1>6 DEF Surjection
<1>8. ASSUME NEW n \in 1 .. N PROVE inOrder(S)[n] = CHOOSE i \in S : RankIn(S, i) = n
  BY DEF inOrder, RankIn
<1>9. ASSUME NEW n \in 1 .. N PROVE inOrder(S)[n] \in S /\ RankIn(S, inOrder(S)[n]) = n
  BY <1>7, <1>8
<1>10. ASSUME NEW i \in S PROVE inOrder(S)[RankIn(S, i)] = i
  BY <1>2, <1>3, <1>9
<1> QED  BY <1>1, <1>2, <1>9, <1>10 DEF inOrder

DeckKeys == {Dataset[i].deck : i \in DOMAIN Dataset}

IsWords(words) ==
    /\ \E n \in Nat : DOMAIN words = 1 .. n
    /\ \A i \in DOMAIN words : words[i].key \in ImportKeys /\ words[i].deck \in DeckKeys

LEMMA MappedWords == IsWords(mapRows(Dataset))
<1> DEFINE S == {i \in DOMAIN Dataset : Dataset[i].kind # "blank"}
<1>1. DOMAIN Dataset = 1 .. Len(Dataset) /\ Len(Dataset) \in Nat
  BY ImportAssumption, LenProperties
<1>2. IsFiniteSet(DOMAIN Dataset)  BY <1>1, FS_Interval
<1>3. S \in SUBSET Nat /\ IsFiniteSet(S)  BY <1>1, <1>2, FS_Subset
<1>4. /\ Cardinality(S) \in Nat /\ DOMAIN inOrder(S) = 1 .. Cardinality(S)
      /\ \A n \in 1 .. Cardinality(S) : inOrder(S)[n] \in S
  BY <1>3, Listed
<1>5. mapRows(Dataset) = [n \in DOMAIN inOrder(S) |-> Dataset[inOrder(S)[n]]]
  BY DEF mapRows, picked
<1>6. \A i \in S : Dataset[i].key \in ImportKeys /\ Dataset[i].deck \in DeckKeys
  BY DEF ImportKeys, DeckKeys
<1> HIDE DEF S
<1> QED  BY <1>4, <1>5, <1>6 DEF IsWords

LEMMA LimitedWords ==
    ASSUME NEW words, IsWords(words), NEW limit \in Nat PROVE IsWords(limited(words, limit))
<1>1. PICK n \in Nat : DOMAIN words = 1 .. n  BY DEF IsWords
<1> DEFINE m == IF limit = 0 \/ n <= limit THEN n ELSE limit
<1>2. m \in Nat /\ {j \in DOMAIN words : limit = 0 \/ j <= limit} = 1 .. m  BY <1>1
<1> HIDE DEF m
<1>3. DOMAIN limited(words, limit) = 1 .. m /\ 1 .. m \subseteq DOMAIN words
  BY <1>2 DEF limited
<1>4. \A i \in 1 .. m : limited(words, limit)[i] = words[i]  BY <1>2 DEF limited
<1> QED  BY <1>2, <1>3, <1>4 DEF IsWords

(* Each text is kept at the first of its rows.                             *)
LEMMA Deduped ==
    ASSUME NEW words, IsWords(words)
    PROVE  /\ DOMAIN dedupeByText(words) \subseteq DOMAIN words
           /\ \A i \in DOMAIN dedupeByText(words) : dedupeByText(words)[i] = words[i]
           /\ \A i, j \in DOMAIN dedupeByText(words) : words[i].key = words[j].key => i = j
           /\ \A i \in DOMAIN words :
                 \E j \in DOMAIN dedupeByText(words) : words[j].key = words[i].key
<1>1. PICK n \in Nat : DOMAIN words = 1 .. n  BY DEF IsWords
<1> DEFINE S == {j \in DOMAIN words : \A k \in 1 .. j - 1 : words[k].key # words[j].key}
<1>2. dedupeByText(words) = [i \in S |-> words[i]]  BY DEF dedupeByText
<1>3. ASSUME NEW i \in S, NEW j \in S, words[i].key = words[j].key PROVE i = j
  <2>1. i \in Nat /\ j \in Nat /\ 1 <= i /\ 1 <= j  BY <1>1
  <2>2. ~(i < j)  BY <2>1, <1>3
  <2>3. ~(j < i)  BY <2>1, <1>3
  <2> QED  BY <2>1, <2>2, <2>3
<1>4. ASSUME NEW i \in DOMAIN words PROVE \E j \in S : words[j].key = words[i].key
  <2> DEFINE T == {j \in DOMAIN words : words[j].key = words[i].key}
  <2>1. T \in SUBSET Nat /\ T # {}  BY <1>1
  <2>2. PICK m \in T : \A j \in T : m <= j  BY <2>1, LeastPlace
  <2>3. ASSUME NEW k \in 1 .. m - 1 PROVE words[k].key # words[m].key
    <3>1. m \in 1 .. n /\ k \in 1 .. n /\ ~(m <= k)  BY <1>1
    <3> QED  BY <3>1, <1>1, <2>2
  <2> QED  BY <2>3
<1> HIDE DEF S
<1> QED  BY <1>2, <1>3, <1>4 DEF S

(* Every deck of the file is a group.                                      *)
LEMMA Groups ==
    ASSUME NEW words, IsWords(words)
    PROVE  /\ groupsOf(words) \in Seq(DeckKeys)
           /\ \A i \in DOMAIN words : words[i].deck # NoDeck =>
                 \E n \in DOMAIN groupsOf(words) : groupsOf(words)[n] = words[i].deck
<1>1. PICK m \in Nat : DOMAIN words = 1 .. m  BY DEF IsWords
<1> DEFINE S == {i \in DOMAIN words : /\ words[i].deck # NoDeck
                                      /\ \A j \in 1 .. i - 1 : words[j].deck # words[i].deck}
           gs == [n \in DOMAIN inOrder(S) |-> words[inOrder(S)[n]].deck]
<1>2. groupsOf(words) = gs  BY DEF groupsOf
<1>3. S \in SUBSET Nat /\ S \subseteq DOMAIN words /\ IsFiniteSet(S)
  BY <1>1, FS_Interval, FS_Subset
<1>4. ASSUME NEW i \in DOMAIN words, words[i].deck # NoDeck
      PROVE  \E j \in S : words[j].deck = words[i].deck
  <2> DEFINE T == {j \in DOMAIN words : words[j].deck = words[i].deck}
  <2>1. T \in SUBSET Nat /\ T # {}  BY <1>1
  <2>2. PICK k \in T : \A j \in T : k <= j  BY <2>1, LeastPlace
  <2>3. ASSUME NEW j \in 1 .. k - 1 PROVE words[j].deck # words[k].deck
    <3>1. k \in 1 .. m /\ j \in 1 .. m /\ ~(k <= j)  BY <1>1
    <3> QED  BY <3>1, <1>1, <2>2
  <2> QED  BY <2>3, <1>4
<1> HIDE DEF S
<1>5. /\ Cardinality(S) \in Nat /\ DOMAIN inOrder(S) = 1 .. Cardinality(S)
      /\ \A n \in 1 .. Cardinality(S) : inOrder(S)[n] \in S
      /\ \A i \in S : RankIn(S, i) \in 1 .. Cardinality(S) /\ inOrder(S)[RankIn(S, i)] = i
  BY <1>3, Listed
<1>6. gs \in [1 .. Cardinality(S) -> DeckKeys]  BY <1>3, <1>5 DEF IsWords
<1>7. gs \in Seq(DeckKeys)  BY <1>5, <1>6, SeqDef
<1>8. \A i \in S : RankIn(S, i) \in DOMAIN gs /\ gs[RankIn(S, i)] = words[i].deck  BY <1>5
<1> QED  BY <1>2, <1>4, <1>7, <1>8

(* A run, by the fields that change on its way.                            *)
RunAt(c, pc, groups, ids, create, update, failed, media) ==
    [pc |-> pc, order |-> c.order, words |-> c.words, manifest |-> c.manifest,
     groups |-> groups, ids |-> ids, create |-> create, update |-> update,
     failed |-> failed, media |-> media]
IsRun(c) == c = RunAt(c, c.pc, c.groups, c.ids, c.create, c.update, c.failed, c.media)

LEMMA RunFields ==
    ASSUME NEW c, NEW pc, NEW groups, NEW ids, NEW create, NEW update, NEW failed, NEW media
    PROVE  LET d == RunAt(c, pc, groups, ids, create, update, failed, media)
           IN  /\ IsRun(d) /\ d.order = c.order /\ d.words = c.words /\ d.manifest = c.manifest
               /\ d.pc = pc /\ d.groups = groups /\ d.ids = ids /\ d.create = create
               /\ d.update = update /\ d.failed = failed /\ d.media = media
  BY DEF RunAt, IsRun

LEMMA RunMoves ==
    ASSUME NEW c, IsRun(c), NEW x
    PROVE  /\ goingTo(c, x) = RunAt(c, x, c.groups, c.ids, c.create, c.update, c.failed, c.media)
           /\ holding(c, x) = RunAt(c, c.pc, c.groups, c.ids, c.create, c.update, c.failed, x)
           /\ pastCreate(c) = RunAt(c, c.pc, c.groups, c.ids,
                                    without(c.create, firstOf(c.create)), c.update, c.failed, c.media)
           /\ pastUpdate(c) = RunAt(c, c.pc, c.groups, c.ids, c.create,
                                    without(c.update, firstOf(c.update)), c.failed, c.media)
           /\ failing(c, x) = RunAt(c, c.pc, c.groups, c.ids, c.create, c.update,
                                    c.failed \cup {x}, c.media)
           /\ leaving(c, x) = RunAt(c, c.pc, x, c.ids, c.create, c.update,
                                    c.failed, c.media)
<1> DEFINE r == RunAt(c, c.pc, c.groups, c.ids, c.create, c.update, c.failed, c.media)
<1>1. c = r  BY DEF IsRun
<1>2. goingTo(c, x) = RunAt(c, x, c.groups, c.ids, c.create, c.update, c.failed, c.media)
  BY <1>1 DEF RunAt, goingTo
<1>3. holding(c, x) = RunAt(c, c.pc, c.groups, c.ids, c.create, c.update, c.failed, x)
  BY <1>1 DEF RunAt, holding
<1>4. pastCreate(c) = RunAt(c, c.pc, c.groups, c.ids, without(c.create, firstOf(c.create)),
                            c.update, c.failed, c.media)
  BY <1>1 DEF RunAt, pastCreate
<1>5. pastUpdate(c) = RunAt(c, c.pc, c.groups, c.ids, c.create,
                            without(c.update, firstOf(c.update)), c.failed, c.media)
  BY <1>1 DEF RunAt, pastUpdate
<1>7. failing(c, x) = RunAt(c, c.pc, c.groups, c.ids, c.create, c.update, c.failed \cup {x}, c.media)
  BY <1>1 DEF RunAt, failing
<1>8. leaving(c, x) = RunAt(c, c.pc, x, c.ids, c.create, c.update, c.failed, c.media)
  BY <1>1 DEF RunAt, leaving
<1> QED  BY <1>2, <1>3, <1>4, <1>5, <1>7, <1>8

LEMMA KnowsMore ==
    ASSUME NEW c, IsRun(c), NEW k, NEW id
    PROVE  knowing(c, k, id) =
              RunAt(c, c.pc, c.groups, with(c.ids, k, id), c.create, c.update, c.failed, c.media)
<1>1. c = RunAt(c, c.pc, c.groups, c.ids, c.create, c.update, c.failed, c.media)  BY DEF IsRun
<1> QED  BY <1>1 DEF RunAt, knowing
-----------------------------------------------------------------------------
(* The invariant.  An edited text is protected or marked as late from the  *)
(* moment it is there; what a run is about to create is not in the bank,   *)
(* but for words that came during the run; what it knows is in the bank;   *)
(* and every row is known, failed or still to be done.                     *)
WordType ==
    [key : ImportKeys, source : {"IMPORT", "ADMIN"}, text : {"import", "admin"},
     media : {None, "import", "admin"}, young : BOOLEAN, edited : BOOLEAN, run : Nat,
     late : BOOLEAN]
RunPcs == {"create", "update", "write", "decks", "attach", "imported"}

OwnText(x) == x.text = "admin" => x.source = "ADMIN" \/ x.edited \/ x.late
Uploads(manifest, assets) ==
    \A k \in DOMAIN manifest : manifest[k].status = "uploaded" => k \in assets
Honest(manifest, assets) == manifest # None => Uploads(manifest, assets)
OnceIn(words) ==
    \A i, j \in DOMAIN words :
        i < j /\ words[j].source = "IMPORT" /\ words[i].key = words[j].key =>
            words[i].source = "ADMIN" /\ words[i].run = words[j].run
Distinct(f) == \A i, j \in DOMAIN f : f[i] = f[j] => i = j

BankOk(words, assets) ==
    /\ words \in Seq(WordType) /\ OnceIn(words)
    /\ \A w \in DOMAIN words : /\ OwnText(words[w])
                               /\ words[w].media = "import" => words[w].key \in assets
DeckOk(ids, words) ==
    /\ ids \in Seq(Nat) /\ Distinct(ids) /\ Len(ids) <= MaxDeckWords
    /\ \A i \in DOMAIN ids : ids[i] \in DOMAIN words
ShelfOk(decks, words) == \A d \in DOMAIN decks : DeckOk(decks[d], words)
FilesOk(f, assets) ==
    /\ f = [mapped |-> f.mapped, errors |-> f.errors, manifest |-> f.manifest]
    /\ f.mapped # None => f.mapped = mapRows(Dataset)
    /\ Honest(f.manifest, assets)

TaskInv(c, assets) ==
    /\ IsRun(c) /\ c.pc \in RunPcs /\ IsWords(c.words) /\ c.groups \in Seq(DeckKeys)
    /\ Honest(c.manifest, assets)
CreateInv(c, words, n) ==
    /\ DOMAIN c.create \subseteq Nat /\ Distinct(c.create)
    /\ c.pc # "create" => DOMAIN c.create = {}
    /\ \A i \in DOMAIN c.create :
          /\ c.create[i] \in ImportKeys
          /\ \A w \in DOMAIN words : words[w].key = c.create[i] =>
                words[w].source = "ADMIN" /\ words[w].run = n
UpdateInv(c, words) ==
    /\ DOMAIN c.update \subseteq Nat
    /\ c.pc \notin {"create", "update", "write"} => DOMAIN c.update = {}
    /\ \A i \in DOMAIN c.update :
          /\ c.update[i].id \in DOMAIN words
          /\ words[c.update[i].id].key = c.update[i].key
          /\ words[c.update[i].id].text = "admin" =>
                c.order.force \/ words[c.update[i].id].late
MediumOk(media, x, assets) ==
    /\ x.media = "admin" => media = "admin" \/ x.late
    /\ media \in {None, "import", "admin"} /\ (media = "import" => x.key \in assets)
WriteInv(c, words, assets) ==
    c.pc = "write" => /\ DOMAIN c.update # {} /\ ~c.order.dry
                      /\ MediumOk(c.media, words[c.update[firstOf(c.update)].id], assets)
IdsInv(c, words) ==
    \A k \in DOMAIN c.ids : ~c.order.dry => c.ids[k] \in DOMAIN words /\ words[c.ids[k]].key = k
Met(c, k) ==
    \/ k \in DOMAIN c.ids \/ k \in c.failed
    \/ \E j \in DOMAIN c.create : c.create[j] = k
    \/ \E j \in DOMAIN c.update : c.update[j].key = k
Covered(c) == \A i \in DOMAIN c.words : Met(c, c.words[i].key)

\* Row i of a deck with these ids: its word is there, or there was no room.
Placed(words, i, ids, bk) ==
    \/ \E n \in DOMAIN ids : bk[ids[n]].key = words[i].key
    \/ Len(ids) + Cardinality(repeatsBefore(words, i)) >= MaxDeckWords
InDeck(c, i, bk, decks) ==
    \/ c.words[i].key \in c.failed
    \/ c.words[i].deck \in DOMAIN decks /\ Placed(c.words, i, decks[c.words[i].deck], bk)
GroupsInv(c, bk, decks) ==
    /\ ~c.order.dry => \A i \in DOMAIN c.words : c.words[i].deck # NoDeck =>
          InDeck(c, i, bk, decks) \/ \E n \in DOMAIN c.groups : c.groups[n] = c.words[i].deck
    /\ c.pc = "attach" => c.groups # <<>> /\ (~c.order.dry => Head(c.groups) \in DOMAIN decks)
    /\ c.pc = "imported" => c.groups = <<>>

RunInv(c, bk, decks, assets, n) ==
    /\ TaskInv(c, assets) /\ CreateInv(c, bk, n) /\ UpdateInv(c, bk) /\ WriteInv(c, bk, assets)
    /\ IdsInv(c, bk) /\ Covered(c) /\ GroupsInv(c, bk, decks)
CliInv(c, bk, decks, assets, n) ==
    \/ c.pc \in {"idle", "publish"}
    \/ c.pc = "upload" /\ Uploads(c.manifest, assets)
    \/ RunInv(c, bk, decks, assets, n)

ImportInv ==
    /\ BankOk(bank, cloud) /\ ShelfOk(shelf, bank) /\ FilesOk(files, cloud)
    /\ bounds \in [orders : Nat, crashes : Nat, edits : Nat]
    /\ CliInv(cli, bank, shelf, cloud, bounds.orders)

LEMMA ImportStarts == ImportInit => ImportInv
<1> SUFFICES ASSUME ImportInit PROVE ImportInv  OBVIOUS
<1>1. BankOk(bank, cloud)
  <2>1. bank = <<>>  BY DEF ImportInit
  <2>2. <<>> \in Seq(WordType) /\ DOMAIN <<>> = {}  BY EmptySeq
  <2> QED  BY <2>1, <2>2 DEF BankOk, OnceIn
<1>2. ShelfOk(shelf, bank)
  <2>1. shelf = <<>> /\ DOMAIN <<>> = {}  BY DEF ImportInit
  <2> QED  BY <2>1 DEF ShelfOk
<1>3. FilesOk(files, cloud)  BY DEF ImportInit, FilesOk, Honest
<1>4. CliInv(cli, bank, shelf, cloud, bounds.orders)
  <2>1. cli.pc = "idle"  BY DEF ImportInit, NotRunning
  <2> QED  BY <2>1 DEF CliInv
<1> QED  BY <1>1, <1>2, <1>3, <1>4 DEF ImportInit, ImportInv
-----------------------------------------------------------------------------
(* The bank.                                                               *)
Grown(bk, new) ==
    \A w \in DOMAIN bk : /\ w \in DOMAIN new /\ new[w].key = bk[w].key
                         /\ new[w].source = bk[w].source /\ new[w].run = bk[w].run

LEMMA AppendsWord ==
    ASSUME NEW bk, NEW assets, BankOk(bk, assets), NEW x \in WordType, OwnText(x),
           x.media = "import" => x.key \in assets,
           x.source = "IMPORT" => \A w \in DOMAIN bk : bk[w].key = x.key =>
                                     bk[w].source = "ADMIN" /\ bk[w].run = x.run
    PROVE  /\ BankOk(Append(bk, x), assets) /\ Grown(bk, Append(bk, x))
           /\ DOMAIN Append(bk, x) = DOMAIN bk \cup {Len(bk) + 1}
           /\ Append(bk, x)[Len(bk) + 1] = x
           /\ \A w \in DOMAIN bk : Append(bk, x)[w] = bk[w]
<1> DEFINE new == Append(bk, x)
           N == Len(bk)
<1>1. bk \in Seq(WordType) /\ N \in Nat /\ DOMAIN bk = 1 .. N
  BY LenProperties DEF BankOk
<1>2. /\ new \in Seq(WordType) /\ DOMAIN new = 1 .. N + 1 /\ new[N + 1] = x
      /\ \A w \in 1 .. N : new[w] = bk[w]
  BY <1>1
<1> HIDE DEF new, N
<1>3. DOMAIN new = DOMAIN bk \cup {N + 1}  BY <1>1, <1>2
<1>4. ASSUME NEW i \in DOMAIN new, NEW j \in DOMAIN new, i < j, new[j].source = "IMPORT",
             new[i].key = new[j].key
      PROVE  new[i].source = "ADMIN" /\ new[i].run = new[j].run
  <2>1. i \in 1 .. N /\ new[i] = bk[i]  BY <1>2, <1>4, <1>1
  <2>2. CASE j = N + 1  BY <2>1, <2>2, <1>1, <1>2, <1>4
  <2>3. CASE j # N + 1
    <3>1. j \in 1 .. N /\ new[j] = bk[j]  BY <2>3, <1>1, <1>2
    <3> QED  BY <3>1, <2>1, <1>1, <1>4 DEF BankOk, OnceIn
  <2> QED  BY <2>2, <2>3
<1>5. OnceIn(new)  BY <1>4 DEF OnceIn
<1>6. ASSUME NEW w \in DOMAIN new
      PROVE  OwnText(new[w]) /\ (new[w].media = "import" => new[w].key \in assets)
  <2>1. CASE w = N + 1  BY <2>1, <1>2
  <2>2. CASE w # N + 1
    <3>1. w \in DOMAIN bk /\ new[w] = bk[w]  BY <2>2, <1>1, <1>2
    <3> QED  BY <3>1 DEF BankOk
  <2> QED  BY <2>1, <2>2
<1>7. BankOk(new, assets)  BY <1>2, <1>5, <1>6 DEF BankOk
<1>8. Grown(bk, new)  BY <1>1, <1>2, <1>3 DEF Grown
<1> QED  BY <1>1, <1>2, <1>3, <1>7, <1>8 DEF new, N

LEMMA ReplacesWord ==
    ASSUME NEW bk, NEW assets, BankOk(bk, assets), NEW id \in DOMAIN bk, NEW x \in WordType,
           OwnText(x), x.media = "import" => x.key \in assets,
           x.key = bk[id].key, x.source = bk[id].source, x.run = bk[id].run
    PROVE  LET new == [bk EXCEPT ![id] = x]
           IN  /\ BankOk(new, assets) /\ Grown(bk, new) /\ DOMAIN new = DOMAIN bk
               /\ new[id] = x /\ \A w \in DOMAIN bk : w # id => new[w] = bk[w]
<1> DEFINE new == [bk EXCEPT ![id] = x]
<1>1. bk \in Seq(WordType) /\ DOMAIN bk = 1 .. Len(bk)  BY LenProperties DEF BankOk
<1>2. new \in Seq(WordType)  BY <1>1, ExceptSeq
<1>3. /\ DOMAIN new = DOMAIN bk /\ new[id] = x
      /\ \A w \in DOMAIN bk : w # id => new[w] = bk[w]
  OBVIOUS
<1> HIDE DEF new
<1>4. Grown(bk, new)  BY <1>3 DEF Grown
<1>5. OnceIn(new)  BY <1>3, <1>4 DEF OnceIn, Grown, BankOk
<1>6. \A w \in DOMAIN new : OwnText(new[w]) /\ (new[w].media = "import" => new[w].key \in assets)
  BY <1>3 DEF BankOk
<1>7. BankOk(new, assets)  BY <1>2, <1>5, <1>6 DEF BankOk
<1> QED  BY <1>3, <1>4, <1>7 DEF new

LEMMA DecksStay ==
    ASSUME NEW bk, NEW new, NEW decks, ShelfOk(decks, bk), Grown(bk, new)
    PROVE  ShelfOk(decks, new)
  BY DEF ShelfOk, DeckOk, Grown

LEMMA GroupsStay ==
    ASSUME NEW c, NEW bk, NEW new, NEW decks, GroupsInv(c, bk, decks), ShelfOk(decks, bk),
           Grown(bk, new)
    PROVE  GroupsInv(c, new, decks)
<1>1. ASSUME NEW i, InDeck(c, i, bk, decks) PROVE InDeck(c, i, new, decks)
  <2> DEFINE d == c.words[i].deck
  <2>1. CASE d \in DOMAIN decks /\ Placed(c.words, i, decks[d], bk)
    <3>1. \A n \in DOMAIN decks[d] : decks[d][n] \in DOMAIN bk  BY <2>1 DEF ShelfOk, DeckOk
    <3>2. Placed(c.words, i, decks[d], new)  BY <2>1, <3>1 DEF Placed, Grown
    <3> QED  BY <2>1, <3>2 DEF InDeck
  <2> QED  BY <1>1, <2>1 DEF InDeck
<1> QED  BY <1>1 DEF GroupsInv

(* What other actors do to the bank and the cloud leaves a run sound.      *)
LEMMA RunStays ==
    ASSUME NEW c, NEW bk, NEW new, NEW decks, NEW assets, NEW more, NEW n,
           RunInv(c, bk, decks, assets, n), ShelfOk(decks, bk), Grown(bk, new),
           assets \subseteq more,
           \A w \in DOMAIN bk : \/ c.pc \notin {"create", "update", "write"} \/ new[w].late
                                \/ /\ new[w].text = bk[w].text /\ new[w].media = bk[w].media
                                   /\ new[w].late = bk[w].late,
           \A w \in DOMAIN new : \/ w \in DOMAIN bk \/ c.pc # "create"
                                 \/ new[w].source = "ADMIN" /\ new[w].run = n
    PROVE  RunInv(c, new, decks, more, n)
<1>1. TaskInv(c, more)  BY DEF RunInv, TaskInv, Honest, Uploads
<1>2. CreateInv(c, new, n)  BY DEF RunInv, CreateInv, Grown
<1>3. UpdateInv(c, new)  BY DEF RunInv, UpdateInv, Grown
<1>4. ASSUME c.pc = "write" PROVE WriteInv(c, new, more)
  <2> DEFINE f == firstOf(c.update)
             id == c.update[f].id
  <2>1. DOMAIN c.update # {} /\ ~c.order.dry /\ MediumOk(c.media, bk[id], assets)
    BY <1>4 DEF RunInv, WriteInv
  <2>2. f \in DOMAIN c.update
    <3>1. DOMAIN c.update \in SUBSET Nat  BY DEF RunInv, UpdateInv
    <3> QED  BY <2>1, <3>1, LeastPlace DEF firstOf
  <2>3. id \in DOMAIN bk  BY <2>2 DEF RunInv, UpdateInv
  <2> HIDE DEF id
  <2>4. new[id].late \/ (new[id].media = bk[id].media /\ new[id].late = bk[id].late)
    BY <2>3, <1>4
  <2>5. new[id].key = bk[id].key  BY <2>3 DEF Grown
  <2>6. MediumOk(c.media, new[id], more)  BY <2>1, <2>4, <2>5 DEF MediumOk
  <2> QED  BY <2>1, <2>6 DEF WriteInv, id
<1>5. WriteInv(c, new, more)  BY <1>4 DEF WriteInv
<1>6. IdsInv(c, new)  BY DEF RunInv, IdsInv, Grown
<1>7. GroupsInv(c, new, decks)  BY GroupsStay DEF RunInv
<1> QED  BY <1>1, <1>2, <1>3, <1>5, <1>6, <1>7 DEF RunInv
-----------------------------------------------------------------------------
(* The words of a run.                                                     *)
LEMMA FirstPlace ==
    ASSUME NEW f, DOMAIN f \subseteq Nat, DOMAIN f # {}
    PROVE  firstOf(f) \in DOMAIN f
<1>1. DOMAIN f \in SUBSET Nat  OBVIOUS
<1> QED  BY <1>1, LeastPlace DEF firstOf

LEMMA MetStays ==
    ASSUME NEW c, NEW d, Covered(c), d.words = c.words,
           \A k \in ImportKeys : Met(c, k) => Met(d, k), IsWords(c.words)
    PROVE  Covered(d)
  BY DEF Covered, IsWords

LEMMA GroupsGrow ==
    ASSUME NEW c, NEW d, NEW bk, NEW decks, GroupsInv(c, bk, decks), c.failed \subseteq d.failed,
           d.words = c.words, d.groups = c.groups, d.order = c.order,
           d.pc = "attach" => c.pc = "attach", d.pc = "imported" => c.pc = "imported"
    PROVE  GroupsInv(d, bk, decks)
<1>1. \A i : InDeck(c, i, bk, decks) => InDeck(d, i, bk, decks)  BY DEF InDeck
<1> QED  BY <1>1 DEF GroupsInv

LEMMA LeavesCreate ==
    ASSUME NEW c, NEW bk, NEW new, NEW decks, NEW assets, NEW n, NEW ids, NEW failed,
           RunInv(c, bk, decks, assets, n), ShelfOk(decks, bk), Grown(bk, new),
           c.pc = "create", DOMAIN c.create # {},
           \A w \in DOMAIN bk : new[w] = bk[w],
           \A w \in DOMAIN new : w \in DOMAIN bk \/ new[w].key = c.create[firstOf(c.create)],
           DOMAIN c.ids \subseteq DOMAIN ids, c.failed \subseteq failed,
           c.create[firstOf(c.create)] \in DOMAIN ids \cup failed,
           \A k \in DOMAIN ids : ~c.order.dry => ids[k] \in DOMAIN new /\ new[ids[k]].key = k
    PROVE  RunInv(RunAt(c, c.pc, c.groups, ids, without(c.create, firstOf(c.create)), c.update,
                        failed, c.media), new, decks, assets, n)
<1> DEFINE f == firstOf(c.create)
           k == c.create[f]
           rest == without(c.create, f)
           d == RunAt(c, c.pc, c.groups, ids, rest, c.update, failed, c.media)
<1>1. f \in DOMAIN c.create  BY FirstPlace DEF RunInv, CreateInv
<1>2. DOMAIN rest = DOMAIN c.create \ {f} /\ \A i \in DOMAIN rest : rest[i] = c.create[i]
  BY DEF without
<1>3. \A i \in DOMAIN rest : rest[i] # k  BY <1>1, <1>2 DEF RunInv, CreateInv, Distinct
<1> HIDE DEF f, rest
<1>4. /\ IsRun(d) /\ d.order = c.order /\ d.words = c.words /\ d.manifest = c.manifest
      /\ d.pc = "create" /\ d.groups = c.groups /\ d.ids = ids /\ d.create = rest
      /\ d.update = c.update /\ d.failed = failed /\ d.media = c.media
  BY RunFields
<1> HIDE DEF d
<1>5. TaskInv(d, assets)  BY <1>4 DEF RunInv, TaskInv
<1>6. CreateInv(d, new, n)
  <2>1. ASSUME NEW i \in DOMAIN rest, NEW w \in DOMAIN new, new[w].key = rest[i]
        PROVE  new[w].source = "ADMIN" /\ new[w].run = n
    <3>1. w \in DOMAIN bk /\ new[w] = bk[w]  BY <2>1, <1>3 DEF f
    <3> QED  BY <3>1, <2>1, <1>2 DEF RunInv, CreateInv
  <2>2. DOMAIN rest \subseteq Nat /\ Distinct(rest)
    BY <1>2 DEF RunInv, CreateInv, Distinct
  <2>3. \A i \in DOMAIN rest : rest[i] \in ImportKeys  BY <1>2 DEF RunInv, CreateInv
  <2> QED  BY <2>1, <2>2, <2>3, <1>4 DEF CreateInv
<1>7. UpdateInv(d, new)  BY <1>4 DEF RunInv, UpdateInv, Grown
<1>8. WriteInv(d, new, assets)  BY <1>4 DEF WriteInv
<1>9. IdsInv(d, new)  BY <1>4 DEF IdsInv
<1>10. Covered(d)
  <2>1. ASSUME NEW x, Met(c, x) PROVE Met(d, x)
    <3>1. CASE x = k  BY <3>1, <1>4 DEF Met, f
    <3>2. CASE x # k
      <4>1. ASSUME NEW j \in DOMAIN c.create, c.create[j] = x PROVE j \in DOMAIN rest /\ rest[j] = x
        BY <4>1, <3>2, <1>2
      <4> QED  BY <4>1, <2>1, <1>4 DEF Met
    <3> QED  BY <3>1, <3>2
  <2> QED  BY <2>1, <1>4, MetStays DEF RunInv, TaskInv
<1>11. GroupsInv(d, new, decks)
  <2>1. GroupsInv(c, new, decks)  BY GroupsStay DEF RunInv
  <2> QED  BY <2>1, <1>4, GroupsGrow
<1>12. RunInv(d, new, decks, assets, n)
  BY <1>5, <1>6, <1>7, <1>8, <1>9, <1>10, <1>11 DEF RunInv
<1> QED  BY <1>12 DEF d, rest, f

LEMMA LeavesUpdate ==
    ASSUME NEW c, NEW bk, NEW new, NEW decks, NEW assets, NEW n, NEW ids, NEW failed, NEW media,
           RunInv(c, bk, decks, assets, n), ShelfOk(decks, bk), Grown(bk, new),
           c.pc \in {"update", "write"}, DOMAIN c.update # {},
           \A w \in DOMAIN bk : /\ new[w].late = bk[w].late
                                /\ new[w].text = "admin" => bk[w].text = "admin",
           DOMAIN c.ids \subseteq DOMAIN ids, c.failed \subseteq failed,
           c.update[firstOf(c.update)].key \in DOMAIN ids \cup failed,
           \A k \in DOMAIN ids : ~c.order.dry => ids[k] \in DOMAIN new /\ new[ids[k]].key = k
    PROVE  RunInv(RunAt(c, "update", c.groups, ids, c.create, without(c.update, firstOf(c.update)),
                        failed, media), new, decks, assets, n)
<1> DEFINE f == firstOf(c.update)
           k == c.update[f].key
           rest == without(c.update, f)
           d == RunAt(c, "update", c.groups, ids, c.create, rest, failed, media)
<1>2. DOMAIN rest = DOMAIN c.update \ {f} /\ \A i \in DOMAIN rest : rest[i] = c.update[i]
  BY DEF without
<1> HIDE DEF f, rest
<1>4. /\ IsRun(d) /\ d.order = c.order /\ d.words = c.words /\ d.manifest = c.manifest
      /\ d.pc = "update" /\ d.groups = c.groups /\ d.ids = ids /\ d.create = c.create
      /\ d.update = rest /\ d.failed = failed /\ d.media = media
  BY RunFields
<1> HIDE DEF d
<1>5. TaskInv(d, assets)  BY <1>4 DEF RunInv, TaskInv, RunPcs
<1>6. CreateInv(d, new, n)
  <2>1. DOMAIN c.create = {}  BY DEF RunInv, CreateInv
  <2> QED  BY <2>1, <1>4 DEF CreateInv, Distinct
<1>7. UpdateInv(d, new)
  <2>1. \A i \in DOMAIN rest : i \in DOMAIN c.update /\ rest[i] = c.update[i]  BY <1>2
  <2> QED  BY <2>1, <1>2, <1>4 DEF RunInv, UpdateInv, Grown
<1>8. WriteInv(d, new, assets)  BY <1>4 DEF WriteInv
<1>9. IdsInv(d, new)  BY <1>4 DEF IdsInv
<1>10. Covered(d)
  <2>1. ASSUME NEW x, Met(c, x) PROVE Met(d, x)
    <3>1. CASE x = k  BY <3>1, <1>4 DEF Met, f
    <3>2. CASE x # k
      <4>1. ASSUME NEW j \in DOMAIN c.update, c.update[j].key = x
            PROVE  j \in DOMAIN rest /\ rest[j].key = x
        BY <4>1, <3>2, <1>2
      <4> QED  BY <4>1, <2>1, <1>4 DEF Met
    <3> QED  BY <3>1, <3>2
  <2> QED  BY <2>1, <1>4, MetStays DEF RunInv, TaskInv
<1>11. GroupsInv(d, new, decks)
  <2>1. GroupsInv(c, new, decks)  BY GroupsStay DEF RunInv
  <2> QED  BY <2>1, <1>4, GroupsGrow
<1>12. RunInv(d, new, decks, assets, n)
  BY <1>5, <1>6, <1>7, <1>8, <1>9, <1>10, <1>11 DEF RunInv
<1> QED  BY <1>12 DEF d, rest, f
-----------------------------------------------------------------------------
(* One lemma per action of the run.                                        *)
Running == RunInv(cli, bank, shelf, cloud, bounds.orders)
RestOk == /\ BankOk(bank, cloud) /\ ShelfOk(shelf, bank) /\ FilesOk(files, cloud)
          /\ bounds \in [orders : Nat, crashes : Nat, edits : Nat]

LEMMA ARunRuns ==
    ASSUME ImportInv, cli.pc \in RunPcs
    PROVE  Running
  BY DEF ImportInv, CliInv, Running, RunPcs

LEMMA StartsSound ==
    ASSUME ImportInv, NEW order \in Orders, StartImport(order), NEW n
    PROVE  RunInv(cli', bank, shelf, cloud, n)
<1> DEFINE words == limited(files.mapped, order.limit)
           unique == dedupeByText(words)
<1>1. PICK found \in Readings :
        LET rows(what) == {i \in DOMAIN unique : fate(unique[i].key, found, order) = what}
        IN  cli' = [pc |-> "create", order |-> order, words |-> words,
                    manifest |-> files.manifest, groups |-> groupsOf(words),
                    ids |-> [k \in {unique[i].key : i \in rows("keep")} |-> found[k]],
                    create |-> [i \in rows("create") |-> unique[i].key],
                    update |-> [i \in rows("update") |->
                                  [key |-> unique[i].key, id |-> found[unique[i].key]]],
                    failed |-> {}, media |-> None]
  BY DEF StartImport
<1>2. IsWords(words)
  <2>1. files.mapped = mapRows(Dataset)  BY DEF StartImport, ImportInv, FilesOk
  <2> QED  BY <2>1, MappedWords, LimitedWords, ImportAssumption
<1> HIDE DEF words
<1>3. /\ DOMAIN unique \subseteq DOMAIN words
      /\ \A i \in DOMAIN unique : unique[i] = words[i]
      /\ \A i, j \in DOMAIN unique : words[i].key = words[j].key => i = j
      /\ \A i \in DOMAIN words : \E j \in DOMAIN unique : words[j].key = words[i].key
  BY <1>2, Deduped
<1>4. DOMAIN words \subseteq Nat  BY <1>2 DEF IsWords
<1> HIDE DEF unique
<1> DEFINE rows(what) == {i \in DOMAIN unique : fate(unique[i].key, found, order) = what}
           create == [i \in rows("create") |-> unique[i].key]
           update == [i \in rows("update") |->
                        [key |-> unique[i].key, id |-> found[unique[i].key]]]
           ids == [k \in {unique[i].key : i \in rows("keep")} |-> found[k]]
<1>5. /\ IsRun(cli') /\ cli'.order = order /\ cli'.words = words
      /\ cli'.manifest = files.manifest /\ cli'.pc = "create" /\ cli'.groups = groupsOf(words)
      /\ cli'.ids = ids /\ cli'.create = create /\ cli'.update = update
      /\ cli'.failed = {} /\ cli'.media = None
  BY <1>1 DEF IsRun, RunAt
<1>6. \A i \in DOMAIN unique : unique[i].key \in ImportKeys
  BY <1>2, <1>3 DEF IsWords
<1>7. \A k \in known : found[k] \in DOMAIN bank /\ bank[found[k]].key = k
  BY DEF Readings, rowsOf
<1>8. ASSUME NEW i \in DOMAIN unique
      PROVE  fate(unique[i].key, found, order) \in {"create", "keep", "update"}
  BY DEF fate
<1>9. TaskInv(cli', cloud)
  BY <1>2, <1>5, Groups DEF TaskInv, RunPcs, ImportInv, FilesOk
<1>10. CreateInv(cli', bank, n)
  <2>1. ASSUME NEW i \in rows("create"), NEW w \in DOMAIN bank PROVE bank[w].key # unique[i].key
    <3>1. unique[i].key \notin known  BY DEF fate
    <3> QED  BY <3>1, <1>6 DEF known, rowsOf
  <2>2. Distinct(create)  BY <1>3 DEF Distinct
  <2>3. DOMAIN create = rows("create") /\ rows("create") \subseteq Nat  BY <1>3, <1>4
  <2>4. \A i \in rows("create") : create[i] = unique[i].key  OBVIOUS
  <2>5. \A i \in rows("create") : unique[i].key \in ImportKeys  BY <1>6
  <2> HIDE DEF create, rows
  <2> QED  BY <1>5, <2>1, <2>2, <2>3, <2>4, <2>5 DEF CreateInv
<1>11. UpdateInv(cli', bank)
  <2>1. ASSUME NEW i \in rows("update")
        PROVE  LET k == unique[i].key
               IN  /\ k \in known
                   /\ isProtected(bank[found[k]]) => order.force
    <3>1. fate(unique[i].key, found, order) = "update"  OBVIOUS
    <3> QED  BY <3>1 DEF fate
  <2>2. ASSUME NEW i \in rows("update")
        PROVE  LET u == update[i]
               IN  /\ u.id \in DOMAIN bank /\ bank[u.id].key = u.key
                   /\ bank[u.id].text = "admin" => order.force \/ bank[u.id].late
    <3> DEFINE k == unique[i].key
               x == bank[found[k]]
    <3>1. update[i].key = k /\ update[i].id = found[k]  OBVIOUS
    <3>2. found[k] \in DOMAIN bank /\ x.key = k  BY <1>7, <2>1
    <3>3. OwnText(x)  BY <3>2 DEF ImportInv, BankOk
    <3>4. x.text = "admin" => order.force \/ x.late  BY <3>3, <2>1 DEF OwnText, isProtected
    <3> QED  BY <3>1, <3>2, <3>4
  <2>3. DOMAIN update = rows("update") /\ rows("update") \subseteq Nat  BY <1>3, <1>4
  <2> HIDE DEF update, rows
  <2> QED  BY <1>5, <2>2, <2>3 DEF UpdateInv
<1>12. WriteInv(cli', bank, cloud)  BY <1>5 DEF WriteInv
<1>13. IdsInv(cli', bank)
  <2>1. ASSUME NEW k \in DOMAIN ids PROVE ids[k] \in DOMAIN bank /\ bank[ids[k]].key = k
    <3>1. PICK i \in rows("keep") : k = unique[i].key  OBVIOUS
    <3>2. fate(k, found, order) = "keep"  BY <3>1
    <3>3. k \in known  BY <3>2 DEF fate
    <3>4. ids[k] = found[k]  OBVIOUS
    <3> QED  BY <3>3, <3>4, <1>7
  <2> HIDE DEF ids
  <2> QED  BY <2>1, <1>5 DEF IdsInv
<1>14. Covered(cli')
  <2> SUFFICES ASSUME NEW i \in DOMAIN words PROVE Met(cli', words[i].key)
    BY <1>5 DEF Covered
  <2>1. PICK j \in DOMAIN unique : unique[j].key = words[i].key  BY <1>3
  <2> DEFINE k == unique[j].key
  <2>2. CASE fate(k, found, order) = "create"
    <3>1. j \in DOMAIN create /\ create[j] = k  BY <2>2
    <3> HIDE DEF create
    <3> QED  BY <3>1, <2>1, <1>5 DEF Met
  <2>3. CASE fate(k, found, order) = "update"
    <3>1. j \in DOMAIN update /\ update[j].key = k  BY <2>3
    <3> HIDE DEF update
    <3> QED  BY <3>1, <2>1, <1>5 DEF Met
  <2>4. CASE fate(k, found, order) = "keep"
    <3>1. j \in rows("keep")  BY <2>4
    <3>2. k \in DOMAIN ids  BY <3>1
    <3> HIDE DEF ids
    <3> QED  BY <3>2, <2>1, <1>5 DEF Met
  <2> QED  BY <2>2, <2>3, <2>4, <1>8
<1>15. GroupsInv(cli', bank, shelf)
  BY <1>2, <1>5, Groups DEF GroupsInv
<1> QED
  BY <1>9, <1>10, <1>11, <1>12, <1>13, <1>14, <1>15 DEF RunInv

LEMMA NewWordTyped ==
    ASSUME NEW k \in ImportKeys, NEW source \in {"IMPORT", "ADMIN"},
           NEW text \in {"import", "admin"}, NEW media \in {None, "import", "admin"},
           NEW young \in BOOLEAN, NEW edited \in BOOLEAN, NEW run \in Nat, NEW late \in BOOLEAN
    PROVE  [key |-> k, source |-> source, text |-> text, media |-> media, young |-> young,
            edited |-> edited, run |-> run, late |-> late] \in WordType
  BY DEF WordType

LEMMA MediaAddress ==
    ASSUME NEW manifest, NEW assets, Honest(manifest, assets), NEW k
    PROVE  /\ getMediaUrl(manifest, k) \in {None, "import"}
           /\ getMediaUrl(manifest, k) = "import" => k \in assets
  BY ImportAssumption DEF getMediaUrl, Honest, Uploads

LEMMA CreateWordSound ==
    ASSUME ImportInv, CreateWord PROVE ImportInv'
<1>1. Running /\ IsRun(cli) /\ cli.pc = "create" /\ DOMAIN cli.create # {}
  BY ARunRuns DEF CreateWord, RunPcs, Running, RunInv, TaskInv
<1>2. firstOf(cli.create) \in DOMAIN cli.create
  BY <1>1, FirstPlace DEF Running, RunInv, CreateInv
<1> DEFINE f == firstOf(cli.create)
           k == toCreate
           rest == without(cli.create, f)
           p == pastCreate(cli)
<1>3. /\ k = cli.create[f] /\ k \in ImportKeys
      /\ \A w \in DOMAIN bank : bank[w].key = k =>
            bank[w].source = "ADMIN" /\ bank[w].run = bounds.orders
  BY <1>1, <1>2 DEF toCreate, Running, RunInv, CreateInv
<1>4. p = RunAt(cli, cli.pc, cli.groups, cli.ids, rest, cli.update, cli.failed, cli.media)
  BY <1>1, RunMoves
<1>5. /\ IsRun(p) /\ p.order = cli.order /\ p.words = cli.words /\ p.manifest = cli.manifest
      /\ p.pc = cli.pc /\ p.groups = cli.groups /\ p.ids = cli.ids /\ p.create = rest
      /\ p.update = cli.update /\ p.failed = cli.failed /\ p.media = cli.media
  BY <1>4, RunFields
<1> HIDE DEF p, rest
<1>6. ASSUME NEW id PROVE knowing(p, k, id) =
          RunAt(cli, cli.pc, cli.groups, with(cli.ids, k, id), rest, cli.update, cli.failed, cli.media)
  <2>1. knowing(p, k, id) = RunAt(p, p.pc, p.groups, with(p.ids, k, id), p.create, p.update,
                                  p.failed, p.media)
    BY <1>5, KnowsMore
  <2> QED  BY <2>1, <1>5 DEF RunAt
<1> DEFINE failed == cli.failed \cup {k}
<1>7. failing(p, k) =
          RunAt(cli, cli.pc, cli.groups, cli.ids, rest, cli.update, failed, cli.media)
  <2>1. failing(p, k) = RunAt(p, p.pc, p.groups, p.ids, p.create, p.update, p.failed \cup {k}, p.media)
    BY <1>5, RunMoves
  <2>2. p.failed \cup {k} = failed  BY <1>5
  <2> HIDE DEF failed
  <2> QED  BY <2>1, <2>2, <1>5 DEF RunAt
<1> HIDE DEF k, f
<1>8. ASSUME NEW id PROVE DOMAIN with(cli.ids, k, id) = DOMAIN cli.ids \cup {k}
                          /\ \A x \in DOMAIN with(cli.ids, k, id) :
                                with(cli.ids, k, id)[x] = IF x = k THEN id ELSE cli.ids[x]
  BY DEF with
<1>9. ShelfOk(shelf, bank) /\ BankOk(bank, cloud) /\ IdsInv(cli, bank)
  BY <1>1 DEF ImportInv, Running, RunInv
<1>10. Grown(bank, bank)  BY DEF Grown
<1>11. CASE cli.order.dry /\ cli' = knowing(p, k, 0) /\ UNCHANGED bank
  <2>1. RunInv(cli', bank, shelf, cloud, bounds.orders)
    BY <1>1, <1>3, <1>6, <1>8, <1>9, <1>10, <1>11, LeavesCreate DEF Running, f, rest
  <2> QED  BY <2>1, <1>11 DEF CreateWord, ImportInv, CliInv
<1>12. CASE ~cli.order.dry /\ cli' = failing(p, k) /\ UNCHANGED bank
  <2>1. \A x \in DOMAIN cli.ids : cli.ids[x] \in DOMAIN bank /\ bank[cli.ids[x]].key = x
    BY <1>9, <1>12 DEF IdsInv
  <2>3. cli.failed \subseteq failed /\ k \in DOMAIN cli.ids \cup failed  OBVIOUS
  <2> HIDE DEF failed
  <2>2. RunInv(cli', bank, shelf, cloud, bounds.orders)
    <3>1. k = cli.create[firstOf(cli.create)]  BY <1>3 DEF f
    <3>2. RunInv(RunAt(cli, cli.pc, cli.groups, cli.ids, without(cli.create, firstOf(cli.create)),
                       cli.update, failed, cli.media), bank, shelf, cloud, bounds.orders)
      BY <1>1, <1>9, <1>10, <2>1, <2>3, <3>1, LeavesCreate DEF Running
    <3> QED  BY <3>2, <1>7, <1>12 DEF f, rest
  <2> QED  BY <2>2, <1>12 DEF CreateWord, ImportInv, CliInv
<1>13. CASE /\ ~cli.order.dry
            /\ bank' = Append(bank, [key |-> k, source |-> "IMPORT", text |-> "import",
                                     media |-> getMediaUrl(cli.manifest, k), young |-> TRUE,
                                     edited |-> FALSE, run |-> bounds.orders, late |-> FALSE])
            /\ cli' = knowing(p, k, Len(bank) + 1)
  <2> DEFINE m == getMediaUrl(cli.manifest, k)
             x == [key |-> k, source |-> "IMPORT", text |-> "import", media |-> m, young |-> TRUE,
                   edited |-> FALSE, run |-> bounds.orders, late |-> FALSE]
             id == Len(bank) + 1
             ids == with(cli.ids, k, id)
  <2>1. m \in {None, "import"} /\ (m = "import" => k \in cloud)
    BY <1>1, MediaAddress DEF Running, RunInv, TaskInv
  <2>2. bounds.orders \in Nat  BY DEF ImportInv
  <2> HIDE DEF m
  <2>3. x \in WordType  BY <1>3, <2>1, <2>2, NewWordTyped
  <2>4. x.key = k /\ x.source = "IMPORT" /\ x.text = "import" /\ x.media = m
        /\ x.run = bounds.orders
    OBVIOUS
  <2>5. bank' = Append(bank, x)  BY <1>13 DEF m
  <2> HIDE DEF x
  <2>6. OwnText(x)  BY <2>4 DEF OwnText
  <2>7. /\ BankOk(bank', cloud) /\ Grown(bank, bank')
        /\ DOMAIN bank' = DOMAIN bank \cup {id} /\ bank'[id] = x
        /\ \A w \in DOMAIN bank : bank'[w] = bank[w]
    BY <1>3, <1>9, <2>1, <2>3, <2>4, <2>5, <2>6, AppendsWord
  <2>8. DOMAIN ids = DOMAIN cli.ids \cup {k}
        /\ \A y \in DOMAIN ids : ids[y] = IF y = k THEN id ELSE cli.ids[y]
    BY <1>8
  <2> HIDE DEF id, ids
  <2>9. \A y \in DOMAIN ids : ids[y] \in DOMAIN bank' /\ bank'[ids[y]].key = y
    BY <1>9, <1>13, <2>4, <2>7, <2>8 DEF IdsInv
  <2>10. \A w \in DOMAIN bank' : w \in DOMAIN bank \/ bank'[w].key = k  BY <2>4, <2>7
  <2>11. cli' = RunAt(cli, cli.pc, cli.groups, ids, rest, cli.update, cli.failed, cli.media)
    BY <1>6, <1>13 DEF id, ids
  <2>12. RunInv(cli', bank', shelf, cloud, bounds.orders)
    BY <1>1, <1>3, <1>9, <2>7, <2>8, <2>9, <2>10, <2>11, LeavesCreate DEF Running, f, rest
  <2>13. ShelfOk(shelf, bank')  BY <1>9, <2>7, DecksStay
  <2> QED  BY <2>7, <2>12, <2>13 DEF CreateWord, ImportInv, CliInv
<1> QED  BY <1>11, <1>12, <1>13 DEF CreateWord, k, p

LEMMA PcMoves ==
    ASSUME NEW c, NEW bk, NEW decks, NEW more, NEW assets, NEW n, NEW pc \in RunPcs \ {"write"},
           RunInv(c, bk, decks, assets, n),
           \A d \in DOMAIN decks : d \in DOMAIN more /\ more[d] = decks[d],
           pc # "create" => DOMAIN c.create = {},
           pc # "update" => DOMAIN c.update = {},
           pc = "attach" => c.groups # <<>> /\ (~c.order.dry => Head(c.groups) \in DOMAIN more),
           pc = "imported" => c.groups = <<>>
    PROVE  RunInv(goingTo(c, pc), bk, more, assets, n)
<1> DEFINE d == RunAt(c, pc, c.groups, c.ids, c.create, c.update, c.failed, c.media)
<1>1. goingTo(c, pc) = d  BY RunMoves DEF RunInv, TaskInv
<1>2. /\ IsRun(d) /\ d.order = c.order /\ d.words = c.words /\ d.manifest = c.manifest
      /\ d.pc = pc /\ d.groups = c.groups /\ d.ids = c.ids /\ d.create = c.create
      /\ d.update = c.update /\ d.failed = c.failed /\ d.media = c.media
  BY RunFields
<1> HIDE DEF d
<1>3. TaskInv(d, assets)  BY <1>2 DEF RunInv, TaskInv
<1>4. CreateInv(d, bk, n)  BY <1>2 DEF RunInv, CreateInv
<1>5. UpdateInv(d, bk)  BY <1>2 DEF RunInv, UpdateInv
<1>6. WriteInv(d, bk, assets)  BY <1>2 DEF WriteInv
<1>7. IdsInv(d, bk)  BY <1>2 DEF RunInv, IdsInv
<1>8. Covered(d)  BY <1>2 DEF RunInv, Covered, Met
<1>9. GroupsInv(d, bk, more)
  <2>1. \A i : InDeck(c, i, bk, decks) => InDeck(d, i, bk, more)  BY <1>2 DEF InDeck
  <2> QED  BY <2>1, <1>2 DEF RunInv, GroupsInv
<1> QED  BY <1>1, <1>3, <1>4, <1>5, <1>6, <1>7, <1>8, <1>9 DEF RunInv

LEMMA EndsSound ==
    ASSUME ImportInv, EndCreate \/ EndUpdate \/ ImportDone PROVE ImportInv'
<1>1. Running /\ cli.pc \in {"create", "update", "decks"}
  BY ARunRuns DEF EndCreate, EndUpdate, ImportDone, RunPcs
<1>2. UNCHANGED <<files, cloud, bank, shelf, bounds>>
  BY DEF EndCreate, EndUpdate, ImportDone
<1>3. \A d \in DOMAIN shelf : d \in DOMAIN shelf /\ shelf[d] = shelf[d]  OBVIOUS
<1>4. /\ cli.pc # "create" => DOMAIN cli.create = {}
      /\ cli.pc = "decks" => DOMAIN cli.update = {}
  BY <1>1 DEF Running, RunInv, CreateInv, UpdateInv
<1>5. CASE EndCreate
  <2>1. cli' = goingTo(cli, "update") /\ DOMAIN cli.create = {}  BY <1>5 DEF EndCreate
  <2>2. RunInv(cli', bank, shelf, cloud, bounds.orders)
    BY <1>1, <1>3, <2>1, PcMoves DEF Running, RunPcs
  <2> QED  BY <2>2, <1>2 DEF ImportInv, CliInv
<1>6. CASE EndUpdate
  <2>1. cli' = goingTo(cli, "decks") /\ DOMAIN cli.update = {} /\ cli.pc = "update"
    BY <1>6 DEF EndUpdate
  <2>2. RunInv(cli', bank, shelf, cloud, bounds.orders)
    BY <1>1, <1>3, <1>4, <2>1, PcMoves DEF Running, RunPcs
  <2> QED  BY <2>2, <1>2 DEF ImportInv, CliInv
<1>7. CASE ImportDone
  <2>1. cli' = goingTo(cli, "imported") /\ cli.pc = "decks" /\ cli.groups = <<>>
    BY <1>7 DEF ImportDone
  <2>2. RunInv(cli', bank, shelf, cloud, bounds.orders)
    BY <1>1, <1>3, <1>4, <2>1, PcMoves DEF Running, RunPcs
  <2> QED  BY <2>2, <1>2 DEF ImportInv, CliInv
<1> QED  BY <1>5, <1>6, <1>7

LEMMA ReadWordSound ==
    ASSUME ImportInv, ReadWord PROVE ImportInv'
<1>1. Running /\ IsRun(cli) /\ cli.pc = "update" /\ DOMAIN cli.update # {}
  BY ARunRuns DEF ReadWord, RunPcs, Running, RunInv, TaskInv
<1>2. firstOf(cli.update) \in DOMAIN cli.update
  BY <1>1, FirstPlace DEF Running, RunInv, UpdateInv
<1>3. UNCHANGED <<files, cloud, bank, shelf, bounds>>  BY DEF ReadWord
<1> DEFINE u == toUpdate
<1>4. /\ u = cli.update[firstOf(cli.update)]
      /\ u.id \in DOMAIN bank /\ bank[u.id].key = u.key
  BY <1>1, <1>2 DEF toUpdate, Running, RunInv, UpdateInv
<1> HIDE DEF u
<1>5. ShelfOk(shelf, bank) /\ BankOk(bank, cloud) /\ IdsInv(cli, bank) /\ Grown(bank, bank)
  BY <1>1 DEF ImportInv, Running, RunInv, Grown
<1>6. CASE cli.order.dry
  <2> DEFINE p == pastUpdate(cli)
             rest == without(cli.update, firstOf(cli.update))
             ids == with(cli.ids, u.key, u.id)
  <2>1. p = RunAt(cli, cli.pc, cli.groups, cli.ids, cli.create, rest, cli.failed, cli.media)
    BY <1>1, RunMoves
  <2>2. /\ IsRun(p) /\ p.order = cli.order /\ p.words = cli.words /\ p.manifest = cli.manifest
        /\ p.pc = cli.pc /\ p.groups = cli.groups /\ p.ids = cli.ids /\ p.create = cli.create
        /\ p.update = rest /\ p.failed = cli.failed /\ p.media = cli.media
    BY <2>1, RunFields
  <2>3. cli' = knowing(p, u.key, u.id)  BY <1>6 DEF ReadWord, u
  <2> HIDE DEF p, rest
  <2>4. cli' = RunAt(cli, "update", cli.groups, ids, cli.create, rest, cli.failed, cli.media)
    <3>1. cli' = RunAt(p, p.pc, p.groups, with(p.ids, u.key, u.id), p.create, p.update,
                       p.failed, p.media)
      BY <2>2, <2>3, KnowsMore
    <3> QED  BY <3>1, <2>2, <1>1 DEF RunAt
  <2>5. DOMAIN ids = DOMAIN cli.ids \cup {u.key}  BY DEF with
  <2> HIDE DEF ids
  <2>6. RunInv(cli', bank, shelf, cloud, bounds.orders)
    <3>1. DOMAIN cli.ids \subseteq DOMAIN ids
          /\ cli.update[firstOf(cli.update)].key \in DOMAIN ids \cup cli.failed
      BY <2>5, <1>4
    <3>2. RunInv(RunAt(cli, "update", cli.groups, ids, cli.create,
                       without(cli.update, firstOf(cli.update)), cli.failed, cli.media),
                 bank, shelf, cloud, bounds.orders)
      BY <1>1, <1>5, <1>6, <3>1, LeavesUpdate DEF Running
    <3> QED  BY <3>2, <2>4 DEF rest
  <2> QED  BY <2>6, <1>3 DEF ImportInv, CliInv
<1>7. CASE ~cli.order.dry
  <2> DEFINE m == bank[u.id].media
             g == goingTo(cli, "write")
  <2>1. g = RunAt(cli, "write", cli.groups, cli.ids, cli.create, cli.update, cli.failed, cli.media)
    BY <1>1, RunMoves
  <2>2. /\ IsRun(g) /\ g.order = cli.order /\ g.words = cli.words /\ g.manifest = cli.manifest
        /\ g.pc = "write" /\ g.groups = cli.groups /\ g.ids = cli.ids /\ g.create = cli.create
        /\ g.update = cli.update /\ g.failed = cli.failed /\ g.media = cli.media
    BY <2>1, RunFields
  <2>3. cli' = holding(g, m)  BY <1>7 DEF ReadWord, u
  <2>4. m \in {None, "import", "admin"} /\ (m = "import" => bank[u.id].key \in cloud)
    <3>1. bank[u.id] \in WordType  BY <1>4, <1>5, ElementOfSeq, LenProperties DEF BankOk
    <3> QED  BY <3>1, <1>4, <1>5 DEF BankOk, WordType
  <2>5. MediumOk(m, bank[u.id], cloud)  BY <2>4 DEF MediumOk
  <2> HIDE DEF g, m
  <2>6. cli' = RunAt(g, g.pc, g.groups, g.ids, g.create, g.update, g.failed, m)
    BY <2>2, <2>3, RunMoves
  <2>7. /\ IsRun(cli') /\ cli'.order = cli.order /\ cli'.words = cli.words
        /\ cli'.manifest = cli.manifest /\ cli'.pc = "write" /\ cli'.groups = cli.groups
        /\ cli'.ids = cli.ids /\ cli'.create = cli.create /\ cli'.update = cli.update
        /\ cli'.failed = cli.failed /\ cli'.media = m
    BY <2>2, <2>6, RunFields
  <2>8. TaskInv(cli', cloud)  BY <1>1, <2>7 DEF Running, RunInv, TaskInv, RunPcs
  <2>9. CreateInv(cli', bank, bounds.orders)  BY <1>1, <2>7 DEF Running, RunInv, CreateInv
  <2>10. UpdateInv(cli', bank)  BY <1>1, <2>7 DEF Running, RunInv, UpdateInv
  <2>11. WriteInv(cli', bank, cloud)  BY <1>1, <1>4, <1>7, <2>5, <2>7 DEF WriteInv
  <2>12. IdsInv(cli', bank)  BY <1>5, <2>7 DEF IdsInv
  <2>13. Covered(cli')  BY <1>1, <2>7 DEF Running, RunInv, Covered, Met
  <2>14. GroupsInv(cli', bank, shelf)
    BY <1>1, <2>7, GroupsGrow DEF Running, RunInv
  <2>15. RunInv(cli', bank, shelf, cloud, bounds.orders)
    BY <2>8, <2>9, <2>10, <2>11, <2>12, <2>13, <2>14 DEF RunInv
  <2> QED  BY <2>15, <1>3 DEF ImportInv, CliInv
<1> QED  BY <1>6, <1>7

LEMMA RewrittenSound ==
    ASSUME ImportInv, cli.pc = "write"
    PROVE  LET x == bank[toUpdate.id]
               y == rewritten(x)
           IN  /\ toUpdate.id \in DOMAIN bank /\ toUpdate.key = x.key
               /\ y \in WordType /\ y.text = "import" /\ y.late = x.late
               /\ y.key = x.key /\ y.source = x.source /\ y.run = x.run
               /\ y.media = "import" => y.key \in cloud
               /\ x.text = "admin" => cli.order.force \/ x.late
               /\ x.media = "admin" => y.media = "admin" \/ x.late
<1>1. Running /\ DOMAIN cli.update # {}
  BY ARunRuns DEF RunPcs, Running, RunInv, WriteInv
<1>2. firstOf(cli.update) \in DOMAIN cli.update
  BY <1>1, FirstPlace DEF Running, RunInv, UpdateInv
<1> DEFINE x == bank[toUpdate.id]
           m == IF cli.media # None THEN cli.media ELSE getMediaUrl(cli.manifest, x.key)
           e == x.edited \/ ~x.young
           y == rewritten(x)
<1>3. /\ toUpdate.id \in DOMAIN bank /\ x.key = toUpdate.key
      /\ x.text = "admin" => cli.order.force \/ x.late
  BY <1>1, <1>2 DEF toUpdate, Running, RunInv, UpdateInv
<1>4. x \in WordType
  BY <1>3, ElementOfSeq, LenProperties DEF ImportInv, BankOk
<1>5. MediumOk(cli.media, x, cloud)  BY <1>1 DEF Running, RunInv, WriteInv, toUpdate
<1>6. /\ getMediaUrl(cli.manifest, x.key) \in {None, "import"}
      /\ getMediaUrl(cli.manifest, x.key) = "import" => x.key \in cloud
  BY <1>1, MediaAddress DEF Running, RunInv, TaskInv
<1>7. m \in {None, "import", "admin"} /\ (m = "import" => x.key \in cloud)
      /\ (x.media = "admin" => m = "admin" \/ x.late)
  BY <1>5, <1>6, ImportAssumption DEF MediumOk
<1>8. e \in BOOLEAN  OBVIOUS
<1>9. y = [key |-> x.key, source |-> x.source, text |-> "import", media |-> m,
           young |-> x.young, edited |-> e, run |-> x.run, late |-> x.late]
  BY DEF rewritten
<1> HIDE DEF x, m, e, y
<1>10. /\ x.key \in ImportKeys /\ x.source \in {"IMPORT", "ADMIN"} /\ x.young \in BOOLEAN
       /\ x.run \in Nat /\ x.late \in BOOLEAN
  BY <1>4 DEF WordType
<1>11. y \in WordType
  <2> DEFINE k == x.key  source == x.source  young == x.young  run == x.run  late == x.late
  <2>1. /\ k \in ImportKeys /\ source \in {"IMPORT", "ADMIN"} /\ young \in BOOLEAN
        /\ run \in Nat /\ late \in BOOLEAN
    BY <1>10
  <2>2. y = [key |-> k, source |-> source, text |-> "import", media |-> m, young |-> young,
             edited |-> e, run |-> run, late |-> late]
    BY <1>9
  <2> HIDE DEF k, source, young, run, late
  <2>3. m \in {None, "import", "admin"} /\ e \in BOOLEAN  BY <1>7, <1>8
  <2> QED  BY <2>1, <2>2, <2>3 DEF WordType
<1>12. /\ y.text = "import" /\ y.late = x.late /\ y.key = x.key /\ y.source = x.source
       /\ y.run = x.run /\ y.media = m
  BY <1>9
<1> QED  BY <1>3, <1>7, <1>11, <1>12 DEF x, y

LEMMA WriteWordSound ==
    ASSUME ImportInv, WriteWord PROVE ImportInv'
<1>1. /\ Running /\ IsRun(cli) /\ cli.pc = "write" /\ DOMAIN cli.update # {}
      /\ ~cli.order.dry
  BY ARunRuns DEF WriteWord, RunPcs, Running, RunInv, TaskInv, WriteInv
<1>2. UNCHANGED <<files, cloud, shelf, bounds>>  BY DEF WriteWord
<1> DEFINE u == toUpdate
           rest == without(cli.update, firstOf(cli.update))
           p == pastUpdate(cli)
           g == goingTo(p, "update")
           h == holding(g, None)
<1>3. u = cli.update[firstOf(cli.update)]  BY DEF toUpdate
<1>4. /\ ShelfOk(shelf, bank) /\ BankOk(bank, cloud) /\ Grown(bank, bank)
      /\ \A k \in DOMAIN cli.ids : cli.ids[k] \in DOMAIN bank /\ bank[cli.ids[k]].key = k
  BY <1>1 DEF ImportInv, Running, RunInv, IdsInv, Grown
<1>5. p = RunAt(cli, cli.pc, cli.groups, cli.ids, cli.create, rest, cli.failed, cli.media)
  BY <1>1, RunMoves
<1> HIDE DEF rest
<1>6. /\ IsRun(p) /\ p.order = cli.order /\ p.words = cli.words /\ p.manifest = cli.manifest
      /\ p.groups = cli.groups /\ p.ids = cli.ids /\ p.create = cli.create
      /\ p.update = rest /\ p.failed = cli.failed
  BY <1>5, RunFields
<1> HIDE DEF p
<1>7. g = RunAt(p, "update", p.groups, p.ids, p.create, p.update, p.failed, p.media)
  BY <1>6, RunMoves
<1>8. /\ IsRun(g) /\ g.order = cli.order /\ g.words = cli.words /\ g.manifest = cli.manifest
      /\ g.pc = "update" /\ g.groups = cli.groups /\ g.ids = cli.ids /\ g.create = cli.create
      /\ g.update = rest /\ g.failed = cli.failed
  BY <1>6, <1>7, RunFields
<1> HIDE DEF g
<1>9. h = RunAt(g, g.pc, g.groups, g.ids, g.create, g.update, g.failed, None)
  BY <1>8, RunMoves
<1>10. /\ IsRun(h) /\ h.order = cli.order /\ h.words = cli.words /\ h.manifest = cli.manifest
       /\ h.pc = "update" /\ h.groups = cli.groups /\ h.ids = cli.ids /\ h.create = cli.create
       /\ h.update = rest /\ h.failed = cli.failed /\ h.media = None
  BY <1>8, <1>9, RunFields
<1> HIDE DEF h
<1>11. CASE UNCHANGED bank /\ cli' = failing(h, u.key)
  <2> DEFINE failed == cli.failed \cup {u.key}
  <2>1. cli' = RunAt(h, h.pc, h.groups, h.ids, h.create, h.update, h.failed \cup {u.key}, h.media)
    BY <1>10, <1>11, RunMoves
  <2>2. h.failed \cup {u.key} = failed  BY <1>10
  <2>3. cli.failed \subseteq failed /\ u.key \in DOMAIN cli.ids \cup failed  OBVIOUS
  <2> HIDE DEF failed, u
  <2>4. cli' = RunAt(cli, "update", cli.groups, cli.ids, cli.create, rest, failed, None)
    BY <2>1, <2>2, <1>10 DEF RunAt
  <2>5. RunInv(RunAt(cli, "update", cli.groups, cli.ids, cli.create,
                     without(cli.update, firstOf(cli.update)), failed, None),
               bank, shelf, cloud, bounds.orders)
    BY <1>1, <1>3, <1>4, <2>3, LeavesUpdate DEF Running
  <2> QED  BY <2>4, <2>5, <1>2, <1>11 DEF ImportInv, CliInv, rest
<1>12. CASE /\ bank' = [bank EXCEPT ![u.id] = rewritten(bank[u.id])]
            /\ cli' = knowing(h, u.key, u.id)
  <2> DEFINE ids == with(cli.ids, u.key, u.id)
             x == bank[u.id]
             y == rewritten(x)
  <2>1. /\ u.id \in DOMAIN bank /\ u.key = x.key /\ y \in WordType /\ y.text = "import"
        /\ y.late = x.late /\ y.key = x.key /\ y.source = x.source /\ y.run = x.run
        /\ y.media = "import" => y.key \in cloud
    BY <1>1, RewrittenSound
  <2>2. bank' = [bank EXCEPT ![u.id] = y]  BY <1>12
  <2> HIDE DEF u, y
  <2>3. OwnText(y)  BY <2>1 DEF OwnText
  <2>4. /\ BankOk(bank', cloud) /\ Grown(bank, bank') /\ DOMAIN bank' = DOMAIN bank
        /\ bank'[u.id] = y /\ \A w \in DOMAIN bank : w # u.id => bank'[w] = bank[w]
    BY <1>4, <2>1, <2>2, <2>3, ReplacesWord
  <2>5. \A w \in DOMAIN bank : /\ bank'[w].late = bank[w].late
                               /\ bank'[w].text = "admin" => bank[w].text = "admin"
    BY <2>1, <2>4
  <2>6. cli' = RunAt(h, h.pc, h.groups, with(h.ids, u.key, u.id), h.create, h.update,
                     h.failed, h.media)
    BY <1>10, <1>12, KnowsMore DEF u
  <2>7. cli' = RunAt(cli, "update", cli.groups, ids, cli.create, rest, cli.failed, None)
    BY <2>6, <1>10 DEF RunAt
  <2>8. /\ DOMAIN ids = DOMAIN cli.ids \cup {u.key}
        /\ \A k \in DOMAIN ids : ids[k] = IF k = u.key THEN u.id ELSE cli.ids[k]
    BY DEF with
  <2> HIDE DEF ids
  <2>9. \A k \in DOMAIN ids : ids[k] \in DOMAIN bank' /\ bank'[ids[k]].key = k
    BY <1>4, <2>1, <2>4, <2>8 DEF Grown
  <2>10. DOMAIN cli.ids \subseteq DOMAIN ids /\ u.key \in DOMAIN ids \cup cli.failed
    BY <2>8
  <2>11. RunInv(RunAt(cli, "update", cli.groups, ids, cli.create,
                      without(cli.update, firstOf(cli.update)), cli.failed, None),
                bank', shelf, cloud, bounds.orders)
    BY <1>1, <1>3, <1>4, <2>4, <2>5, <2>9, <2>10, LeavesUpdate DEF Running
  <2>12. ShelfOk(shelf, bank')  BY <1>4, <2>4, DecksStay
  <2> QED  BY <2>4, <2>7, <2>11, <2>12, <1>2 DEF ImportInv, CliInv, rest
<1> QED  BY <1>11, <1>12 DEF WriteWord, u, h, g, p
-----------------------------------------------------------------------------
(* The decks.  What is attached is new and attached once; and a row that   *)
(* finds no room finds it taken by words of the deck or by rows before it  *)
(* that repeat one.                                                        *)
LEMMA AttachedOk ==
    ASSUME ImportInv, Running, cli.pc = "attach", ~cli.order.dry, NEW d \in DOMAIN shelf
    PROVE  /\ DeckOk(attached(d), bank)
           /\ \A i \in DOMAIN shelf[d] :
                 i \in DOMAIN attached(d) /\ attached(d)[i] = shelf[d][i]
           /\ \A i \in DOMAIN cli.words : cli.words[i].deck = d =>
                 cli.words[i].key \in cli.failed \/ Placed(cli.words, i, attached(d), bank)
           /\ Len(shelf[d]) <= Len(attached(d))
<1> DEFINE W == cli.words
           old == shelf[d]
           G == group(d)
           U == unattached(d)
           cap == capacity(d)
           B == bounded(d)
           O == once(d)
           new == [n \in DOMAIN inOrder(O) |-> idOf(inOrder(O)[n])]
<1>1. PICK m \in Nat : DOMAIN W = 1 .. m  BY DEF Running, RunInv, TaskInv, IsWords
<1>2. G \subseteq DOMAIN W /\ U \subseteq G /\ B \subseteq U /\ O \subseteq B
  BY DEF group, unattached, bounded, once
<1>3. /\ IsFiniteSet(U) /\ IsFiniteSet(B) /\ IsFiniteSet(O)
      /\ U \in SUBSET Nat /\ B \in SUBSET Nat /\ O \in SUBSET Nat
  <2>1. IsFiniteSet(DOMAIN W) /\ DOMAIN W \subseteq Nat  BY <1>1, FS_Interval
  <2> QED  BY <2>1, <1>2, FS_Subset
<1>4. ASSUME NEW i \in G
      PROVE  idOf(i) \in DOMAIN bank /\ bank[idOf(i)].key = W[i].key /\ W[i].deck = d
  BY DEF group, idOf, Running, RunInv, IdsInv
<1>5. DOMAIN bank \subseteq Nat
  BY LenProperties DEF ImportInv, BankOk
<1>6. /\ old \in Seq(Nat) /\ Distinct(old) /\ Len(old) <= MaxDeckWords /\ Len(old) \in Nat
      /\ DOMAIN old = 1 .. Len(old) /\ \A i \in DOMAIN old : old[i] \in DOMAIN bank
  BY LenProperties DEF ImportInv, ShelfOk, DeckOk
<1>7. cap \in Nat /\ Len(old) + cap = MaxDeckWords
  <2>1. MaxDeckWords \in Nat  BY ImportAssumption
  <2>2. cap = IF Len(old) >= MaxDeckWords THEN 0 ELSE MaxDeckWords - Len(old)  BY DEF capacity
  <2>3. Len(old) <= MaxDeckWords /\ Len(old) \in Nat  BY <1>6
  <2> HIDE DEF cap, old
  <2> QED  BY <2>1, <2>2, <2>3
<1>8. \A i \in U : i \in B <=> RankIn(U, i) <= cap
  BY DEF bounded, RankIn
<1>9. \A i \in U, n \in DOMAIN old : old[n] # idOf(i)
  BY DEF unattached, Range
<1>10. \A i, j \in O : j < i => idOf(j) # idOf(i)
  BY <1>2 DEF once
<1>11. \A i \in B : i \notin O => \E j \in B : j < i /\ idOf(j) = idOf(i)
  BY DEF once
<1>12. attached(d) = old \o new  BY DEF attached
<1>13. /\ Cardinality(O) \in Nat /\ DOMAIN inOrder(O) = 1 .. Cardinality(O)
       /\ \A n \in 1 .. Cardinality(O) : inOrder(O)[n] \in O /\ RankIn(O, inOrder(O)[n]) = n
       /\ \A i \in O : RankIn(O, i) \in 1 .. Cardinality(O) /\ inOrder(O)[RankIn(O, i)] = i
  BY <1>3, Listed
<1>14. /\ Cardinality(U) \in Nat
       /\ \A n \in 1 .. Cardinality(U) : inOrder(U)[n] \in U /\ RankIn(U, inOrder(U)[n]) = n
       /\ \A i \in U : RankIn(U, i) \in 1 .. Cardinality(U) /\ inOrder(U)[RankIn(U, i)] = i
  BY <1>3, Listed
<1>15. Cardinality(B) \in Nat /\ Cardinality(B) <= cap
  <2> DEFINE r == [i \in B |-> RankIn(U, i)]
  <2>1. \A i \in B : RankIn(U, i) \in 1 .. cap  BY <1>2, <1>7, <1>8, <1>14
  <2>2. \A i, j \in B : RankIn(U, i) = RankIn(U, j) => i = j  BY <1>2, <1>14
  <2>3. r \in Injection(B, 1 .. cap)  BY <2>1, <2>2 DEF Injection, IsInjective
  <2>4. IsFiniteSet(1 .. cap) /\ Cardinality(1 .. cap) = cap  BY <1>7, FS_Interval
  <2> HIDE DEF r
  <2> QED  BY <2>3, <2>4, <1>3, FS_Injection, FS_CardinalityType
<1> HIDE DEF W, old, G, U, cap, B, O
<1>16. /\ new \in Seq(Nat) /\ Len(new) = Cardinality(O) /\ DOMAIN new = 1 .. Cardinality(O)
       /\ \A n \in 1 .. Cardinality(O) : new[n] = idOf(inOrder(O)[n])
  <2>1. \A n \in 1 .. Cardinality(O) : idOf(inOrder(O)[n]) \in Nat
    BY <1>2, <1>4, <1>5, <1>13
  <2>2. new \in [1 .. Cardinality(O) -> Nat]  BY <2>1, <1>13
  <2>3. new \in Seq(Nat)  BY <2>2, <1>13, SeqDef
  <2> QED  BY <2>2, <2>3, <1>13, LenProperties
<1> HIDE DEF new
<1>17. /\ attached(d) \in Seq(Nat) /\ Len(attached(d)) = Len(old) + Cardinality(O)
       /\ DOMAIN attached(d) = 1 .. Len(old) + Cardinality(O)
       /\ \A i \in 1 .. Len(old) + Cardinality(O) :
             attached(d)[i] = IF i <= Len(old) THEN old[i] ELSE new[i - Len(old)]
  <2>1. /\ attached(d) \in Seq(Nat) /\ Len(attached(d)) = Len(old) + Cardinality(O)
        /\ \A i \in 1 .. Len(old) + Cardinality(O) :
             attached(d)[i] = IF i <= Len(old) THEN old[i] ELSE new[i - Len(old)]
    BY <1>6, <1>12, <1>16, ConcatProperties
  <2> QED  BY <2>1, LenProperties
<1>18. Cardinality(O) <= Cardinality(B)  BY <1>2, <1>3, FS_Subset
<1>19. \A n \in 1 .. Cardinality(O) : new[n] \in DOMAIN bank  BY <1>2, <1>4, <1>13, <1>16
<1>20. ASSUME NEW a \in 1 .. Cardinality(O), NEW b \in 1 .. Cardinality(O), a # b
       PROVE  new[a] # new[b]
  <2> DEFINE i == inOrder(O)[a]
             j == inOrder(O)[b]
  <2>1. i \in O /\ j \in O /\ i # j  BY <1>13, <1>20
  <2>2. i \in Nat /\ j \in Nat  BY <2>1, <1>3
  <2>3. new[a] = idOf(i) /\ new[b] = idOf(j)  BY <1>16
  <2> HIDE DEF i, j
  <2> QED  BY <2>1, <2>2, <2>3, <1>10
<1>21. \A n \in 1 .. Cardinality(O), k \in DOMAIN old : old[k] # new[n]
  BY <1>2, <1>9, <1>13, <1>16
<1>22. Distinct(attached(d))
  <2> SUFFICES ASSUME NEW a \in DOMAIN attached(d), NEW b \in DOMAIN attached(d), a # b
               PROVE  attached(d)[a] # attached(d)[b]
    BY DEF Distinct
  <2>1. a \in Int /\ b \in Int /\ a \in 1 .. Len(old) + Cardinality(O)
        /\ b \in 1 .. Len(old) + Cardinality(O)
    BY <1>17
  <2>2. CASE a <= Len(old) /\ b <= Len(old)
    <3>1. a \in DOMAIN old /\ b \in DOMAIN old  BY <2>1, <2>2, <1>6
    <3> QED  BY <3>1, <2>1, <2>2, <1>6, <1>17 DEF Distinct
  <2>3. CASE a <= Len(old) /\ ~(b <= Len(old))
    <3>1. a \in DOMAIN old /\ b - Len(old) \in 1 .. Cardinality(O)
      BY <2>1, <2>3, <1>6, <1>13
    <3> QED  BY <3>1, <2>1, <2>3, <1>17, <1>21
  <2>4. CASE ~(a <= Len(old)) /\ b <= Len(old)
    <3>1. b \in DOMAIN old /\ a - Len(old) \in 1 .. Cardinality(O)
      BY <2>1, <2>4, <1>6, <1>13
    <3> QED  BY <3>1, <2>1, <2>4, <1>17, <1>21
  <2>5. CASE ~(a <= Len(old)) /\ ~(b <= Len(old))
    <3>1. /\ a - Len(old) \in 1 .. Cardinality(O) /\ b - Len(old) \in 1 .. Cardinality(O)
          /\ a - Len(old) # b - Len(old)
      BY <2>1, <2>5, <1>6, <1>13
    <3> QED  BY <3>1, <2>1, <2>5, <1>17, <1>20
  <2> QED  BY <2>2, <2>3, <2>4, <2>5
<1>23. \A i \in DOMAIN attached(d) : attached(d)[i] \in DOMAIN bank
  <2> SUFFICES ASSUME NEW i \in DOMAIN attached(d) PROVE attached(d)[i] \in DOMAIN bank
    OBVIOUS
  <2>1. i \in Int /\ i \in 1 .. Len(old) + Cardinality(O)  BY <1>17
  <2>2. CASE i <= Len(old)  BY <2>1, <2>2, <1>6, <1>17
  <2>3. CASE ~(i <= Len(old))
    <3>1. i - Len(old) \in 1 .. Cardinality(O)  BY <2>1, <2>3, <1>6, <1>13
    <3> QED  BY <3>1, <2>1, <2>3, <1>17, <1>19
  <2> QED  BY <2>2, <2>3
<1>24. DeckOk(attached(d), bank)
  BY <1>6, <1>7, <1>13, <1>15, <1>17, <1>18, <1>22, <1>23, ImportAssumption DEF DeckOk
<1>25. \A i \in DOMAIN old : i \in DOMAIN attached(d) /\ attached(d)[i] = old[i]
  BY <1>6, <1>13, <1>17
<1>26. \A n \in 1 .. Cardinality(O) :
          Len(old) + n \in DOMAIN attached(d) /\ attached(d)[Len(old) + n] = new[n]
  <2> SUFFICES ASSUME NEW n \in 1 .. Cardinality(O)
               PROVE  Len(old) + n \in DOMAIN attached(d) /\ attached(d)[Len(old) + n] = new[n]
    OBVIOUS
  <2>1. /\ n \in Int /\ Len(old) + n \in 1 .. Len(old) + Cardinality(O)
        /\ ~(Len(old) + n <= Len(old)) /\ Len(old) + n - Len(old) = n
    BY <1>6, <1>13
  <2> QED  BY <2>1, <1>17
<1>27. ASSUME NEW i \in B PROVE \E n \in DOMAIN attached(d) : attached(d)[n] = idOf(i)
  <2> DEFINE T == {j \in B : idOf(j) = idOf(i)}
  <2>1. T \in SUBSET Nat /\ T # {}  BY <1>3
  <2>2. PICK j \in T : \A k \in T : j <= k  BY <2>1, LeastPlace
  <2>3. j \in O
    <3> SUFFICES ASSUME j \notin O PROVE FALSE  OBVIOUS
    <3>1. PICK k \in B : k < j /\ idOf(k) = idOf(j)  BY <1>11, <2>2
    <3>2. k \in T /\ k \in Nat /\ j \in Nat  BY <3>1, <2>1, <2>2, <1>3
    <3> QED  BY <3>1, <3>2, <2>2
  <2>4. RankIn(O, j) \in 1 .. Cardinality(O) /\ new[RankIn(O, j)] = idOf(j)
    BY <2>3, <1>13, <1>16
  <2> QED  BY <2>2, <2>4, <1>26
<1>28. ASSUME NEW i \in U, i \notin B
       PROVE  Len(attached(d)) + Cardinality(repeatsBefore(W, i)) >= MaxDeckWords
  <2> DEFINE R == repeatsBefore(W, i)
             Q == B \ O
  <2>1. RankIn(U, i) \in Nat /\ cap < RankIn(U, i) /\ RankIn(U, i) <= Cardinality(U) /\ i \in Nat
    BY <1>7, <1>8, <1>14, <1>28, <1>3
  <2>2. \A j \in B : j < i
    <3> SUFFICES ASSUME NEW j \in B, ~(j < i) PROVE FALSE  OBVIOUS
    <3>1. j \in U /\ RankIn(U, j) <= cap /\ j \in Nat  BY <1>2, <1>3, <1>8
    <3>2. i < j  BY <3>1, <2>1, <1>28
    <3>3. RankIn(U, i) < RankIn(U, j)  BY <3>1, <3>2, <1>3, RanksGrow
    <3>4. RankIn(U, j) \in Nat  BY <3>1, <1>14
    <3> QED  BY <3>1, <3>3, <3>4, <2>1, <1>7
  <2>3. cap <= Cardinality(B)
    <3> DEFINE h == [n \in 1 .. cap |-> inOrder(U)[n]]
    <3>1. \A n \in 1 .. cap : n \in 1 .. Cardinality(U)  BY <2>1, <1>7, <1>14
    <3>2. \A n \in 1 .. cap : inOrder(U)[n] \in B
      BY <3>1, <1>7, <1>8, <1>14
    <3>3. \A a, b \in 1 .. cap : inOrder(U)[a] = inOrder(U)[b] => a = b  BY <3>1, <1>14
    <3>4. h \in Injection(1 .. cap, B)  BY <3>2, <3>3 DEF Injection, IsInjective
    <3>5. Cardinality(1 .. cap) = cap  BY <1>7, FS_Interval
    <3> HIDE DEF h
    <3> QED  BY <3>4, <3>5, <1>3, FS_Injection
  <2>4. Q \subseteq R
    <3> SUFFICES ASSUME NEW j \in Q PROVE j \in R  OBVIOUS
    <3>1. PICK k \in B : k < j /\ idOf(k) = idOf(j)  BY <1>11
    <3>2. j \in U /\ k \in U /\ j \in G /\ k \in G /\ i \in G  BY <1>2
    <3>3. W[j].deck = d /\ W[k].deck = d /\ W[i].deck = d /\ W[k].key = W[j].key
      BY <3>1, <3>2, <1>4
    <3>4. j \in 1 .. m /\ k \in 1 .. m /\ i \in 1 .. m  BY <3>2, <1>1, <1>2
    <3>5. j \in 1 .. i - 1 /\ k \in 1 .. j - 1  BY <3>1, <3>4, <2>2
    <3> QED  BY <3>3, <3>5 DEF repeatsBefore
  <2>5. IsFiniteSet(R)
    <3>1. R \subseteq 1 .. i - 1  BY DEF repeatsBefore
    <3>2. IsFiniteSet(1 .. i - 1)  BY <2>1, FS_Interval
    <3> QED  BY <3>1, <3>2, FS_Subset
  <2>6. IsFiniteSet(Q) /\ Cardinality(Q) <= Cardinality(R)  BY <2>4, <2>5, FS_Subset
  <2>7. Cardinality(B) = Cardinality(O) + Cardinality(Q)
    <3>1. B = O \cup Q /\ O \cap Q = {}  BY <1>2
    <3>2. Cardinality(O \cup Q) = Cardinality(O) + Cardinality(Q) - Cardinality(O \cap Q)
      BY <2>6, <1>3, FS_Union
    <3>3. Cardinality({}) = 0  BY FS_EmptySet
    <3>4. Cardinality(Q) \in Nat  BY <2>6, FS_CardinalityType
    <3> HIDE DEF Q
    <3>5. Cardinality(O \cap Q) = 0 /\ Cardinality(B) = Cardinality(O \cup Q)
      BY <3>1, <3>3, Zenon
    <3> QED  BY <3>2, <3>4, <3>5, <1>13
  <2>8. Cardinality(Q) \in Nat /\ Cardinality(R) \in Nat  BY <2>5, <2>6, FS_CardinalityType
  <2> HIDE DEF Q, R
  <2>9. Len(attached(d)) + Cardinality(R) >= MaxDeckWords
    BY <2>3, <2>6, <2>7, <2>8, <1>6, <1>7, <1>13, <1>15, <1>17, ImportAssumption
  <2> QED  BY <2>9 DEF R
<1>29. ASSUME NEW i \in DOMAIN W, W[i].deck = d
       PROVE  W[i].key \in cli.failed \/ Placed(W, i, attached(d), bank)
  <2>1. DOMAIN cli.create = {} /\ DOMAIN cli.update = {}
    BY DEF Running, RunInv, CreateInv, UpdateInv
  <2>2. W[i].key \in DOMAIN cli.ids \/ W[i].key \in cli.failed
    BY <2>1 DEF Running, RunInv, Covered, Met, W
  <2>3. CASE W[i].key \in DOMAIN cli.ids
    <3>1. i \in G  BY <1>29, <2>3 DEF group, G, W
    <3>2. bank[idOf(i)].key = W[i].key  BY <3>1, <1>4
    <3>3. CASE i \notin U
      <4>1. PICK n \in DOMAIN old : old[n] = idOf(i)
        BY <3>1, <3>3 DEF unattached, U, G, Range, old
      <4> QED  BY <4>1, <3>2, <1>25 DEF Placed
    <3>4. CASE i \in B  BY <3>2, <3>4, <1>27 DEF Placed
    <3>5. CASE i \in U /\ i \notin B  BY <3>5, <1>28 DEF Placed
    <3> QED  BY <3>3, <3>4, <3>5
  <2> QED  BY <2>2, <2>3
<1>30. Len(old) <= Len(attached(d))  BY <1>6, <1>13, <1>17
<1> QED  BY <1>24, <1>25, <1>29, <1>30 DEF W, old

LEMMA GetDeckSound ==
    ASSUME ImportInv, GetOrCreateDeck PROVE ImportInv'
<1> DEFINE d == Head(cli.groups)
<1>1. /\ Running /\ cli.pc = "decks" /\ cli.groups # <<>>
      /\ cli' = goingTo(cli, "attach") /\ UNCHANGED <<files, cloud, bank, bounds>>
  BY ARunRuns DEF GetOrCreateDeck, RunPcs
<1>2. DOMAIN cli.create = {} /\ DOMAIN cli.update = {}
  BY <1>1 DEF Running, RunInv, CreateInv, UpdateInv
<1>3. /\ \A e \in DOMAIN shelf : e \in DOMAIN shelf' /\ shelf'[e] = shelf[e]
      /\ ~cli.order.dry => d \in DOMAIN shelf'
      /\ ShelfOk(shelf', bank)
  <2>1. CASE shelf' = shelf /\ (cli.order.dry \/ d \in DOMAIN shelf)
    BY <2>1 DEF ImportInv
  <2>2. CASE shelf' = with(shelf, d, <<>>) /\ d \notin DOMAIN shelf
    <3>1. /\ DOMAIN shelf' = DOMAIN shelf \cup {d} /\ shelf'[d] = <<>>
          /\ \A e \in DOMAIN shelf : shelf'[e] = shelf[e]
      BY <2>2 DEF with
    <3>2. DeckOk(<<>>, bank)
      <4>1. <<>> \in Seq(Nat) /\ Len(<<>>) = 0 /\ DOMAIN <<>> = {}  BY EmptySeq
      <4> QED  BY <4>1, ImportAssumption DEF DeckOk, Distinct
    <3> HIDE DEF d
    <3> QED  BY <3>1, <3>2 DEF ImportInv, ShelfOk
  <2> QED  BY <2>1, <2>2 DEF GetOrCreateDeck
<1>4. RunInv(cli', bank, shelf', cloud, bounds.orders)
  BY <1>1, <1>2, <1>3, PcMoves DEF Running, RunPcs
<1> QED  BY <1>1, <1>3, <1>4 DEF ImportInv, CliInv

LEMMA AttachSound ==
    ASSUME ImportInv, AttachWords PROVE ImportInv'
<1> DEFINE d == Head(cli.groups)
           left == Tail(cli.groups)
           g == goingTo(cli, "decks")
<1>1. /\ Running /\ IsRun(cli) /\ cli.pc = "attach" /\ cli.groups # <<>>
      /\ cli.groups \in Seq(DeckKeys) /\ (~cli.order.dry => d \in DOMAIN shelf)
  BY ARunRuns DEF AttachWords, RunPcs, Running, RunInv, TaskInv, GroupsInv
<1>2. /\ UNCHANGED <<files, cloud, bank, bounds>> /\ cli' = leaving(g, left)
      /\ shelf' = IF cli.order.dry THEN shelf ELSE [shelf EXCEPT ![d] = attached(d)]
  BY DEF AttachWords
<1>3. /\ left \in Seq(DeckKeys)
      /\ \A n \in DOMAIN cli.groups :
            cli.groups[n] = d \/ \E k \in DOMAIN left : left[k] = cli.groups[n]
  <2>1. /\ DOMAIN cli.groups = 1 .. Len(cli.groups) /\ Len(cli.groups) \in Nat
        /\ d = cli.groups[1]
    BY <1>1, LenProperties
  <2>2. /\ left \in Seq(DeckKeys) /\ Len(left) = Len(cli.groups) - 1
        /\ \A k \in 1 .. Len(left) : left[k] = cli.groups[k + 1]
    BY <1>1, HeadTailProperties
  <2> HIDE DEF left, d
  <2>3. DOMAIN left = 1 .. Len(left)  BY <2>2, LenProperties
  <2>4. ASSUME NEW n \in DOMAIN cli.groups, n # 1
        PROVE  n - 1 \in DOMAIN left /\ left[n - 1] = cli.groups[n]
    <3>1. n - 1 \in 1 .. Len(left) /\ n - 1 + 1 = n  BY <2>1, <2>2, <2>4
    <3> QED  BY <3>1, <2>2, <2>3
  <2> QED  BY <2>1, <2>2, <2>4
<1>4. g = RunAt(cli, "decks", cli.groups, cli.ids, cli.create, cli.update, cli.failed, cli.media)
  BY <1>1, RunMoves
<1>5. /\ IsRun(g) /\ g.order = cli.order /\ g.words = cli.words /\ g.manifest = cli.manifest
      /\ g.pc = "decks" /\ g.ids = cli.ids /\ g.create = cli.create
      /\ g.update = cli.update /\ g.failed = cli.failed /\ g.media = cli.media
  BY <1>4, RunFields
<1> HIDE DEF g, left
<1>6. cli' = RunAt(g, g.pc, left, g.ids, g.create, g.update, g.failed, g.media)
  BY <1>2, <1>5, RunMoves
<1>7. /\ IsRun(cli') /\ cli'.order = cli.order /\ cli'.words = cli.words
      /\ cli'.manifest = cli.manifest /\ cli'.pc = "decks" /\ cli'.groups = left
      /\ cli'.ids = cli.ids /\ cli'.create = cli.create /\ cli'.update = cli.update
      /\ cli'.failed = cli.failed /\ cli'.media = cli.media
  BY <1>5, <1>6, RunFields
<1>8. ~cli.order.dry =>
        /\ DOMAIN shelf' = DOMAIN shelf /\ shelf'[d] = attached(d)
        /\ \A e \in DOMAIN shelf : e # d => shelf'[e] = shelf[e]
        /\ DeckOk(attached(d), bank)
        /\ \A i \in DOMAIN cli.words : cli.words[i].deck = d =>
              cli.words[i].key \in cli.failed \/ Placed(cli.words, i, attached(d), bank)
  BY <1>1, <1>2, AttachedOk
<1> HIDE DEF d
<1>9. ShelfOk(shelf', bank)
  <2>1. CASE cli.order.dry  BY <2>1, <1>2 DEF ImportInv
  <2>2. CASE ~cli.order.dry  BY <2>2, <1>8 DEF ImportInv, ShelfOk
  <2> QED  BY <2>1, <2>2
<1>10. TaskInv(cli', cloud)  BY <1>1, <1>3, <1>7 DEF Running, RunInv, TaskInv, RunPcs
<1>11. CreateInv(cli', bank, bounds.orders)  BY <1>1, <1>7 DEF Running, RunInv, CreateInv
<1>12. UpdateInv(cli', bank)  BY <1>1, <1>7 DEF Running, RunInv, UpdateInv
<1>13. WriteInv(cli', bank, cloud)  BY <1>7 DEF WriteInv
<1>14. IdsInv(cli', bank)  BY <1>1, <1>7 DEF Running, RunInv, IdsInv
<1>15. Covered(cli')  BY <1>1, <1>7 DEF Running, RunInv, Covered, Met
<1>16. GroupsInv(cli', bank, shelf')
  <2>1. ASSUME ~cli.order.dry, NEW i \in DOMAIN cli.words, cli.words[i].deck # NoDeck
        PROVE  InDeck(cli', i, bank, shelf') \/ \E k \in DOMAIN left : left[k] = cli.words[i].deck
    <3>1. CASE cli.words[i].deck = d  BY <3>1, <2>1, <1>1, <1>7, <1>8 DEF InDeck
    <3>2. CASE cli.words[i].deck # d
      <4>1. InDeck(cli, i, bank, shelf)
            \/ \E n \in DOMAIN cli.groups : cli.groups[n] = cli.words[i].deck
        BY <2>1, <1>1 DEF Running, RunInv, GroupsInv
      <4>2. CASE InDeck(cli, i, bank, shelf)
        BY <4>2, <3>2, <2>1, <1>7, <1>8 DEF InDeck
      <4>3. CASE \E n \in DOMAIN cli.groups : cli.groups[n] = cli.words[i].deck
        BY <4>3, <3>2, <1>3
      <4> QED  BY <4>1, <4>2, <4>3
    <3> QED  BY <3>1, <3>2
  <2> QED  BY <2>1, <1>7 DEF GroupsInv
<1>17. RunInv(cli', bank, shelf', cloud, bounds.orders)
  BY <1>10, <1>11, <1>12, <1>13, <1>14, <1>15, <1>16 DEF RunInv
<1> QED  BY <1>2, <1>9, <1>17 DEF ImportInv, CliInv
-----------------------------------------------------------------------------
(* The other actors and commands.                                          *)
LEMMA LeavesSound ==
    ASSUME ImportInv, EndImport \/ PublishDeck \/ Dies \/ MediaDone PROVE ImportInv'
<1>1. UNCHANGED <<files, cloud, bank, shelf>>
  BY DEF EndImport, PublishDeck, Dies, MediaDone
<1>2. bounds' \in [orders : Nat, crashes : Nat, edits : Nat]
  BY DEF EndImport, PublishDeck, Dies, MediaDone, ImportInv
<1>3. cli'.pc \in {"idle", "publish"}
  BY DEF EndImport, PublishDeck, Dies, MediaDone, Exit, NotRunning
<1> QED  BY <1>1, <1>2, <1>3 DEF ImportInv, CliInv

LEMMA UploadsSound ==
    ASSUME ImportInv, NEW k \in ImportKeys, Send(k) \/ Uploaded(k) \/ UploadFails(k)
    PROVE  ImportInv'
<1>1. /\ cli.pc = "upload" /\ UNCHANGED <<bank, shelf, bounds>> /\ cloud \subseteq cloud'
  BY DEF Send, Uploaded, UploadFails, attempt
<1>2. Uploads(cli.manifest, cloud)
  BY <1>1 DEF ImportInv, CliInv, RunInv, TaskInv, RunPcs
<1>3. BankOk(bank, cloud')  BY <1>1 DEF ImportInv, BankOk
<1>4. ASSUME NEW status, NEW tries, status = "uploaded" => k \in cloud
      PROVE  Uploads(mediaEntry(k, status, tries), cloud')
  <2> DEFINE e == [status |-> status, tries |-> tries]
             m == mediaEntry(k, status, tries)
  <2>1. /\ DOMAIN m = DOMAIN cli.manifest
        /\ \A j \in DOMAIN cli.manifest : m[j] = IF j = k THEN e ELSE cli.manifest[j]
    BY DEF mediaEntry
  <2>2. e.status = status  OBVIOUS
  <2> QED  BY <2>1, <2>2, <1>1, <1>2, <1>4 DEF Uploads
<1>5. ASSUME NEW m, Uploads(m, cloud'), NEW sending, uploading(m, sending)
      PROVE  cli'.pc = "upload" /\ Uploads(cli'.manifest, cloud')
  BY <1>5 DEF uploading
<1>6. FilesOk(files, cloud')  BY <1>1 DEF ImportInv, FilesOk, Honest, Uploads
<1>7. ASSUME NEW status, status = "uploaded" => k \in cloud, saves(k, status)
      PROVE  FilesOk(files', cloud') /\ cli'.pc = "upload" /\ Uploads(cli'.manifest, cloud')
  <2> DEFINE m == mediaEntry(k, status, cli.manifest[k].tries)
  <2>1. Uploads(m, cloud')  BY <1>4, <1>7
  <2>2. uploading(m, cli.sending \ {k}) /\ files' = [files EXCEPT !.manifest = m]
    BY <1>7 DEF saves
  <2> HIDE DEF m
  <2>3. /\ files' = [mapped |-> files'.mapped, errors |-> files'.errors,
                     manifest |-> files'.manifest]
        /\ files'.mapped = files.mapped /\ files'.manifest = m
    BY <2>2 DEF ImportInv, FilesOk
  <2> QED  BY <2>1, <2>2, <2>3, <1>5, <1>6 DEF FilesOk, Honest
<1>8. FilesOk(files', cloud') /\ cli'.pc = "upload" /\ Uploads(cli'.manifest, cloud')
  <2>1. CASE attempt(k) /\ UNCHANGED files
    <3> DEFINE m == mediaEntry(k, "pending", cli.manifest[k].tries + 1)
    <3>1. Uploads(m, cloud')  BY <1>4
    <3>2. uploading(m, cli.sending \cup {k})  BY <2>1 DEF attempt
    <3> HIDE DEF m
    <3> QED  BY <2>1, <3>1, <3>2, <1>5, <1>6
  <2>2. CASE Uploaded(k)
    <3>1. saves(k, "uploaded") /\ k \in cloud  BY <2>2 DEF Uploaded
    <3> QED  BY <3>1, <1>7
  <2>3. CASE saves(k, "failed")  BY <2>3, <1>7
  <2> QED  BY <2>1, <2>2, <2>3 DEF Send, UploadFails
<1> QED  BY <1>1, <1>3, <1>8 DEF ImportInv, CliInv

LEMMA OrderSound ==
    ASSUME ImportInv, Order PROVE ImportInv'
<1> DEFINE n == bounds.orders + 1
<1>1. /\ UNCHANGED <<cloud, bank, shelf>>
      /\ bounds' \in [orders : Nat, crashes : Nat, edits : Nat] /\ bounds'.orders = n
  <2>1. bounds' = [bounds EXCEPT !.orders = n]  BY DEF Order
  <2>2. bounds' \in [orders : Nat, crashes : Nat, edits : Nat] /\ bounds'.orders = n
    BY <2>1 DEF ImportInv
  <2>3. UNCHANGED <<cloud, bank, shelf>>
    BY DEF Order, Check, Unprepared, StartMedia, Blocked, StartImport
  <2> QED  BY <2>2, <2>3
<1>2. PICK order \in Orders :
        Check(order) \/ Unprepared(order) \/ StartMedia(order) \/ Blocked(order) \/ StartImport(order)
  BY DEF Order
<1>3. CASE Unprepared(order) \/ Blocked(order)
  <2>1. UNCHANGED files /\ cli'.pc = "idle"  BY <1>3 DEF Unprepared, Blocked, Exit, NotRunning
  <2> QED  BY <2>1, <1>1 DEF ImportInv, CliInv
<1>4. CASE Check(order)
  <2>1. cli'.pc = "idle"  BY <1>4 DEF Check, Exit, NotRunning
  <2>2. FilesOk(files', cloud)
    <3>1. files' = [mapped |-> mapRows(Dataset), errors |-> validationErrors(Dataset),
                    manifest |-> files.manifest]
      BY <1>4 DEF Check
    <3> QED  BY <3>1 DEF ImportInv, FilesOk
  <2> QED  BY <2>1, <2>2, <1>1 DEF ImportInv, CliInv
<1>5. CASE StartMedia(order)
  <2> DEFINE m == mergeManifest(resolve(limited(files.mapped, order.limit)), files.manifest)
  <2>1. Uploads(m, cloud)
    <3> DEFINE fresh == resolve(limited(files.mapped, order.limit))
    <3>1. \A k \in DOMAIN fresh : fresh[k].status # "uploaded"  BY DEF resolve
    <3> HIDE DEF fresh
    <3>2. /\ DOMAIN m = DOMAIN fresh
          /\ \A k \in DOMAIN fresh :
                m[k] = fresh[k] \/ (files.manifest # None /\ k \in DOMAIN files.manifest
                                    /\ m[k] = files.manifest[k])
      BY DEF mergeManifest, fresh
    <3> QED  BY <3>1, <3>2 DEF ImportInv, FilesOk, Honest, Uploads
  <2>2. /\ files' = [files EXCEPT !.manifest = m]
        /\ \/ cli' = NotRunning
           \/ cli' = [pc |-> "upload", order |-> order, manifest |-> m, sending |-> {}]
    BY <1>5 DEF StartMedia, Exit
  <2> HIDE DEF m
  <2>3. FilesOk(files', cloud)
    <3>1. /\ files' = [mapped |-> files'.mapped, errors |-> files'.errors,
                       manifest |-> files'.manifest]
          /\ files'.mapped = files.mapped /\ files'.manifest = m
      BY <2>2 DEF ImportInv, FilesOk
    <3> QED  BY <3>1, <2>1 DEF ImportInv, FilesOk, Honest
  <2>4. cli'.pc = "idle" \/ (cli'.pc = "upload" /\ Uploads(cli'.manifest, cloud))
    BY <2>1, <2>2 DEF NotRunning
  <2> QED  BY <2>3, <2>4, <1>1 DEF ImportInv, CliInv
<1>6. CASE StartImport(order)
  <2>1. RunInv(cli', bank, shelf, cloud, n)  BY <1>6, StartsSound
  <2>2. UNCHANGED files  BY <1>6 DEF StartImport
  <2> QED  BY <2>1, <2>2, <1>1 DEF ImportInv, CliInv
<1> QED  BY <1>2, <1>3, <1>4, <1>5, <1>6

(* A change of the bank by an editor or by time, whatever the run is at.   *)
LEMMA BankMoves ==
    ASSUME ImportInv, BankOk(bank', cloud), Grown(bank, bank'),
           UNCHANGED <<files, cloud, shelf, published, cli>>,
           bounds' \in [orders : Nat, crashes : Nat, edits : Nat], bounds'.orders = bounds.orders,
           \A w \in DOMAIN bank : \/ ~importing \/ bank'[w].late
                                  \/ /\ bank'[w].text = bank[w].text
                                     /\ bank'[w].media = bank[w].media
                                     /\ bank'[w].late = bank[w].late,
           \A w \in DOMAIN bank' : \/ w \in DOMAIN bank \/ ~importing
                                   \/ bank'[w].source = "ADMIN" /\ bank'[w].run = bounds.orders
    PROVE  ImportInv'
<1>1. ShelfOk(shelf, bank')  BY DecksStay DEF ImportInv
<1>2. CASE RunInv(cli, bank, shelf, cloud, bounds.orders)
  <2>1. RunInv(cli, bank', shelf, cloud, bounds.orders)
    BY <1>2, RunStays DEF ImportInv, importing
  <2> QED  BY <2>1, <1>1 DEF ImportInv, CliInv
<1>3. CASE ~RunInv(cli, bank, shelf, cloud, bounds.orders)
  BY <1>1, <1>3 DEF ImportInv, CliInv
<1> QED  BY <1>2, <1>3

LEMMA EditorsSound ==
    ASSUME ImportInv,
           \/ \E k \in ImportKeys : EditorCreates(k)
           \/ \E id \in DOMAIN bank : EditorEdits(id) \/ EditorUploads(id)
    PROVE  ImportInv'
<1>1. /\ bounds' = [bounds EXCEPT !.edits = @ + 1]
      /\ UNCHANGED <<files, cloud, shelf, published, cli>>
  BY DEF EditorCreates, EditorEdits, EditorUploads, EditorChanges
<1>2. bounds' \in [orders : Nat, crashes : Nat, edits : Nat] /\ bounds'.orders = bounds.orders
      /\ bounds.orders \in Nat /\ BankOk(bank, cloud)
  BY <1>1 DEF ImportInv
<1>3. ASSUME NEW k \in ImportKeys, EditorCreates(k) PROVE ImportInv'
  <2> DEFINE run == IF importing THEN bounds.orders ELSE 0
             x == [key |-> k, source |-> "ADMIN", text |-> "admin", media |-> None,
                   young |-> TRUE, edited |-> FALSE, run |-> run, late |-> FALSE]
  <2>1. run \in Nat /\ (importing => run = bounds.orders)  BY <1>2
  <2>2. bank' = Append(bank, x)  BY <1>3 DEF EditorCreates
  <2> HIDE DEF run
  <2>3. x \in WordType  BY <2>1, NewWordTyped
  <2>4. x.key = k /\ x.source = "ADMIN" /\ x.media = None /\ x.run = run  OBVIOUS
  <2> HIDE DEF x
  <2>5. OwnText(x) /\ x.media # "import"  BY <2>4, ImportAssumption DEF OwnText
  <2>6. /\ BankOk(bank', cloud) /\ Grown(bank, bank')
        /\ DOMAIN bank' = DOMAIN bank \cup {Len(bank) + 1} /\ bank'[Len(bank) + 1] = x
        /\ \A w \in DOMAIN bank : bank'[w] = bank[w]
    BY <1>2, <2>2, <2>3, <2>4, <2>5, AppendsWord
  <2> QED  BY <1>1, <1>2, <2>1, <2>4, <2>6, BankMoves
<1>4. ASSUME NEW id \in DOMAIN bank, NEW text \in {"import", "admin"},
             NEW media \in {None, "import", "admin"}, EditorChanges(id, text, media),
             media = "import" => bank[id].media = "import"
      PROVE  ImportInv'
  <2> DEFINE o == bank[id]
             e == o.edited \/ ~o.young
             l == o.young \/ importing
             x == [key |-> o.key, source |-> o.source, text |-> text, media |-> media,
                   young |-> o.young, edited |-> e, run |-> o.run, late |-> l]
  <2>1. o \in WordType /\ (o.media = "import" => o.key \in cloud)
    BY <1>2, ElementOfSeq, LenProperties DEF BankOk
  <2>2. bank' = [bank EXCEPT ![id] = x]  BY <1>4 DEF EditorChanges
  <2>3. e \in BOOLEAN /\ l \in BOOLEAN /\ (e \/ l) /\ (importing => l)
    <3>1. o.young \in BOOLEAN /\ o.edited \in BOOLEAN  BY <2>1 DEF WordType
    <3> QED  BY <3>1
  <2> HIDE DEF e, l, o
  <2>4. x \in WordType  BY <2>1, <2>3 DEF WordType
  <2>5. /\ x.key = o.key /\ x.source = o.source /\ x.run = o.run /\ x.text = text
        /\ x.media = media /\ x.edited = e /\ x.late = l
    OBVIOUS
  <2> HIDE DEF x
  <2>6. OwnText(x)  BY <2>3, <2>5 DEF OwnText
  <2>7. /\ BankOk(bank', cloud) /\ Grown(bank, bank') /\ DOMAIN bank' = DOMAIN bank
        /\ bank'[id] = x /\ \A w \in DOMAIN bank : w # id => bank'[w] = bank[w]
    BY <1>2, <1>4, <2>1, <2>2, <2>4, <2>5, <2>6, ReplacesWord DEF o
  <2>8. \A w \in DOMAIN bank : \/ ~importing \/ bank'[w].late
                               \/ /\ bank'[w].text = bank[w].text /\ bank'[w].media = bank[w].media
                                  /\ bank'[w].late = bank[w].late
    BY <2>3, <2>5, <2>7
  <2> QED  BY <1>1, <1>2, <2>7, <2>8, BankMoves
<1>5. ASSUME NEW id \in DOMAIN bank, EditorEdits(id) \/ EditorUploads(id) PROVE ImportInv'
  <2>1. bank[id] \in WordType  BY <1>2, ElementOfSeq, LenProperties DEF BankOk
  <2>2. bank[id].text \in {"import", "admin"} /\ bank[id].media \in {None, "import", "admin"}
    BY <2>1 DEF WordType
  <2> QED  BY <1>4, <1>5, <2>2 DEF EditorEdits, EditorUploads
<1> QED  BY <1>3, <1>5

LEMMA SettleSound == ASSUME ImportInv, Settle PROVE ImportInv'
<1>1. /\ bank' = [w \in DOMAIN bank |-> [bank[w] EXCEPT !.young = FALSE]]
      /\ UNCHANGED <<files, cloud, shelf, published, cli, bounds>>
  BY DEF Settle
<1>2. bank \in Seq(WordType) /\ DOMAIN bank = 1 .. Len(bank) /\ Len(bank) \in Nat
  BY LenProperties DEF ImportInv, BankOk
<1>3. ASSUME NEW w \in DOMAIN bank
      PROVE  LET x == bank[w]  y == [x EXCEPT !.young = FALSE]
             IN  /\ y \in WordType /\ y.key = x.key /\ y.source = x.source /\ y.text = x.text
                 /\ y.media = x.media /\ y.edited = x.edited /\ y.run = x.run /\ y.late = x.late
  <2> DEFINE x == bank[w]
  <2>1. x \in WordType  BY <1>2, ElementOfSeq
  <2> HIDE DEF x
  <2>2. [x EXCEPT !.young = FALSE] \in WordType  BY <2>1 DEF WordType
  <2>3. /\ [x EXCEPT !.young = FALSE].key = x.key /\ [x EXCEPT !.young = FALSE].source = x.source
        /\ [x EXCEPT !.young = FALSE].text = x.text /\ [x EXCEPT !.young = FALSE].media = x.media
        /\ [x EXCEPT !.young = FALSE].edited = x.edited /\ [x EXCEPT !.young = FALSE].run = x.run
        /\ [x EXCEPT !.young = FALSE].late = x.late
    BY <2>1 DEF WordType
  <2> QED  BY <2>2, <2>3 DEF x
<1>4. /\ DOMAIN bank' = DOMAIN bank
      /\ \A w \in DOMAIN bank :
            /\ bank'[w] \in WordType /\ bank'[w].key = bank[w].key
            /\ bank'[w].source = bank[w].source /\ bank'[w].text = bank[w].text
            /\ bank'[w].media = bank[w].media /\ bank'[w].edited = bank[w].edited
            /\ bank'[w].run = bank[w].run /\ bank'[w].late = bank[w].late
  BY <1>1, <1>3
<1>5. bank' \in Seq(WordType)
  <2>1. bank' \in [1 .. Len(bank) -> WordType]  BY <1>1, <1>2, <1>4
  <2> QED  BY <2>1, <1>2, SeqDef
<1>6. BankOk(bank', cloud)
  <2>1. OnceIn(bank')  BY <1>4 DEF ImportInv, BankOk, OnceIn
  <2>2. \A w \in DOMAIN bank : OwnText(bank'[w]) /\ (bank'[w].media = "import" => bank'[w].key \in cloud)
    BY <1>4 DEF ImportInv, BankOk, OwnText
  <2> QED  BY <1>4, <1>5, <2>1, <2>2 DEF BankOk
<1>7. Grown(bank, bank')  BY <1>4 DEF Grown
<1> QED  BY <1>1, <1>4, <1>6, <1>7, BankMoves DEF ImportInv

LEMMA ImportKept == ImportInv /\ [ImportNext]_importVars => ImportInv'
<1> SUFFICES ASSUME ImportInv, [ImportNext]_importVars PROVE ImportInv'  OBVIOUS
<1>1. CASE UNCHANGED importVars  BY <1>1 DEF importVars, ImportInv
<1>2. CASE Order  BY <1>2, OrderSound
<1>3. CASE CreateWord  BY <1>3, CreateWordSound
<1>4. CASE EndCreate \/ EndUpdate \/ ImportDone  BY <1>4, EndsSound
<1>5. CASE ReadWord  BY <1>5, ReadWordSound
<1>6. CASE WriteWord  BY <1>6, WriteWordSound
<1>7. CASE GetOrCreateDeck  BY <1>7, GetDeckSound
<1>8. CASE AttachWords  BY <1>8, AttachSound
<1>9. CASE EndImport \/ PublishDeck \/ Dies \/ MediaDone  BY <1>9, LeavesSound
<1>10. ASSUME NEW k \in ImportKeys, Send(k) \/ Uploaded(k) \/ UploadFails(k) PROVE ImportInv'
  BY <1>10, UploadsSound
<1>11. CASE \/ \E k \in ImportKeys : EditorCreates(k)
            \/ \E id \in DOMAIN bank : EditorEdits(id) \/ EditorUploads(id)
  BY <1>11, EditorsSound
<1>12. CASE Settle  BY <1>12, SettleSound
<1> QED
  BY <1>1, <1>2, <1>3, <1>4, <1>5, <1>6, <1>7, <1>8, <1>9, <1>10, <1>11, <1>12 DEF ImportNext
-----------------------------------------------------------------------------
(* What the invariant says of a run that ends, and of a step.              *)
LEMMA RangeCounted ==
    ASSUME NEW s, NEW n \in Nat, DOMAIN s = 1 .. n, Distinct(s), s = [i \in DOMAIN s |-> s[i]]
    PROVE  Cardinality(Range(s)) = n
<1>1. s \in [1 .. n -> Range(s)]  BY DEF Range
<1>2. s \in Injection(1 .. n, Range(s))  BY <1>1 DEF Injection, IsInjective, Distinct
<1>3. s \in Surjection(1 .. n, Range(s))  BY <1>1 DEF Surjection, Range
<1>4. ExistsBijection(1 .. n, Range(s))  BY <1>2, <1>3 DEF ExistsBijection, Bijection
<1> QED  BY <1>4, FS_CountingElements

LEMMA ShelvesCounted ==
    ASSUME ImportInv, NEW d \in DOMAIN shelf
    PROVE  Len(shelf[d]) <= MaxDeckWords /\ Cardinality(Range(shelf[d])) = Len(shelf[d])
<1> DEFINE s == shelf[d]
<1>1. s \in Seq(Nat) /\ Distinct(s) /\ Len(s) <= MaxDeckWords
  BY DEF ImportInv, ShelfOk, DeckOk
<1> HIDE DEF s
<1>2. DOMAIN s = 1 .. Len(s) /\ Len(s) \in Nat /\ s = [i \in DOMAIN s |-> s[i]]
  BY <1>1, LenProperties
<1>3. Cardinality(Range(s)) = Len(s)  BY <1>1, <1>2, RangeCounted
<1> QED  BY <1>1, <1>3 DEF s

LEMMA RunsComplete == ImportInv => ImportComplete
<1> SUFFICES ASSUME ImportInv, cli.pc = "imported", ~cli.order.dry, NEW i \in DOMAIN cli.words
             PROVE  LET row == cli.words[i]
                    IN  \/ row.deck = NoDeck \/ row.key \in cli.failed
                        \/ \E id \in Range(shelf[row.deck]) : bank[id].key = row.key
                        \/ Len(shelf[row.deck]) + Cardinality(repeatsBefore(cli.words, i))
                              >= MaxDeckWords
  BY DEF ImportComplete
<1> DEFINE row == cli.words[i]
           ids == shelf[row.deck]
<1>1. Running  BY ARunRuns DEF RunPcs
<1>2. cli.groups = <<>> /\ (row.deck # NoDeck =>
         InDeck(cli, i, bank, shelf) \/ \E n \in DOMAIN cli.groups : cli.groups[n] = row.deck)
  BY <1>1 DEF Running, RunInv, GroupsInv
<1>3. CASE InDeck(cli, i, bank, shelf)
  <2>1. row.key \in cli.failed \/ Placed(cli.words, i, ids, bank)  BY <1>3 DEF InDeck
  <2>2. ASSUME NEW n \in DOMAIN ids, bank[ids[n]].key = row.key
        PROVE  \E id \in Range(ids) : bank[id].key = row.key
    BY <2>2 DEF Range
  <2> QED  BY <2>1, <2>2 DEF Placed
<1>4. DOMAIN cli.groups = {}  BY <1>2
<1> QED  BY <1>2, <1>3, <1>4

LEMMA NothingTwice == ImportInv => ImportedOnce
  BY DEF ImportInv, BankOk, OnceIn, ImportedOnce

LEMMA MediaKept == ImportInv => MediaExists
  BY ShelvesCounted DEF ImportInv, BankOk, MediaExists

LEMMA AdminWordsStay ==
    ASSUME ImportInv, [ImportNext]_importVars, NEW w \in DOMAIN bank
    PROVE  /\ bank[w].text = "admin" /\ bank'[w].text # "admin" => cli.order.force \/ bank[w].late
           /\ bank[w].media = "admin" /\ bank'[w].media # "admin" => bank[w].late
<1>1. bank \in Seq(WordType) /\ DOMAIN bank = 1 .. Len(bank) /\ Len(bank) \in Nat
  BY LenProperties DEF ImportInv, BankOk
<1>2. CASE bank'[w] = bank[w]  BY <1>2
<1>3. ASSUME NEW x, bank' = Append(bank, x) PROVE bank'[w] = bank[w]
  BY <1>1, <1>3
<1>4. CASE WriteWord /\ bank' # bank
  <2> DEFINE id == toUpdate.id
  <2>1. cli.pc = "write" /\ bank' = [bank EXCEPT ![id] = rewritten(bank[id])]
    BY <1>4 DEF WriteWord
  <2>2. /\ id \in DOMAIN bank
        /\ bank[id].text = "admin" => cli.order.force \/ bank[id].late
        /\ bank[id].media = "admin" => rewritten(bank[id]).media = "admin" \/ bank[id].late
    BY <2>1, RewrittenSound
  <2> HIDE DEF id
  <2>3. CASE w = id
    <3>1. bank'[w] = rewritten(bank[w])  BY <2>1, <2>2, <2>3
    <3> QED  BY <2>2, <2>3, <3>1
  <2>4. CASE w # id  BY <2>1, <2>4, <1>2
  <2> QED  BY <2>3, <2>4
<1>5. ASSUME NEW id \in DOMAIN bank, NEW text, NEW media, EditorChanges(id, text, media),
             text \in {"admin", bank[id].text}, media \in {"admin", bank[id].media}
      PROVE  /\ bank[w].text = "admin" => bank'[w].text = "admin"
             /\ bank[w].media = "admin" => bank'[w].media = "admin"
  BY <1>5 DEF EditorChanges
<1>6. CASE Settle
  <2>1. bank' = [v \in DOMAIN bank |-> [bank[v] EXCEPT !.young = FALSE]]  BY <1>6 DEF Settle
  <2>2. bank[w] \in WordType  BY <1>1, ElementOfSeq
  <2>3. bank'[w] = [bank[w] EXCEPT !.young = FALSE]  BY <2>1
  <2>4. bank'[w].text = bank[w].text /\ bank'[w].media = bank[w].media
    BY <2>2, <2>3 DEF WordType
  <2> QED  BY <2>4
<1>7. CASE CreateWord
  BY <1>2, <1>3, <1>7 DEF CreateWord
<1>8. CASE \E k \in ImportKeys : EditorCreates(k)
  BY <1>3, <1>2, <1>8 DEF EditorCreates
<1>9. CASE \E id \in DOMAIN bank : EditorEdits(id) \/ EditorUploads(id)
  BY <1>5, <1>9 DEF EditorEdits, EditorUploads
<1>10. CASE Order
  BY <1>2, <1>10 DEF Order, Check, Unprepared, StartMedia, Blocked, StartImport
<1>11. CASE EndCreate \/ ReadWord \/ EndUpdate \/ GetOrCreateDeck \/ AttachWords \/ ImportDone
            \/ EndImport \/ PublishDeck \/ MediaDone \/ Dies
            \/ \E k \in ImportKeys : Send(k) \/ Uploaded(k) \/ UploadFails(k)
  BY <1>2, <1>11 DEF EndCreate, ReadWord, EndUpdate, GetOrCreateDeck, AttachWords, ImportDone,
        EndImport, PublishDeck, MediaDone, Dies, Send, Uploaded, UploadFails
<1>12. CASE UNCHANGED importVars  BY <1>2, <1>12 DEF importVars
<1>13. CASE WriteWord /\ bank' = bank  BY <1>2, <1>13
<1> QED
  BY <1>4, <1>6, <1>7, <1>8, <1>9, <1>10, <1>11, <1>12, <1>13 DEF ImportNext

(* An import that was cut short any number of times resumes: one that      *)
(* reaches its summary leaves every word of the file in its deck, but for  *)
(* those it reported and those without room; no text is imported twice,    *)
(* nor beside an editor's, but one that came during the run; no word has   *)
(* the address of an asset that was not uploaded; and no deck holds a word *)
(* twice or more words than the cap (ImportEngineService.import,           *)
(* DeckBuilderService.build, MediaUploaderService.upload).                 *)
THEOREM ImportAlwaysResumes == ImportSpec => []ImportResumes
<1>1. ImportInv => ImportResumes
  BY RunsComplete, NothingTwice, MediaKept DEF ImportResumes
<1> QED  BY <1>1, ImportStarts, ImportKept, PTL DEF ImportSpec

(* No step of an import takes an editor's work: a text of his is replaced  *)
(* only by an order to overwrite, or when his edit came within the epsilon *)
(* of the creation or after the run had read the bank; and an uploaded     *)
(* medium only when it came so (ImportEngineService: isProtected and       *)
(* updateWord).                                                            *)
THEOREM AdminWorkAlwaysKept == ImportSpec => AdminWorkKept
<1>1. ImportInv /\ [ImportNext]_importVars =>
        [\A w \in DOMAIN bank :
           /\ bank[w].text = "admin" /\ bank'[w].text # "admin" => cli.order.force \/ bank[w].late
           /\ bank[w].media = "admin" /\ bank'[w].media # "admin" => bank[w].late]_importVars
  BY AdminWordsStay
<1> QED  BY <1>1, ImportStarts, ImportKept, PTL DEF ImportSpec, AdminWorkKept
-----------------------------------------------------------------------------
(* The review queue (ReviewQueue).                                         *)

\* A strict order in which any two members are compared
Strict(R, S) ==
    /\ \A x, y \in S : <<x, y>> \in R => <<y, x>> \notin R
    /\ \A x, y, z \in S : <<x, y>> \in R /\ <<y, z>> \in R => <<x, z>> \in R
    /\ \A x, y \in S : x # y => <<x, y>> \in R \/ <<y, x>> \in R

\* A list of the members of S, each once, in the order R
Lists(r, S, R) ==
    /\ r \in [1 .. Cardinality(S) -> S]
    /\ \A x \in S : \E k \in 1 .. Cardinality(S) : r[k] = x
    /\ \A i, j \in 1 .. Cardinality(S) : /\ i < j => <<r[i], r[j]>> \in R
                                         /\ i # j => r[i] # r[j]

(* Ranking numbers the members of a finite set in a strict order.          *)
LEMMA RankedLists ==
    ASSUME NEW S, IsFiniteSet(S), NEW R, Strict(R, S)
    PROVE  Cardinality(S) \in Nat /\ Lists(Ranked(S, R), S, R)
<1> DEFINE n == Cardinality(S)
           below(x) == {y \in S : <<y, x>> \in R}
           rank == [x \in S |-> Cardinality(below(x))]
           at == [x \in S |-> rank[x] + 1]
           r == Ranked(S, R)
<1>1. n \in Nat  BY FS_CardinalityType
<1>2. \A x \in S : IsFiniteSet(below(x)) /\ rank[x] \in Nat /\ rank[x] < n
  <2> SUFFICES ASSUME NEW x \in S
               PROVE  IsFiniteSet(below(x)) /\ rank[x] \in Nat /\ rank[x] < n
    OBVIOUS
  <2>1. below(x) \in SUBSET S /\ x \notin below(x)  BY DEF Strict
  <2> HIDE DEF below
  <2>2. IsFiniteSet(below(x)) /\ rank[x] <= n /\ (rank[x] = n => below(x) = S)
    BY <2>1, FS_Subset
  <2>3. rank[x] \in Nat  BY <2>2, FS_CardinalityType
  <2> QED  BY <1>1, <2>1, <2>2, <2>3
<1>2a. \A x \in S : rank[x] \in Nat /\ rank[x] < n
  BY <1>2
<1>3. ASSUME NEW x \in S, NEW y \in S, <<x, y>> \in R PROVE rank[x] < rank[y]
  <2>1. below(x) \in SUBSET below(y)  BY <1>3 DEF Strict
  <2>2. x \in below(y) /\ x \notin below(x)  BY <1>3 DEF Strict
  <2>3. IsFiniteSet(below(y)) /\ rank[x] \in Nat /\ rank[y] \in Nat  BY <1>2
  <2> HIDE DEF below
  <2>4. rank[x] <= rank[y] /\ (rank[x] = rank[y] => below(x) = below(y))
    BY <2>1, <2>3, FS_Subset
  <2> QED  BY <2>2, <2>3, <2>4
<1>4. \A x, y \in S : rank[x] = rank[y] => x = y
  <2> SUFFICES ASSUME NEW x \in S, NEW y \in S, rank[x] = rank[y], x # y PROVE FALSE  OBVIOUS
  <2>1. <<x, y>> \in R \/ <<y, x>> \in R  BY DEF Strict
  <2>2. rank[x] \in Nat /\ rank[y] \in Nat  BY <1>2a
  <2> HIDE DEF rank
  <2> QED  BY <1>3, <2>1, <2>2
<1>5. \A k \in 1 .. n : \E x \in S : rank[x] = k - 1
  <2> HIDE DEF rank
  <2>1. at \in [S -> 1 .. n]  BY <1>1, <1>2a
  <2>2. \A x, y \in S : at[x] = at[y] => x = y  BY <1>2a, <1>4
  <2>3. at \in Injection(S, 1 .. n)
    <3>1. IsInjective(at)  BY <2>2 DEF IsInjective
    <3> QED  BY <2>1, <3>1 DEF Injection
  <2>4. IsFiniteSet(1 .. n) /\ Cardinality(1 .. n) = n  BY <1>1, FS_Interval
  <2>5. at \in Surjection(S, 1 .. n)
    <3> HIDE DEF at
    <3> QED  BY <2>3, <2>4, FS_Injection DEF n
  <2>6. \A k \in 1 .. n : \E x \in S : at[x] = k  BY <2>5 DEF Surjection
  <2> QED  BY <1>1, <1>2a, <2>6
<1>6. r = [k \in 1 .. n |-> CHOOSE x \in S : rank[x] = k - 1]
  <2>1. r = [k \in 1 .. n |-> CHOOSE x \in S : Cardinality(below(x)) = k - 1]  BY DEF Ranked
  <2>2. \A k : (CHOOSE x \in S : Cardinality(below(x)) = k - 1) = CHOOSE x \in S : rank[x] = k - 1
    BY Zenon
  <2> QED  BY <2>1, <2>2, Zenon
<1> HIDE DEF rank, r
<1>7. \A k \in 1 .. n : r[k] \in S /\ rank[r[k]] = k - 1
  <2> SUFFICES ASSUME NEW k \in 1 .. n PROVE r[k] \in S /\ rank[r[k]] = k - 1  OBVIOUS
  <2>1. r[k] = CHOOSE x \in S : rank[x] = k - 1  BY <1>6
  <2>2. \E x \in S : rank[x] = k - 1  BY <1>5
  <2> QED  BY <2>1, <2>2
<1>8. r \in [1 .. n -> S]  BY <1>6, <1>7
<1>9. ASSUME NEW x \in S PROVE \E k \in 1 .. n : r[k] = x
  <2>1. rank[x] + 1 \in 1 .. n /\ (rank[x] + 1) - 1 = rank[x]  BY <1>1, <1>2a
  <2>2. r[rank[x] + 1] \in S /\ rank[r[rank[x] + 1]] = rank[x]  BY <1>7, <2>1
  <2>3. r[rank[x] + 1] = x  BY <1>4, <2>2
  <2> QED  BY <2>1, <2>3
<1>10. ASSUME NEW i \in 1 .. n, NEW j \in 1 .. n, i # j PROVE r[i] # r[j]
  <2>1. rank[r[i]] = i - 1 /\ rank[r[j]] = j - 1  BY <1>7
  <2>2. i \in Int /\ j \in Int /\ i - 1 # j - 1  BY <1>10
  <2> QED  BY <2>1, <2>2
<1>11. ASSUME NEW i \in 1 .. n, NEW j \in 1 .. n, i < j PROVE <<r[i], r[j]>> \in R
  <2>1. rank[r[i]] = i - 1 /\ rank[r[j]] = j - 1 /\ r[i] \in S /\ r[j] \in S  BY <1>7
  <2>2. i \in Int /\ j \in Int /\ i - 1 < j - 1 /\ i # j  BY <1>11
  <2>3. r[i] # r[j]  BY <1>10, <2>2
  <2>4. <<r[i], r[j]>> \in R \/ <<r[j], r[i]>> \in R  BY <2>1, <2>3 DEF Strict
  <2>5. ASSUME <<r[j], r[i]>> \in R PROVE FALSE
    <3>1. rank[r[j]] < rank[r[i]]  BY <1>3, <2>1, <2>5
    <3> QED  BY <2>1, <2>2, <3>1
  <2> QED  BY <2>4, <2>5
<1> QED  BY <1>1, <1>8, <1>9, <1>10, <1>11 DEF Lists, r

\* The members of P as the places of s, in rising order, and what stands there
Picks(c, s, P, nth) ==
    /\ nth \in [1 .. Cardinality(P) -> P]
    /\ \A p \in P : \E k \in 1 .. Cardinality(P) : nth[k] = p
    /\ \A i, j \in 1 .. Cardinality(P) : i < j => nth[i] < nth[j]
    /\ \A k \in 1 .. Cardinality(P) : c[k] = s[nth[k]]

(* Choosing keeps what stands at the places, in the order it stands there. *)
LEMMA ChosenPlaces ==
    ASSUME NEW T, NEW s \in Seq(T), NEW P \in SUBSET DOMAIN s
    PROVE  /\ IsFiniteSet(P) /\ Cardinality(P) \in Nat
           /\ Chosen(s, P) \in Seq(T) /\ Len(Chosen(s, P)) = Cardinality(P)
           /\ \E nth : Picks(Chosen(s, P), s, P, nth)
<1> DEFINE R == {x \in P \X P : x[1] < x[2]}
           nth == Ranked(P, R)
           n == Cardinality(P)
           c == Chosen(s, P)
<1>1. Len(s) \in Nat /\ DOMAIN s = 1 .. Len(s)  OBVIOUS
<1>2. IsFiniteSet(P)
  <2>1. IsFiniteSet(1 .. Len(s))  BY <1>1, FS_Interval
  <2> QED  BY <1>1, <2>1, FS_Subset
<1>3. \A x, y \in P : <<x, y>> \in R <=> x < y  OBVIOUS
<1>4. \A x \in P : x \in Nat  BY <1>1
<1> HIDE DEF R
<1>5. Strict(R, P)
  <2>1. \A x, y \in P : <<x, y>> \in R => <<y, x>> \notin R  BY <1>3, <1>4
  <2>2. \A x, y, z \in P : <<x, y>> \in R /\ <<y, z>> \in R => <<x, z>> \in R  BY <1>3, <1>4
  <2>3. \A x, y \in P : x # y => <<x, y>> \in R \/ <<y, x>> \in R  BY <1>3, <1>4
  <2> QED  BY <2>1, <2>2, <2>3 DEF Strict
<1>6. n \in Nat /\ Lists(nth, P, R)  BY <1>2, <1>5, RankedLists
<1>7. c = [k \in DOMAIN nth |-> s[nth[k]]]  BY DEF Chosen, R
<1> HIDE DEF nth, c
<1>8. nth \in [1 .. n -> P] /\ DOMAIN nth = 1 .. n  BY <1>6 DEF Lists
<1>9. \A k \in 1 .. n : s[nth[k]] \in T  BY <1>1, <1>8
<1>10. c \in Seq(T) /\ Len(c) = n /\ \A k \in 1 .. n : c[k] = s[nth[k]]
  <2> HIDE DEF n
  <2>1. c = [k \in 1 .. n |-> s[nth[k]]]  BY <1>7, <1>8
  <2>2. c \in [1 .. n -> T]  BY <1>9, <2>1
  <2> QED  BY <1>6, <2>1, <2>2
<1>11. Picks(c, s, P, nth)
  <2>1. \A i, j \in 1 .. n : i < j => nth[i] < nth[j]  BY <1>3, <1>6, <1>8 DEF Lists
  <2> QED  BY <1>6, <1>8, <1>10, <2>1 DEF Picks, Lists
<1> QED  BY <1>2, <1>6, <1>10, <1>11 DEF c

(* A part of a list, and its first n.                                      *)
LEMMA PartOf ==
    ASSUME NEW S, NEW s \in Seq(S), NEW m \in Nat, NEW n \in Nat
    PROVE  SubSeq(s, m, n) = [i \in 1 .. (1 + n - m) |-> s[i + m - 1]]
OBVIOUS

LEMMA FirstPart ==
    ASSUME NEW T, NEW s \in Seq(T), NEW n \in Nat
    PROVE  /\ First(s, n) \in Seq(T) /\ Len(First(s, n)) = smallest(n, Len(s))
           /\ smallest(n, Len(s)) \in Nat
           /\ \A k \in 1 .. smallest(n, Len(s)) : k \in 1 .. Len(s) /\ First(s, n)[k] = s[k]
<1> DEFINE m == smallest(n, Len(s))
<1>1. m \in Nat /\ m <= Len(s) /\ Len(s) \in Nat  BY DEF smallest
<1>2. First(s, n) = SubSeq(s, 1, m)  BY DEF First, smallest
<1> HIDE DEF m
<1>3. SubSeq(s, 1, m) = [i \in 1 .. (1 + m - 1) |-> s[i + 1 - 1]]  BY <1>1, PartOf
<1>4. 1 + m - 1 = m /\ \A i \in Int : i + 1 - 1 = i  BY <1>1
<1>5. SubSeq(s, 1, m) = [i \in 1 .. m |-> s[i]]  BY <1>3, <1>4
<1>6. \A k \in 1 .. m : k \in 1 .. Len(s) /\ s[k] \in T  BY <1>1
<1>7. [i \in 1 .. m |-> s[i]] \in [1 .. m -> T]  BY <1>6
<1>8. SubSeq(s, 1, m) \in Seq(T) /\ Len(SubSeq(s, 1, m)) = m
  <2> DEFINE f == [i \in 1 .. m |-> s[i]]
  <2>1. f \in [1 .. m -> T]  BY <1>7
  <2> HIDE DEF f
  <2>2. f \in Seq(T) /\ Len(f) = m  BY <1>1, <2>1
  <2> QED  BY <1>5, <2>2 DEF f
<1> QED  BY <1>1, <1>2, <1>5, <1>6, <1>8 DEF m

\* The values of a list, and how many there are
Values(f, n) == {f[i] : i \in 1 .. n}

LEMMA ValuesCounted ==
    ASSUME NEW n \in Nat, NEW f, DOMAIN f = 1 .. n
    PROVE  /\ IsFiniteSet(Values(f, n)) /\ Cardinality(Values(f, n)) \in Nat
           /\ Cardinality(Values(f, n)) <= n
           /\ (\A i, j \in 1 .. n : i # j => f[i] # f[j]) => Cardinality(Values(f, n)) = n
<1> DEFINE V == Values(f, n)
           g == [i \in 1 .. n |-> f[i]]
<1>1. IsFiniteSet(1 .. n) /\ Cardinality(1 .. n) = n  BY FS_Interval
<1>2. g \in [1 .. n -> V] /\ \A v \in V : \E i \in 1 .. n : g[i] = v  BY DEF Values
<1> HIDE DEF V
<1>3. g \in Surjection(1 .. n, V)
  <2> HIDE DEF g
  <2> QED  BY <1>2 DEF Surjection
<1>4. IsFiniteSet(V) /\ Cardinality(V) <= n  BY <1>1, <1>3, FS_Surjection
<1>5. ASSUME \A i, j \in 1 .. n : i # j => f[i] # f[j] PROVE Cardinality(V) = n
  <2>1. \A i, j \in 1 .. n : g[i] = g[j] => i = j  BY <1>5
  <2>2. DOMAIN g = 1 .. n  OBVIOUS
  <2> HIDE DEF g
  <2>3. g \in Injection(1 .. n, V)
    <3>1. IsInjective(g)  BY <2>1, <2>2 DEF IsInjective
    <3> QED  BY <1>2, <3>1 DEF Injection
  <2> QED  BY <1>1, <1>3, <2>3, FS_Surjection
<1>6. Cardinality(V) \in Nat  BY <1>4, FS_CardinalityType
<1> QED  BY <1>4, <1>5, <1>6 DEF V

QueueType == onShelf \in Shelves /\ cards \in Cards /\ hour \in Int
Hung == Range(onShelf)

(* The rows hang known words, whose cards were rated.                      *)
LEMMA OnTheShelf ==
    ASSUME QueueType
    PROVE  /\ onShelf \in Seq(Hung) /\ IsFiniteSet(Vocabulary) /\ Vocabulary \in SUBSET Nat
           /\ \A r \in Hung : r.word \in Vocabulary
           /\ \A w \in Vocabulary : cards[w] \in QueueCard \cup {None}
BY ReviewQueueAssumption DEF QueueType, Hung, Vocabulary, Range

(* The rows in sight are those of the shelf that are asked for.            *)
LEMMA Pairs ==
    ASSUME QueueType, NEW deck, NEW library
    PROVE  /\ pairsOf(deck, library) \in Seq(Hung)
           /\ \A i \in 1 .. Len(pairsOf(deck, library)) :
                 inSight(pairsOf(deck, library)[i].deck, deck, library)
           /\ \A r \in Hung : inSight(r.deck, deck, library) =>
                 \E i \in 1 .. Len(pairsOf(deck, library)) : pairsOf(deck, library)[i] = r
<1> DEFINE P == {i \in DOMAIN onShelf : inSight(onShelf[i].deck, deck, library)}
           c == pairsOf(deck, library)
<1>1. onShelf \in Seq(Hung)  BY OnTheShelf
<1>2. c = Chosen(onShelf, P)  BY DEF pairsOf
<1>3. P \in SUBSET DOMAIN onShelf /\ \A i \in P : inSight(onShelf[i].deck, deck, library)
  OBVIOUS
<1>4. \A i \in DOMAIN onShelf : inSight(onShelf[i].deck, deck, library) => i \in P  OBVIOUS
<1> HIDE DEF P, c
<1>5. /\ c \in Seq(Hung) /\ Len(c) = Cardinality(P) /\ Cardinality(P) \in Nat
      /\ \E nth : Picks(c, onShelf, P, nth)
  BY <1>1, <1>2, <1>3, ChosenPlaces
<1>6. PICK nth : Picks(c, onShelf, P, nth)  BY <1>5
<1>7. \A i \in 1 .. Len(c) : nth[i] \in P /\ c[i] = onShelf[nth[i]]  BY <1>5, <1>6 DEF Picks
<1>8. \A i \in 1 .. Len(c) : inSight(c[i].deck, deck, library)  BY <1>3, <1>7
<1>9. ASSUME NEW r \in Hung, inSight(r.deck, deck, library)
      PROVE  \E i \in 1 .. Len(c) : c[i] = r
  <2>1. PICK j \in DOMAIN onShelf : onShelf[j] = r  BY DEF Hung, Range
  <2>2. j \in P  BY <1>4, <1>9, <2>1
  <2>3. PICK i \in 1 .. Len(c) : nth[i] = j  BY <1>5, <1>6, <2>2 DEF Picks
  <2> QED  BY <1>7, <2>1, <2>3
<1> QED  BY <1>5, <1>8, <1>9 DEF c

NoWordTwice(v) == \A i, j \in 1 .. Len(v) : i # j => v[i].word # v[j].word

(* Each word in sight is seen once, in the first deck it hangs in.         *)
LEMMA Visible ==
    ASSUME QueueType, NEW deck, NEW library
    PROVE  /\ visibleWords(deck, library) \in Seq(Hung) /\ NoWordTwice(visibleWords(deck, library))
           /\ \A i \in 1 .. Len(visibleWords(deck, library)) :
                 inSight(visibleWords(deck, library)[i].deck, deck, library)
           /\ wordsIn(visibleWords(deck, library)) = wordsIn(pairsOf(deck, library))
<1> DEFINE p == pairsOf(deck, library)
           v == visibleWords(deck, library)
           F == firstSeen(p)
           n == Len(p)
<1>1. /\ p \in Seq(Hung) /\ \A i \in 1 .. n : inSight(p[i].deck, deck, library)
  BY Pairs
<1>2. v = Chosen(p, F)  BY DEF visibleWords
<1> HIDE DEF p, v
<1>3. n \in Nat /\ DOMAIN p = 1 .. n  BY <1>1
<1>4. /\ F \in SUBSET DOMAIN p
      /\ \A i \in F, j \in 1 .. n : j < i => p[j].word # p[i].word
      /\ \A i \in 1 .. n : (\A j \in 1 .. n : j < i => p[j].word # p[i].word) => i \in F
  <2>1. \A i \in 1 .. n, j \in Int : j \in 1 .. i - 1 <=> j \in 1 .. n /\ j < i  BY <1>3
  <2> QED  BY <1>3, <2>1 DEF firstSeen
<1> HIDE DEF F
<1>5. /\ v \in Seq(Hung) /\ Len(v) = Cardinality(F) /\ Cardinality(F) \in Nat
      /\ \E nth : Picks(v, p, F, nth)
  BY <1>1, <1>2, <1>4, ChosenPlaces
<1>6. PICK nth : Picks(v, p, F, nth)  BY <1>5
<1>7. \A i \in 1 .. Len(v) : nth[i] \in F /\ nth[i] \in 1 .. n /\ v[i] = p[nth[i]]
  BY <1>3, <1>4, <1>5, <1>6 DEF Picks
<1>8. NoWordTwice(v)
  <2>1. \A i, j \in 1 .. Len(v) : i < j => v[i].word # v[j].word
    <3>1. \A i, j \in 1 .. Len(v) : i < j => nth[i] < nth[j]  BY <1>5, <1>6 DEF Picks
    <3> QED  BY <1>4, <1>7, <3>1
  <2>2. \A i, j \in 1 .. Len(v) : i # j => i < j \/ j < i  BY <1>5
  <2> QED  BY <2>1, <2>2 DEF NoWordTwice
<1>9. \A i \in 1 .. Len(v) : inSight(v[i].deck, deck, library)  BY <1>1, <1>7
<1>10. DOMAIN v = 1 .. Len(v)  BY <1>5
<1>11. wordsIn(v) \in SUBSET wordsIn(p)  BY <1>3, <1>7, <1>10 DEF wordsIn
<1>12. ASSUME NEW i \in 1 .. n PROVE p[i].word \in wordsIn(v)
  <2> DEFINE same == {j \in 1 .. n : p[j].word = p[i].word}
  <2>1. same \in SUBSET Nat /\ same # {}  BY <1>3
  <2>2. PICK m \in same : \A j \in same : m <= j  BY <2>1, LeastPlace
  <2>3. m \in 1 .. n /\ p[m].word = p[i].word  BY <2>2
  <2>4. \A j \in 1 .. n : j < m => p[j].word # p[m].word  BY <1>3, <2>2, <2>3
  <2>5. m \in F  BY <1>4, <2>3, <2>4
  <2>6. PICK k \in 1 .. Len(v) : nth[k] = m  BY <1>5, <1>6, <2>5 DEF Picks
  <2>7. v[k].word = p[i].word  BY <1>7, <2>3, <2>6
  <2> QED  BY <1>10, <2>7 DEF wordsIn
<1>13. wordsIn(p) \in SUBSET wordsIn(v)  BY <1>3, <1>12 DEF wordsIn
<1> QED  BY <1>5, <1>8, <1>9, <1>11, <1>13 DEF v, p

(* The words in sight that were never rated, each once.                    *)
LEMMA Unrated ==
    ASSUME QueueType, NEW q
    PROVE  /\ neverRated(q) \in Seq(Hung) /\ NoWordTwice(neverRated(q))
           /\ \A i \in 1 .. Len(neverRated(q)) : neverRated(q)[i].word \in wordsIn(pairsOf(q.deck, q.library))
           /\ wordsIn(neverRated(q)) = {w \in wordsIn(pairsOf(q.deck, q.library)) : cards[w] = None}
<1> DEFINE s == visibleWords(q.deck, q.library)
           v == neverRated(q)
           P == {i \in DOMAIN s : cards[s[i].word] = None}
           W == wordsIn(pairsOf(q.deck, q.library))
<1>1. s \in Seq(Hung) /\ NoWordTwice(s) /\ wordsIn(s) = W  BY Visible
<1>2. v = Chosen(s, P)  BY DEF neverRated
<1> HIDE DEF s, v, W
<1>3. Len(s) \in Nat /\ DOMAIN s = 1 .. Len(s)  BY <1>1
<1>4. P \in SUBSET DOMAIN s  OBVIOUS
<1>5. /\ v \in Seq(Hung) /\ Len(v) = Cardinality(P) /\ Cardinality(P) \in Nat
      /\ \E nth : Picks(v, s, P, nth)
  <2> HIDE DEF P
  <2> QED  BY <1>1, <1>2, <1>4, ChosenPlaces
<1>6. PICK nth : Picks(v, s, P, nth)  BY <1>5
<1>7. \A i \in 1 .. Len(v) : nth[i] \in P /\ v[i] = s[nth[i]]  BY <1>5, <1>6 DEF Picks
<1>8. NoWordTwice(v)
  <2>1. \A i, j \in 1 .. Len(v) : i < j => nth[i] < nth[j]  BY <1>5, <1>6 DEF Picks
  <2>2. \A i, j \in 1 .. Len(v) : i < j => nth[i] # nth[j]  BY <1>3, <1>7, <2>1
  <2>3. \A i, j \in 1 .. Len(v) : i < j => v[i].word # v[j].word
    BY <1>1, <1>3, <1>4, <1>7, <2>2 DEF NoWordTwice
  <2>4. \A i, j \in 1 .. Len(v) : i # j => i < j \/ j < i  BY <1>5
  <2> QED  BY <2>3, <2>4 DEF NoWordTwice
<1>9. DOMAIN v = 1 .. Len(v)  BY <1>5
<1>10. \A w : w \in wordsIn(v) => w \in W /\ cards[w] = None
  <2> SUFFICES ASSUME NEW i \in DOMAIN v PROVE v[i].word \in W /\ cards[v[i].word] = None
    BY DEF wordsIn
  <2>1. nth[i] \in P /\ v[i] = s[nth[i]]  BY <1>7, <1>9
  <2>2. nth[i] \in DOMAIN s /\ cards[s[nth[i]].word] = None  BY <2>1
  <2>3. s[nth[i]].word \in wordsIn(s)  BY <2>2 DEF wordsIn
  <2> QED  BY <1>1, <2>1, <2>2, <2>3
<1>11. \A w \in W : cards[w] = None => w \in wordsIn(v)
  <2> SUFFICES ASSUME NEW w \in W, cards[w] = None PROVE w \in wordsIn(v)  OBVIOUS
  <2>1. PICK i \in DOMAIN s : s[i].word = w  BY <1>1 DEF wordsIn
  <2>2. i \in P  BY <2>1
  <2>3. PICK k \in 1 .. Len(v) : nth[k] = i  BY <1>5, <1>6, <2>2 DEF Picks
  <2>4. v[k].word = w  BY <1>7, <2>1, <2>3
  <2> QED  BY <1>9, <2>4 DEF wordsIn
<1>12. wordsIn(v) = {w \in W : cards[w] = None}  BY <1>10, <1>11
<1>13. \A i \in 1 .. Len(v) : v[i].word \in W  BY <1>9, <1>10 DEF wordsIn
<1> QED  BY <1>5, <1>8, <1>12, <1>13 DEF v, W

DueIn(W) == {w \in W : isDue(w)}

\* The words of q that are due, in the order they fell due
LEMMA DueListed ==
    ASSUME QueueType, NEW q
    PROVE  LET n == Cardinality(dueSeen(q))
               r == Ranked(dueSeen(q), overdue(dueSeen(q)))
           IN  /\ n \in Nat /\ r \in Seq(Hung) /\ Len(r) = n /\ NoWordTwice(r)
               /\ \A i, j \in 1 .. n : i < j => cards[r[i].word].due <= cards[r[j].word].due
               /\ {r[i].word : i \in 1 .. n} = DueIn(wordsIn(pairsOf(q.deck, q.library)))
               /\ n = Cardinality(DueIn(wordsIn(pairsOf(q.deck, q.library))))
<1> DEFINE v == visibleWords(q.deck, q.library)
           S == dueSeen(q)
           n == Cardinality(S)
           r == Ranked(S, overdue(S))
           W == wordsIn(pairsOf(q.deck, q.library))
<1>1. v \in Seq(Hung) /\ NoWordTwice(v) /\ wordsIn(v) = W  BY Visible
<1>2. S = {x \in Range(v) : isDue(x.word)}  BY DEF dueSeen
<1> HIDE DEF v, W, S
<1>3. Len(v) \in Nat /\ DOMAIN v = 1 .. Len(v) /\ Range(v) = {v[i] : i \in 1 .. Len(v)}
  BY <1>1 DEF Range
<1>4. IsFiniteSet(S)
  <2>1. Range(v) = Values(v, Len(v))  BY <1>3 DEF Values
  <2>2. IsFiniteSet(Range(v))  BY <1>3, <2>1, ValuesCounted
  <2> QED  BY <1>2, <2>2, FS_Subset
<1>5. \A x \in S : x \in Hung /\ isDue(x.word)  BY <1>1, <1>2, <1>3, ElementOfSeq
<1>6. \A x, y \in S : x # y => x.word # y.word
  <2> SUFFICES ASSUME NEW x \in S, NEW y \in S, x # y PROVE x.word # y.word  OBVIOUS
  <2>1. PICK i \in 1 .. Len(v) : v[i] = x  BY <1>2, <1>3
  <2>2. PICK j \in 1 .. Len(v) : v[j] = y  BY <1>2, <1>3
  <2> QED  BY <1>1, <2>1, <2>2 DEF NoWordTwice
<1>7. \A x \in S : x.word \in Nat /\ cards[x.word].due \in Int
  <2> SUFFICES ASSUME NEW x \in S PROVE x.word \in Nat /\ cards[x.word].due \in Int  OBVIOUS
  <2>1. x.word \in Vocabulary /\ x.word \in Nat  BY <1>5, OnTheShelf
  <2>2. cards[x.word] \in QueueCard  BY <1>5, <2>1, OnTheShelf DEF isDue
  <2> QED  BY <2>1, <2>2 DEF QueueCard
<1> DEFINE before(x, y) == \/ cards[x.word].due < cards[y.word].due
                           \/ cards[x.word].due = cards[y.word].due /\ x.word < y.word
<1>8. \A x, y \in S : <<x, y>> \in overdue(S) <=> before(x, y)  BY DEF overdue
<1>9. Strict(overdue(S), S)
  <2>1. \A x, y \in S : before(x, y) => ~before(y, x)  BY <1>7
  <2>2. \A x, y, z \in S : before(x, y) /\ before(y, z) => before(x, z)  BY <1>7
  <2>3. \A x, y \in S : x # y => before(x, y) \/ before(y, x)  BY <1>6, <1>7
  <2> HIDE DEF before
  <2> QED  BY <1>8, <2>1, <2>2, <2>3 DEF Strict
<1>10. n \in Nat /\ Lists(r, S, overdue(S))  BY <1>4, <1>9, RankedLists
<1> HIDE DEF n, r
<1>11. /\ r \in [1 .. n -> S] /\ \A x \in S : \E k \in 1 .. n : r[k] = x
       /\ \A i, j \in 1 .. n : i < j => <<r[i], r[j]>> \in overdue(S)
       /\ \A i, j \in 1 .. n : i # j => r[i] # r[j]
  BY <1>10 DEF Lists, n
<1>12. r \in Seq(Hung) /\ Len(r) = n /\ DOMAIN r = 1 .. n
  <2>1. r \in [1 .. n -> Hung]  BY <1>5, <1>11
  <2> QED  BY <1>10, <2>1
<1>13. \A i, j \in 1 .. n : i # j => r[i].word # r[j].word  BY <1>6, <1>11
<1>14. \A i, j \in 1 .. n : i < j => cards[r[i].word].due <= cards[r[j].word].due
  <2> SUFFICES ASSUME NEW i \in 1 .. n, NEW j \in 1 .. n, i < j
               PROVE  cards[r[i].word].due <= cards[r[j].word].due
    OBVIOUS
  <2>1. r[i] \in S /\ r[j] \in S /\ before(r[i], r[j])  BY <1>8, <1>11
  <2> QED  BY <1>7, <2>1
<1>15. {r[i].word : i \in 1 .. n} = DueIn(W)
  <2>1. ASSUME NEW i \in 1 .. n PROVE r[i].word \in W /\ isDue(r[i].word)
    <3>1. r[i] \in S  BY <1>11
    <3>2. PICK k \in DOMAIN v : v[k] = r[i]  BY <1>2, <1>3, <3>1
    <3> QED  BY <1>1, <1>5, <3>1, <3>2 DEF wordsIn
  <2>2. ASSUME NEW w \in W, isDue(w) PROVE \E i \in 1 .. n : r[i].word = w
    <3>1. PICK k \in DOMAIN v : v[k].word = w  BY <1>1 DEF wordsIn
    <3>2. v[k] \in S  BY <1>2, <1>3, <2>2, <3>1
    <3> QED  BY <1>11, <3>1, <3>2
  <2> QED  BY <2>1, <2>2 DEF DueIn
<1>16. n = Cardinality(DueIn(W))
  <2> DEFINE f == [i \in 1 .. n |-> r[i].word]
  <2>1. DOMAIN f = 1 .. n /\ \A i, j \in 1 .. n : i # j => f[i] # f[j]  BY <1>13
  <2>2. Values(f, n) = DueIn(W)  BY <1>15 DEF Values
  <2> HIDE DEF f
  <2> QED  BY <1>10, <2>1, <2>2, ValuesCounted
<1> QED  BY <1>10, <1>12, <1>13, <1>14, <1>15, <1>16 DEF NoWordTwice, n, r, S, W

\* A row stands in the list `out` where `ord` says, the rest is left out.
Deals(out, items, ord) ==
    /\ ord \in [1 .. Len(items) -> 1 .. Len(items)]
    /\ \A i, j \in 1 .. Len(items) : i # j => ord[i] # ord[j]
    /\ \A p \in 1 .. Len(items) : \E k \in 1 .. Len(items) : ord[k] = p
    /\ \A k \in 1 .. Len(out) : k \in 1 .. Len(items) /\ out[k] = items[ord[k]]

(* A deck's words are in rounds of their own, in the order they stand in.  *)
LEMMA DealtInRounds ==
    ASSUME NEW T, NEW items \in Seq(T)
    PROVE  /\ \A i \in 1 .. Len(items) :
                 /\ IsFiniteSet(deckMates(items, i)) /\ roundOf(items, i) \in Nat
                 /\ turnedUp(items, i) \in deckMates(items, i) /\ turnedUp(items, i) \in Nat
           /\ \A i, j \in 1 .. Len(items) :
                 items[i].deck = items[j].deck /\ i < j => roundOf(items, i) < roundOf(items, j)
           /\ \A i, j \in 1 .. Len(items) :
                 turnedUp(items, i) = turnedUp(items, j) <=> items[i].deck = items[j].deck
<1> DEFINE n == Len(items)
<1>1. n \in Nat /\ DOMAIN items = 1 .. n  OBVIOUS
<1>2. IsFiniteSet(1 .. n)  BY <1>1, FS_Interval
<1>3. \A i \in 1 .. n : /\ deckMates(items, i) \in SUBSET (1 .. n) /\ i \in deckMates(items, i)
                        /\ IsFiniteSet(deckMates(items, i))
  <2>1. \A i \in 1 .. n : deckMates(items, i) \in SUBSET (1 .. n) /\ i \in deckMates(items, i)
    BY <1>1 DEF deckMates
  <2> QED  BY <1>2, <2>1, FS_Subset
<1> DEFINE earlier(i) == {j \in deckMates(items, i) : j < i}
<1>4. \A i \in 1 .. n : /\ earlier(i) \in SUBSET deckMates(items, i) /\ IsFiniteSet(earlier(i))
                        /\ roundOf(items, i) = Cardinality(earlier(i))
                        /\ Cardinality(earlier(i)) \in Nat
  <2> SUFFICES ASSUME NEW i \in 1 .. n
               PROVE  /\ earlier(i) \in SUBSET deckMates(items, i) /\ IsFiniteSet(earlier(i))
                      /\ roundOf(items, i) = Cardinality(earlier(i))
                      /\ Cardinality(earlier(i)) \in Nat
    OBVIOUS
  <2>1. earlier(i) \in SUBSET deckMates(items, i)  OBVIOUS
  <2>2. roundOf(items, i) = Cardinality(earlier(i))  BY DEF roundOf
  <2> HIDE DEF earlier
  <2>3. IsFiniteSet(earlier(i))  BY <1>3, <2>1, FS_Subset
  <2> QED  BY <2>1, <2>2, <2>3, FS_CardinalityType
<1>5. ASSUME NEW i \in 1 .. n, NEW j \in 1 .. n, items[i].deck = items[j].deck, i < j
      PROVE  roundOf(items, i) < roundOf(items, j)
  <2>1. \A k : k \in deckMates(items, i) <=> k \in deckMates(items, j)  BY <1>5 DEF deckMates
  <2>2. \A k \in deckMates(items, i) : k \in Nat  BY <1>3
  <2>3. earlier(i) \in SUBSET earlier(j)  BY <1>5, <2>1, <2>2
  <2>4. i \in earlier(j) /\ i \notin earlier(i)  BY <1>3, <1>5, <2>1
  <2> HIDE DEF earlier
  <2>5. /\ Cardinality(earlier(i)) <= Cardinality(earlier(j))
        /\ Cardinality(earlier(i)) = Cardinality(earlier(j)) => earlier(i) = earlier(j)
    BY <1>4, <2>3, FS_Subset
  <2> QED  BY <1>4, <2>4, <2>5
<1>6. ASSUME NEW i \in 1 .. n
      PROVE  turnedUp(items, i) \in deckMates(items, i) /\ turnedUp(items, i) \in Nat
  <2>1. deckMates(items, i) \in SUBSET Nat /\ deckMates(items, i) # {}  BY <1>3
  <2>2. \E j \in deckMates(items, i) : \A k \in deckMates(items, i) : j <= k
    BY <2>1, LeastPlace
  <2>3. turnedUp(items, i) \in deckMates(items, i)  BY <2>2 DEF turnedUp
  <2> QED  BY <2>1, <2>3
<1>7. ASSUME NEW i \in 1 .. n, NEW j \in 1 .. n
      PROVE  turnedUp(items, i) = turnedUp(items, j) <=> items[i].deck = items[j].deck
  <2>1. ASSUME items[i].deck = items[j].deck PROVE turnedUp(items, i) = turnedUp(items, j)
    <3>1. deckMates(items, i) = deckMates(items, j)  BY <2>1 DEF deckMates
    <3> QED  BY <3>1 DEF turnedUp
  <2>2. ASSUME turnedUp(items, i) = turnedUp(items, j) PROVE items[i].deck = items[j].deck
    <3>1. turnedUp(items, i) \in deckMates(items, i) /\ turnedUp(items, i) \in deckMates(items, j)
      BY <1>6, <2>2
    <3> QED  BY <3>1 DEF deckMates
  <2> QED  BY <2>1, <2>2
<1>8. \A i \in 1 .. n : roundOf(items, i) \in Nat  BY <1>4
<1> HIDE DEF earlier
<1> QED  BY <1>3, <1>5, <1>6, <1>7, <1>8

(* Dealing rearranges the words by round and deck, and cuts the rest off.  *)
LEMMA Interleaved ==
    ASSUME NEW T, NEW items \in Seq(T), NEW limit \in Nat
    PROVE  /\ interleaveByDeck(items, limit) \in Seq(T)
           /\ Len(interleaveByDeck(items, limit)) = smallest(limit, Len(items))
           /\ \E ord : /\ Deals(interleaveByDeck(items, limit), items, ord)
                       /\ \A i, j \in 1 .. Len(items) :
                             i < j => <<ord[i], ord[j]>> \in dealtBefore(items)
<1> DEFINE n == Len(items)
           R == dealtBefore(items)
           ord == Ranked(DOMAIN items, R)
           perm == [k \in DOMAIN items |-> items[ord[k]]]
           out == interleaveByDeck(items, limit)
           before(i, j) == \/ roundOf(items, i) < roundOf(items, j)
                           \/ /\ roundOf(items, i) = roundOf(items, j)
                              /\ turnedUp(items, i) < turnedUp(items, j)
<1>1. n \in Nat /\ DOMAIN items = 1 .. n  OBVIOUS
<1>2. IsFiniteSet(1 .. n) /\ Cardinality(1 .. n) = n  BY <1>1, FS_Interval
<1>3. \A i, j \in 1 .. n : <<i, j>> \in R <=> before(i, j)  BY <1>1 DEF dealtBefore
<1>4. \A i \in 1 .. n : roundOf(items, i) \in Nat /\ turnedUp(items, i) \in Nat  BY DealtInRounds
<1>5. \A i, j \in 1 .. n : i # j =>
         roundOf(items, i) # roundOf(items, j) \/ turnedUp(items, i) # turnedUp(items, j)
  <2> SUFFICES ASSUME NEW i \in 1 .. n, NEW j \in 1 .. n, i # j,
                      turnedUp(items, i) = turnedUp(items, j)
               PROVE  roundOf(items, i) # roundOf(items, j)
    OBVIOUS
  <2>1. items[i].deck = items[j].deck  BY DealtInRounds
  <2>2. i < j \/ j < i  BY <1>1
  <2>3. roundOf(items, i) < roundOf(items, j) \/ roundOf(items, j) < roundOf(items, i)
    BY <2>1, <2>2, DealtInRounds
  <2> QED  BY <1>4, <2>3
<1>6. Strict(R, 1 .. n)
  <2>1. \A i, j \in 1 .. n : before(i, j) => ~before(j, i)  BY <1>4
  <2>2. \A i, j, k \in 1 .. n : before(i, j) /\ before(j, k) => before(i, k)  BY <1>4
  <2>3. \A i, j \in 1 .. n : i # j => before(i, j) \/ before(j, i)  BY <1>4, <1>5
  <2> HIDE DEF before, R
  <2> QED  BY <1>3, <2>1, <2>2, <2>3 DEF Strict
<1>7. Lists(ord, 1 .. n, R)
  <2> HIDE DEF R
  <2> QED  BY <1>1, <1>2, <1>6, RankedLists
<1>8. out = First(perm, limit)  BY DEF interleaveByDeck
<1> HIDE DEF ord, R, out
<1>9. /\ ord \in [1 .. n -> 1 .. n]
      /\ \A p \in 1 .. n : \E k \in 1 .. n : ord[k] = p
      /\ \A i, j \in 1 .. n : i < j => <<ord[i], ord[j]>> \in R
      /\ \A i, j \in 1 .. n : i # j => ord[i] # ord[j]
  BY <1>2, <1>7 DEF Lists
<1>10. perm \in Seq(T) /\ Len(perm) = n /\ \A k \in 1 .. n : perm[k] = items[ord[k]]
  <2>1. \A k \in 1 .. n : items[ord[k]] \in T  BY <1>1, <1>9, ElementOfSeq
  <2>2. perm \in [1 .. n -> T]  BY <1>1, <2>1
  <2>3. \A k \in 1 .. n : perm[k] = items[ord[k]]  BY <1>1
  <2> HIDE DEF perm
  <2>4. perm \in Seq(T) /\ Len(perm) = n  BY <1>1, <2>2
  <2> QED  BY <2>3, <2>4
<1> HIDE DEF perm
<1>11. /\ out \in Seq(T) /\ Len(out) = smallest(limit, n) /\ smallest(limit, n) \in Nat
       /\ \A k \in 1 .. smallest(limit, n) : k \in 1 .. n /\ out[k] = perm[k]
  <2> HIDE DEF n, before
  <2>1. perm \in Seq(T) /\ Len(perm) = n  BY <1>10
  <2>2. /\ First(perm, limit) \in Seq(T) /\ Len(First(perm, limit)) = smallest(limit, Len(perm))
        /\ smallest(limit, Len(perm)) \in Nat
        /\ \A k \in 1 .. smallest(limit, Len(perm)) : k \in 1 .. Len(perm) /\ First(perm, limit)[k] = perm[k]
    BY <2>1, FirstPart
  <2> QED  BY <1>8, <2>1, <2>2
<1>12. Deals(out, items, ord)
  <2>1. \A k \in 1 .. Len(out) : k \in 1 .. n /\ out[k] = items[ord[k]]  BY <1>10, <1>11
  <2> QED  BY <1>9, <2>1 DEF Deals
<1> QED  BY <1>9, <1>11, <1>12 DEF out, R

(* A bounded set of numbers has a greatest one.                            *)
LEMMA Largest ==
    ASSUME NEW n \in Nat, NEW S \in SUBSET (1 .. n), S # {}
    PROVE  \E m \in S : \A j \in S : j <= m
<1> DEFINE D == {n - x : x \in S}
<1>5. \A x \in S : x \in Int /\ x <= n /\ n - x \in Nat  OBVIOUS
<1>1. D \in SUBSET Nat /\ D # {}  BY <1>5
<1>2. PICK d \in D : \A e \in D : d <= e  BY <1>1, LeastPlace
<1>3. PICK m \in S : d = n - m  BY <1>2
<1>4. \A j \in S : d <= n - j  BY <1>2
<1>6. \A j \in S : j <= m  BY <1>3, <1>4, <1>5
<1> QED  BY <1>6

\* While one deck still waits, no other is two words ahead of it.
LEMMA NoDeckPassedOver ==
    ASSUME NEW T, NEW items \in Seq(T), NEW limit \in Nat, NEW d, NEW e,
           CountOf(interleaveByDeck(items, limit), d) < CountOf(items, d)
    PROVE  CountOf(interleaveByDeck(items, limit), e) <= CountOf(interleaveByDeck(items, limit), d) + 1
<1> DEFINE n == Len(items)
           out == interleaveByDeck(items, limit)
           m == Len(out)
           A(x) == {p \in 1 .. n : items[p].deck = x}
<1>1. /\ out \in Seq(T)
      /\ \E ord : /\ Deals(out, items, ord)
                  /\ \A i, j \in 1 .. n : i < j => <<ord[i], ord[j]>> \in dealtBefore(items)
  BY Interleaved
<1> HIDE DEF out
<1>2. PICK ord : /\ Deals(out, items, ord)
                 /\ \A i, j \in 1 .. n : i < j => <<ord[i], ord[j]>> \in dealtBefore(items)
  BY <1>1
<1>3. /\ n \in Nat /\ DOMAIN items = 1 .. n /\ m \in Nat /\ DOMAIN out = 1 .. m
  BY <1>1
<1>4. /\ ord \in [1 .. n -> 1 .. n]
      /\ \A i, j \in 1 .. n : i # j => ord[i] # ord[j]
      /\ \A p \in 1 .. n : \E k \in 1 .. n : ord[k] = p
      /\ \A k \in 1 .. m : k \in 1 .. n /\ out[k] = items[ord[k]]
  BY <1>2 DEF Deals
<1>5. IsFiniteSet(1 .. n) /\ IsFiniteSet(1 .. m)  BY <1>3, FS_Interval
<1> DEFINE K(x) == {k \in 1 .. m : out[k].deck = x}
           B(x) == {ord[k] : k \in K(x)}
<1>6. \A x : /\ CountOf(items, x) = Cardinality(A(x)) /\ IsFiniteSet(A(x))
  <2> SUFFICES ASSUME NEW x PROVE CountOf(items, x) = Cardinality(A(x)) /\ IsFiniteSet(A(x))
    OBVIOUS
  <2>1. A(x) \in SUBSET (1 .. n)  OBVIOUS
  <2> QED  BY <1>3, <1>5, <2>1, FS_Subset DEF CountOf
<1>7. \A x : /\ CountOf(out, x) = Cardinality(B(x)) /\ IsFiniteSet(B(x))
             /\ Cardinality(B(x)) \in Nat /\ B(x) \in SUBSET A(x)
  <2> SUFFICES ASSUME NEW x
               PROVE  /\ CountOf(out, x) = Cardinality(B(x)) /\ IsFiniteSet(B(x))
                      /\ Cardinality(B(x)) \in Nat /\ B(x) \in SUBSET A(x)
    OBVIOUS
  <2> DEFINE f == [k \in K(x) |-> ord[k]]
  <2>1. IsFiniteSet(K(x))
    <3>1. K(x) \in SUBSET (1 .. m)  OBVIOUS
    <3> QED  BY <1>5, <3>1, FS_Subset
  <2>2. f \in [K(x) -> B(x)] /\ \A b \in B(x) : \E k \in K(x) : f[k] = b  OBVIOUS
  <2>3. \A k \in K(x) : k \in 1 .. n /\ out[k] = items[ord[k]] /\ out[k].deck = x  BY <1>4
  <2>4. \A k, l \in K(x) : f[k] = f[l] => k = l  BY <1>4, <2>3
  <2>5. DOMAIN f = K(x)  OBVIOUS
  <2>6. B(x) \in SUBSET A(x)  BY <1>4, <2>3
  <2>7. CountOf(out, x) = Cardinality(K(x))  BY <1>3 DEF CountOf
  <2> HIDE DEF f, B, K
  <2>8. f \in Surjection(K(x), B(x))  BY <2>2 DEF Surjection
  <2>9. f \in Injection(K(x), B(x))
    <3>1. IsInjective(f)  BY <2>4, <2>5 DEF IsInjective
    <3> QED  BY <2>2, <3>1 DEF Injection
  <2>10. IsFiniteSet(B(x)) /\ Cardinality(B(x)) = Cardinality(K(x))
    BY <2>1, <2>8, <2>9, FS_Surjection
  <2> QED  BY <2>6, <2>7, <2>10, FS_CardinalityType
<1>8. \A x : \A b \in B(x) : \E k \in 1 .. m : ord[k] = b  OBVIOUS
<1>9. \A x : \A k \in 1 .. m : ord[k] \in A(x) => ord[k] \in B(x)  BY <1>4
<1> SUFFICES ASSUME ~(CountOf(out, e) <= CountOf(out, d) + 1) PROVE FALSE
  BY DEF out
<1> HIDE DEF B, K
<1> DEFINE c == Cardinality(B(d))
<1>10. c \in Nat /\ c < Cardinality(A(d)) /\ Cardinality(B(e)) \in Nat /\ Cardinality(B(e)) > c + 1
  BY <1>6, <1>7 DEF out
<1>11. \A i \in 1 .. n : roundOf(items, i) \in Nat  BY DealtInRounds
\* the first word of d that waits
<1>12. \E p \in 1 .. n : /\ p \notin B(d) /\ p \in A(d) /\ roundOf(items, p) <= c
  <2> DEFINE W == A(d) \ B(d)
  <2>1. W \in SUBSET Nat /\ W # {}
    <3>1. ASSUME A(d) = B(d) PROVE FALSE
      <4>1. Cardinality(A(d)) = c  BY <3>1
      <4> QED  BY <1>10, <4>1
    <3> QED  BY <1>7, <3>1
  <2>2. PICK p \in W : \A j \in W : p <= j  BY <2>1, LeastPlace
  <2> DEFINE E == {j \in deckMates(items, p) : j < p}
  <2>3. roundOf(items, p) = Cardinality(E)  BY DEF roundOf
  <2>4. p \in 1 .. n /\ items[p].deck = d  BY <2>2
  <2>5. E \in SUBSET B(d)
    <3> SUFFICES ASSUME NEW j \in E PROVE j \in B(d)  OBVIOUS
    <3>1. j \in 1 .. n /\ items[j].deck = d /\ j < p  BY <1>3, <2>4 DEF deckMates
    <3>2. j \in A(d) /\ ~(p <= j)  BY <2>4, <3>1
    <3> QED  BY <2>2, <3>2
  <2> HIDE DEF E
  <2>6. Cardinality(E) <= c  BY <1>7, <2>5, FS_Subset
  <2> QED  BY <2>2, <2>3, <2>4, <2>6
\* the last word of e that is dealt
<1>13. \E p \in 1 .. n : p \in B(e) /\ roundOf(items, p) > c
  <2>1. B(e) \in SUBSET (1 .. n)  BY <1>7
  <2>2. B(e) # {}  BY <1>10, FS_EmptySet
  <2>3. PICK p \in B(e) : \A j \in B(e) : j <= p  BY <1>3, <2>1, <2>2, Largest
  <2> DEFINE E == {j \in deckMates(items, p) : j < p}
  <2>4. roundOf(items, p) = Cardinality(E)  BY DEF roundOf
  <2>5. p \in 1 .. n /\ items[p].deck = e  BY <1>7, <2>3
  <2>6. B(e) \in SUBSET (E \cup {p})
    <3> SUFFICES ASSUME NEW j \in B(e), j # p PROVE j \in E  OBVIOUS
    <3>1. j \in 1 .. n /\ items[j].deck = e /\ j <= p  BY <1>7, <2>3
    <3>2. j < p  BY <2>5, <3>1
    <3> QED  BY <1>3, <2>5, <3>1, <3>2 DEF deckMates
  <2>7. IsFiniteSet(E) /\ p \notin E
    <3>1. E \in SUBSET deckMates(items, p) /\ p \notin E  BY <2>5
    <3>2. IsFiniteSet(deckMates(items, p))  BY <2>5, DealtInRounds
    <3> HIDE DEF E
    <3> QED  BY <3>1, <3>2, FS_Subset
  <2> HIDE DEF E
  <2>8. /\ IsFiniteSet(E \cup {p}) /\ Cardinality(E \cup {p}) = Cardinality(E) + 1
        /\ Cardinality(E) \in Nat
    BY <2>7, FS_AddElement, FS_CardinalityType
  <2>9. Cardinality(B(e)) <= Cardinality(E) + 1  BY <2>6, <2>8, FS_Subset
  <2> QED  BY <1>10, <2>3, <2>4, <2>5, <2>8, <2>9
<1>14. PICK p \in 1 .. n : p \notin B(d) /\ p \in A(d) /\ roundOf(items, p) <= c  BY <1>12
<1>15. PICK o \in 1 .. n : o \in B(e) /\ roundOf(items, o) > c  BY <1>13
<1>16. PICK k \in 1 .. m : ord[k] = o  BY <1>8, <1>15
<1>17. PICK l \in 1 .. n : ord[l] = p  BY <1>4
<1>18. l \notin 1 .. m  BY <1>9, <1>14, <1>17
<1>19. k \in 1 .. n /\ k < l  BY <1>3, <1>4, <1>16, <1>17, <1>18
<1>20. <<o, p>> \in dealtBefore(items)  BY <1>2, <1>16, <1>17, <1>19
<1>21. roundOf(items, o) <= roundOf(items, p)
  <2>1. roundOf(items, o) < roundOf(items, p) \/ roundOf(items, o) = roundOf(items, p)
    BY <1>20 DEF dealtBefore
  <2> QED  BY <1>11, <2>1
<1> QED  BY <1>10, <1>11, <1>14, <1>15, <1>21

\* The words of a list of rows, none of which comes twice
LEMMA WordsCounted ==
    ASSUME NEW T, NEW v \in Seq(T), NoWordTwice(v)
    PROVE  /\ IsFiniteSet(listed(v)) /\ Cardinality(listed(v)) = Len(v) /\ Len(v) \in Nat
           /\ \A w : w \in listed(v) <=> \E i \in 1 .. Len(v) : v[i].word = w
<1> DEFINE f == [i \in 1 .. Len(v) |-> v[i].word]
<1>1. Len(v) \in Nat /\ DOMAIN v = 1 .. Len(v)  OBVIOUS
<1>2. DOMAIN f = 1 .. Len(v) /\ \A i, j \in 1 .. Len(v) : i # j => f[i] # f[j]
  BY DEF NoWordTwice
<1>3. listed(v) = Values(f, Len(v))  BY <1>1 DEF listed, Values
<1>4. \A w : w \in listed(v) <=> \E i \in 1 .. Len(v) : v[i].word = w  BY <1>1 DEF listed
<1> HIDE DEF f
<1> QED  BY <1>1, <1>2, <1>3, <1>4, ValuesCounted

\* One deck after the other, or of each deck, in the order of `items`
Keeps(out, ord, q) ==
    \A i, j \in 1 .. Len(out) :
        i < j /\ (scoped(q) \/ out[i].deck = out[j].deck) => ord[i] < ord[j]

(* What is dealt, be it of one deck or of many.                            *)
LEMMA Dealing ==
    ASSUME NEW T, NEW rows \in Seq(T), NEW n \in Nat, NEW q
    PROVE  /\ dealt(q, rows, n) \in Seq(T) /\ Len(dealt(q, rows, n)) = smallest(n, Len(rows))
           /\ smallest(n, Len(rows)) \in Nat /\ smallest(n, Len(rows)) <= n
           /\ smallest(n, Len(rows)) <= Len(rows)
           /\ \E ord : Deals(dealt(q, rows, n), rows, ord) /\ Keeps(dealt(q, rows, n), ord, q)
<1> DEFINE out == dealt(q, rows, n)
           len == Len(rows)
<1>1. len \in Nat /\ smallest(n, len) \in Nat /\ smallest(n, len) <= n /\ smallest(n, len) <= len
  BY DEF smallest
<1>2. CASE scoped(q)
  <2> DEFINE ord == [k \in 1 .. len |-> k]
  <2>1. out = First(rows, n)  BY <1>2 DEF dealt
  <2> HIDE DEF out
  <2>2. /\ out \in Seq(T) /\ Len(out) = smallest(n, len)
        /\ \A k \in 1 .. Len(out) : k \in 1 .. len /\ out[k] = rows[k]
    BY <2>1, FirstPart
  <2>3. Deals(out, rows, ord)  BY <2>2 DEF Deals
  <2>4. \A i, j \in 1 .. Len(out) : i < j => ord[i] < ord[j]  BY <2>2
  <2>5. Keeps(out, ord, q)  BY <2>4 DEF Keeps
  <2> QED  BY <1>1, <2>2, <2>3, <2>5 DEF out
<1>3. CASE ~scoped(q)
  <2>1. out = interleaveByDeck(rows, n)  BY <1>3 DEF dealt
  <2> HIDE DEF out
  <2>2. /\ out \in Seq(T) /\ Len(out) = smallest(n, len)
        /\ \E ord : /\ Deals(out, rows, ord)
                    /\ \A i, j \in 1 .. len : i < j => <<ord[i], ord[j]>> \in dealtBefore(rows)
    BY <2>1, Interleaved
  <2>3. PICK ord : /\ Deals(out, rows, ord)
                   /\ \A i, j \in 1 .. len : i < j => <<ord[i], ord[j]>> \in dealtBefore(rows)
    BY <2>2
  <2>4. ASSUME NEW i \in 1 .. Len(out), NEW j \in 1 .. Len(out), i < j, out[i].deck = out[j].deck
        PROVE  ord[i] < ord[j]
    <3> DEFINE a == ord[i]  b == ord[j]
    <3>0. /\ ord \in [1 .. len -> 1 .. len]
          /\ \A k, l \in 1 .. len : k # l => ord[k] # ord[l]
          /\ \A k \in 1 .. Len(out) : k \in 1 .. len /\ out[k] = rows[ord[k]]
      BY <2>3 DEF Deals
    <3>i. i \in 1 .. len /\ j \in 1 .. len /\ i # j  BY <1>1, <2>4, <3>0
    <3>1. /\ i \in 1 .. len /\ j \in 1 .. len /\ out[i] = rows[a] /\ out[j] = rows[b]
          /\ a \in 1 .. len /\ b \in 1 .. len /\ a # b
      BY <3>0, <3>i
    <3>2. <<a, b>> \in dealtBefore(rows)  BY <2>3, <2>4, <3>1
    <3> HIDE DEF a, b
    <3>3. roundOf(rows, a) <= roundOf(rows, b)
      <4>1. roundOf(rows, a) < roundOf(rows, b) \/ roundOf(rows, a) = roundOf(rows, b)
        BY <3>2 DEF dealtBefore
      <4>2. roundOf(rows, a) \in Nat /\ roundOf(rows, b) \in Nat  BY <3>1, DealtInRounds
      <4> QED  BY <4>1, <4>2
    <3>4. ASSUME b < a PROVE FALSE
      <4>1. roundOf(rows, b) < roundOf(rows, a)  BY <2>4, <3>1, <3>4, DealtInRounds
      <4>2. roundOf(rows, a) \in Nat /\ roundOf(rows, b) \in Nat  BY <3>1, DealtInRounds
      <4> QED  BY <3>3, <4>1, <4>2
    <3>5. a < b  BY <1>1, <3>1, <3>4
    <3> QED  BY <3>5 DEF a, b
  <2>5. Keeps(out, ord, q)  BY <1>3, <2>4 DEF Keeps
  <2> QED  BY <1>1, <2>2, <2>3, <2>5 DEF out
<1> QED  BY <1>2, <1>3

(* Words that differ still do when they are dealt.                         *)
LEMMA StillDistinct ==
    ASSUME NEW T, NEW rows \in Seq(T), NoWordTwice(rows), NEW out \in Seq(T), NEW ord,
           Deals(out, rows, ord)
    PROVE  /\ NoWordTwice(out)
           /\ \A k \in 1 .. Len(out) : ord[k] \in 1 .. Len(rows) /\ out[k] = rows[ord[k]]
<1>1. /\ ord \in [1 .. Len(rows) -> 1 .. Len(rows)]
      /\ \A i, j \in 1 .. Len(rows) : i # j => ord[i] # ord[j]
      /\ \A k \in 1 .. Len(out) : k \in 1 .. Len(rows) /\ out[k] = rows[ord[k]]
  BY DEF Deals
<1>2. \A k \in 1 .. Len(out) : ord[k] \in 1 .. Len(rows) /\ out[k] = rows[ord[k]]  BY <1>1
<1>3. \A i, j \in 1 .. Len(out) : i # j => ord[i] # ord[j]  BY <1>1
<1>4. \A i, j \in 1 .. Len(rows) : i # j => rows[i].word # rows[j].word  BY DEF NoWordTwice
<1>5. NoWordTwice(out)  BY <1>2, <1>3, <1>4 DEF NoWordTwice
<1> QED  BY <1>2, <1>5

Asks(q) == q.limit \in Nat /\ q.newLimit \in Nat /\ q.includeNew \in BOOLEAN

(* The scan has the words in sight that fell due first.                    *)
LEMMA DueScanned ==
    ASSUME QueueType, NEW q, Asks(q)
    PROVE  LET W == DueIn(wordsIn(pairsOf(q.deck, q.library)))
               lim == IF scoped(q) THEN q.limit ELSE q.limit * ScanMultiplier
               scan == dueScan(q)
           IN  /\ scan \in Seq(Hung) /\ NoWordTwice(scan) /\ lim \in Nat /\ Cardinality(W) \in Nat
               /\ Len(scan) = smallest(lim, Cardinality(W))
               /\ \A i \in 1 .. Len(scan) : scan[i].word \in W
               /\ \A i, j \in 1 .. Len(scan) : i < j => cards[scan[i].word].due <= cards[scan[j].word].due
<1> DEFINE W == DueIn(wordsIn(pairsOf(q.deck, q.library)))
           lim == IF scoped(q) THEN q.limit ELSE q.limit * ScanMultiplier
           r == Ranked(dueSeen(q), overdue(dueSeen(q)))
           n == Cardinality(dueSeen(q))
           scan == dueScan(q)
<1>1. /\ n \in Nat /\ r \in Seq(Hung) /\ Len(r) = n /\ NoWordTwice(r) /\ n = Cardinality(W)
      /\ \A i, j \in 1 .. n : i < j => cards[r[i].word].due <= cards[r[j].word].due
      /\ {r[i].word : i \in 1 .. n} = W
  BY DueListed
<1>2. lim \in Nat
  <2>1. q.limit \in Nat /\ ScanMultiplier \in Nat  BY ReviewQueueAssumption DEF Asks
  <2>2. q.limit * ScanMultiplier \in Nat  BY <2>1
  <2> QED  BY <2>1, <2>2
<1>3. scan = First(r, lim)  BY DEF dueScan
<1> HIDE DEF r, n, lim, scan, W
<1>4. /\ scan \in Seq(Hung) /\ Len(scan) = smallest(lim, n) /\ smallest(lim, n) \in Nat
      /\ \A k \in 1 .. Len(scan) : k \in 1 .. n /\ scan[k] = r[k]
  BY <1>1, <1>2, <1>3, FirstPart
<1>5. NoWordTwice(scan)  BY <1>1, <1>4 DEF NoWordTwice
<1>6. \A i \in 1 .. Len(scan) : scan[i].word \in W  BY <1>1, <1>4
<1>7. \A i, j \in 1 .. Len(scan) : i < j => cards[scan[i].word].due <= cards[scan[j].word].due
  BY <1>1, <1>4
<1> QED  BY <1>1, <1>2, <1>4, <1>5, <1>6, <1>7 DEF lim, scan, W

\* What is handed out as due
LEMMA DueHanded ==
    ASSUME QueueType, NEW q, Asks(q)
    PROVE  LET W == DueIn(wordsIn(pairsOf(q.deck, q.library)))
               due == dueRows(q)
           IN  /\ due \in Seq(Hung) /\ NoWordTwice(due) /\ q.limit \in Nat
               /\ Len(due) \in Nat /\ Len(due) <= q.limit
               /\ Len(due) = smallest(q.limit, Len(dueScan(q)))
               /\ \A i \in 1 .. Len(due) : due[i].word \in W
               /\ \A i, j \in 1 .. Len(due) :
                     i < j /\ (scoped(q) \/ due[i].deck = due[j].deck)
                        => cards[due[i].word].due <= cards[due[j].word].due
<1> DEFINE W == DueIn(wordsIn(pairsOf(q.deck, q.library)))
           scan == dueScan(q)
           due == dueRows(q)
<1>1. /\ scan \in Seq(Hung) /\ NoWordTwice(scan)
      /\ \A i \in 1 .. Len(scan) : scan[i].word \in W
      /\ \A i, j \in 1 .. Len(scan) : i < j => cards[scan[i].word].due <= cards[scan[j].word].due
  BY DueScanned
<1>2. q.limit \in Nat  BY DEF Asks
<1>3. due = dealt(q, scan, q.limit)  BY DEF dueRows
<1> HIDE DEF scan, due, W
<1>4. /\ due \in Seq(Hung) /\ Len(due) = smallest(q.limit, Len(scan))
      /\ Len(due) \in Nat /\ Len(due) <= q.limit
      /\ \E ord : Deals(due, scan, ord) /\ Keeps(due, ord, q)
  BY <1>1, <1>2, <1>3, Dealing
<1>5. PICK ord : Deals(due, scan, ord) /\ Keeps(due, ord, q)
  BY <1>4
<1>6. /\ NoWordTwice(due)
      /\ \A k \in 1 .. Len(due) : ord[k] \in 1 .. Len(scan) /\ due[k] = scan[ord[k]]
  BY <1>1, <1>4, <1>5, StillDistinct
<1>7. \A i \in 1 .. Len(due) : due[i].word \in W  BY <1>1, <1>6
<1>8. \A i, j \in 1 .. Len(due) :
         i < j /\ (scoped(q) \/ due[i].deck = due[j].deck)
            => cards[due[i].word].due <= cards[due[j].word].due
  BY <1>1, <1>5, <1>6 DEF Keeps
<1> QED  BY <1>2, <1>4, <1>6, <1>7, <1>8 DEF scan, due, W

\* The quota: never more than what is left of the session or of the day
LEMMA Slots ==
    ASSUME NEW q, Asks(q), NEW left \in Nat, NEW introduced \in Nat
    PROVE  LET slots == newSlots(q, left, introduced)
           IN  /\ slots \in Nat /\ slots <= left
               /\ slots > 0 => slots + introduced <= q.newLimit
BY DEF Asks, newSlots

\* The new words: as many as are free, in the order of their ids
LEMMA NewHanded ==
    ASSUME QueueType, NEW q, Asks(q), NEW zone
    PROVE  LET W == wordsIn(pairsOf(q.deck, q.library))
               introduced == Cardinality(introducedSince(startOfToday(zone)))
               left == q.limit - Len(dueRows(q))
               slots == newSlots(q, left, introduced)
               new == newRows(q, zone)
           IN  /\ introduced \in Nat /\ left \in Nat /\ slots \in Nat
               /\ new \in Seq(Hung) /\ NoWordTwice(new)
               /\ Len(new) = smallest(slots, Len(neverRated(q))) /\ Len(new) \in Nat
               /\ Len(new) <= slots /\ slots <= left
               /\ slots > 0 => slots + introduced <= q.newLimit
               /\ \A i \in 1 .. Len(new) : new[i].word \in W /\ cards[new[i].word] = None
<1> DEFINE W == wordsIn(pairsOf(q.deck, q.library))
           I == introducedSince(startOfToday(zone))
           introduced == Cardinality(I)
           left == q.limit - Len(dueRows(q))
           slots == newSlots(q, left, introduced)
           never == neverRated(q)
           d == dealt(q, never, slots)
           R == {x \in Range(d) \X Range(d) : x[1].word < x[2].word}
           new == newRows(q, zone)
<1>1. introduced \in Nat
  <2>1. I \in SUBSET Vocabulary  BY DEF introducedSince
  <2>2. IsFiniteSet(Vocabulary)  BY OnTheShelf
  <2> HIDE DEF I
  <2> QED  BY <2>1, <2>2, FS_Subset, FS_CardinalityType
<1>2. left \in Nat
  <2>1. q.limit \in Nat /\ Len(dueRows(q)) \in Nat /\ Len(dueRows(q)) <= q.limit  BY DueHanded
  <2> QED  BY <2>1
<1>3. new = Ranked(Range(d), R)  BY DEF newRows
<1> HIDE DEF introduced, left
<1>4. slots \in Nat /\ slots <= left /\ (slots > 0 => slots + introduced <= q.newLimit)
  BY <1>1, <1>2, Slots
<1> HIDE DEF slots
<1>5. /\ never \in Seq(Hung) /\ NoWordTwice(never)
      /\ \A i \in 1 .. Len(never) : never[i].word \in W
      /\ wordsIn(never) = {w \in W : cards[w] = None}
  BY Unrated
<1> HIDE DEF never, W
<1>6. /\ d \in Seq(Hung) /\ Len(d) = smallest(slots, Len(never)) /\ Len(d) \in Nat /\ Len(d) <= slots
      /\ \E ord : Deals(d, never, ord)
  BY <1>4, <1>5, Dealing
<1> HIDE DEF d
<1>7. PICK ord : Deals(d, never, ord)  BY <1>6
<1>8. NoWordTwice(d) /\ \A k \in 1 .. Len(d) : ord[k] \in 1 .. Len(never) /\ d[k] = never[ord[k]]
  BY <1>5, <1>6, <1>7, StillDistinct
<1>9. \A k \in 1 .. Len(d) : /\ d[k].word \in W /\ cards[d[k].word] = None
                             /\ d[k] \in Hung /\ d[k].word \in Nat
  <2> SUFFICES ASSUME NEW k \in 1 .. Len(d)
               PROVE  /\ d[k].word \in W /\ cards[d[k].word] = None
                      /\ d[k] \in Hung /\ d[k].word \in Nat
    OBVIOUS
  <2>1. ord[k] \in 1 .. Len(never) /\ d[k] = never[ord[k]] /\ ord[k] \in DOMAIN never
    BY <1>5, <1>8
  <2>2. never[ord[k]].word \in wordsIn(never)  BY <2>1 DEF wordsIn
  <2>3. d[k] \in Hung  BY <1>6, ElementOfSeq
  <2>4. d[k].word \in Vocabulary /\ d[k].word \in Nat  BY <2>3, OnTheShelf
  <2> QED  BY <1>5, <2>1, <2>2, <2>3, <2>4
<1> DEFINE S == Range(d)  n == Len(d)
<1>10. S = Values(d, n) /\ DOMAIN d = 1 .. n  BY <1>6 DEF Range, Values
<1>11. IsFiniteSet(S) /\ Cardinality(S) = n
  <2>1. \A i, j \in 1 .. n : i # j => d[i] # d[j]  BY <1>8 DEF NoWordTwice
  <2> HIDE DEF S, n
  <2> QED  BY <1>6, <1>10, <2>1, ValuesCounted DEF n
<1>12. \A x \in S : /\ x \in Hung /\ x.word \in Nat /\ x.word \in W /\ cards[x.word] = None
                    /\ \E k \in 1 .. n : d[k] = x
  BY <1>9, <1>10 DEF Values
<1>13. \A x, y \in S : x # y => x.word # y.word  BY <1>8, <1>12 DEF NoWordTwice
<1>14. Strict(R, S)
  <2>1. \A x, y \in S : <<x, y>> \in R <=> x.word < y.word  OBVIOUS
  <2> HIDE DEF R, S
  <2>2. \A x, y \in S : x.word < y.word => ~(y.word < x.word)  BY <1>12
  <2>3. \A x, y, z \in S : x.word < y.word /\ y.word < z.word => x.word < z.word  BY <1>12
  <2>4. \A x, y \in S : x # y => x.word < y.word \/ y.word < x.word  BY <1>12, <1>13
  <2> QED  BY <2>1, <2>2, <2>3, <2>4 DEF Strict
<1> HIDE DEF R, S, new
<1>15. Lists(new, S, R)  BY <1>3, <1>11, <1>14, RankedLists DEF S
<1>16. /\ new \in [1 .. n -> S] /\ \A i, j \in 1 .. n : i # j => new[i] # new[j]
  BY <1>11, <1>15 DEF Lists
<1>17. new \in Seq(Hung) /\ Len(new) = n
  <2>1. new \in [1 .. n -> Hung]  BY <1>12, <1>16
  <2> HIDE DEF n
  <2>2. n \in Nat  BY <1>6 DEF n
  <2> QED  BY <2>1, <2>2
<1>18. NoWordTwice(new)  BY <1>13, <1>16, <1>17 DEF NoWordTwice
<1>19. \A i \in 1 .. Len(new) : new[i].word \in W /\ cards[new[i].word] = None
  BY <1>12, <1>16, <1>17
<1> QED  BY <1>1, <1>2, <1>4, <1>6, <1>17, <1>18, <1>19
         DEF new, d, never, slots, left, introduced, W

(* A word that is due was rated.                                           *)
LEMMA BeingDue == ASSUME NEW w, NEW W, w \in DueIn(W) PROVE w \in W /\ isDue(w) /\ cards[w] # None
BY DEF DueIn, isDue

\* Every session is dealt as it should be.
LEMMA Fair == ASSUME QueueType, NEW q, Asks(q) PROVE QueueFair(q, queueOf(q))
<1> DEFINE due == dueRows(q)
           zone == orUTC(zoneAfter(q))
           new == newRows(q, zone)
           W == wordsIn(pairsOf(q.deck, q.library))
           introduced == Cardinality(introducedSince(startOfToday(zone)))
           slots == newSlots(q, q.limit - Len(due), introduced)
           D == listed(due)
           N == listed(new)
<1>1. /\ due \in Seq(Hung) /\ NoWordTwice(due) /\ q.limit \in Nat /\ Len(due) \in Nat
      /\ \A i \in 1 .. Len(due) : due[i].word \in DueIn(W)
      /\ \A i, j \in 1 .. Len(due) : i < j /\ (scoped(q) \/ due[i].deck = due[j].deck)
            => cards[due[i].word].due <= cards[due[j].word].due
  BY DueHanded
<1>2. /\ introduced \in Nat /\ q.limit - Len(due) \in Nat /\ slots \in Nat
      /\ new \in Seq(Hung) /\ NoWordTwice(new)
      /\ Len(new) \in Nat /\ Len(new) <= slots /\ slots <= q.limit - Len(due)
      /\ slots > 0 => slots + introduced <= q.newLimit
      /\ \A i \in 1 .. Len(new) : new[i].word \in W /\ cards[new[i].word] = None
  BY NewHanded
<1>3. /\ IsFiniteSet(D) /\ Cardinality(D) = Len(due)
      /\ \A w : w \in D <=> \E i \in 1 .. Len(due) : due[i].word = w
  BY <1>1, WordsCounted
<1>4. /\ IsFiniteSet(N) /\ Cardinality(N) = Len(new)
      /\ \A w : w \in N <=> \E i \in 1 .. Len(new) : new[i].word = w
  BY <1>2, WordsCounted
<1>5. queueOf(q).due = due /\ queueOf(q).new = new  BY DEF queueOf
<1>6. handed(queueOf(q)) = D \cup N  BY <1>5 DEF handed
<1>7. q.newLimit \in Nat  BY DEF Asks
<1>8. ~scoped(q) => \A d, e \in Decks0 :
              CountOf(due, d) < CountOf(dueScan(q), d) => CountOf(due, e) <= CountOf(due, d) + 1
  <2> SUFFICES ASSUME ~scoped(q), NEW d \in Decks0, NEW e \in Decks0,
                      CountOf(due, d) < CountOf(dueScan(q), d)
               PROVE  CountOf(due, e) <= CountOf(due, d) + 1
    OBVIOUS
  <2>1. due = interleaveByDeck(dueScan(q), q.limit)  BY DEF dueRows, dealt
  <2>2. dueScan(q) \in Seq(Hung)  BY DueScanned
  <2> HIDE DEF due
  <2> QED  BY <1>1, <2>1, <2>2, NoDeckPassedOver
<1>9. introduced = Cardinality(introducedSince(startOfToday(zone)))  OBVIOUS
<1> HIDE DEF due, new, D, N, slots, introduced, zone, W
<1>10. Len(due) + Len(new) <= q.limit  BY <1>1, <1>2
<1>11. Cardinality(D \cup N) = Len(due) + Len(new)
  <2>1. D \cap N = {}
    <3> SUFFICES ASSUME NEW w \in D, w \in N PROVE FALSE  OBVIOUS
    <3>1. w \in DueIn(W)  BY <1>1, <1>3
    <3>2. cards[w] = None  BY <1>2, <1>4
    <3> QED  BY <3>1, <3>2, BeingDue
  <2>2. Cardinality(D \cup N) = Cardinality(D) + Cardinality(N) - Cardinality(D \cap N)
    BY <1>3, <1>4, FS_Union
  <2>3. Cardinality(D \cap N) = 0  BY <2>1, FS_EmptySet
  <2> QED  BY <1>1, <1>2, <1>3, <1>4, <2>2, <2>3
<1>12. \A w \in D : isDue(w)  BY <1>1, <1>3, BeingDue
<1>13. \A w \in N : cards[w] = None  BY <1>2, <1>4
<1>14. Len(new) > 0 => Len(new) + introduced <= q.newLimit  BY <1>2, <1>7
<1>15. \A i, j \in DOMAIN due :
              i < j /\ (scoped(q) \/ due[i].deck = due[j].deck)
                 => cards[due[i].word].due <= cards[due[j].word].due
  BY <1>1
<1> QED  BY <1>5, <1>6, <1>8, <1>9, <1>10, <1>11, <1>12, <1>13, <1>14, <1>15
         DEF QueueFair, D, N, introduced, zone

\* A row is listed with those of its deck or library, and with all.
LEMMA Sights ==
    ASSUME QueueType, NEW deck, NEW library
    PROVE  /\ wordsIn(pairsOf(deck, library)) =
                 {w \in Vocabulary : \E r \in Hung : r.word = w /\ inSight(r.deck, deck, library)}
           /\ wordsIn(visibleWords(deck, library)) = wordsIn(pairsOf(deck, library))
           /\ wordsIn(pairsOf(deck, library)) \in SUBSET wordsIn(pairsOf(None, None))
           /\ wordsIn(pairsOf(deck, library)) \in SUBSET Vocabulary
<1> DEFINE Seen(a, b) == {w \in Vocabulary : \E r \in Hung : r.word = w /\ inSight(r.deck, a, b)}
<1>1. ASSUME NEW a, NEW b PROVE wordsIn(pairsOf(a, b)) = Seen(a, b)
  <2> DEFINE p == pairsOf(a, b)
  <2>1. /\ p \in Seq(Hung) /\ \A i \in 1 .. Len(p) : inSight(p[i].deck, a, b)
        /\ \A r \in Hung : inSight(r.deck, a, b) => \E i \in 1 .. Len(p) : p[i] = r
    BY Pairs
  <2> HIDE DEF p
  <2>2. DOMAIN p = 1 .. Len(p)  BY <2>1
  <2>3. ASSUME NEW i \in DOMAIN p PROVE p[i].word \in Seen(a, b)
    <3>1. p[i] \in Hung  BY <2>1, <2>2, ElementOfSeq
    <3>2. p[i].word \in Vocabulary  BY <3>1, OnTheShelf
    <3> QED  BY <2>1, <2>2, <2>3, <3>1, <3>2
  <2>4. ASSUME NEW w \in Seen(a, b) PROVE w \in wordsIn(p)
    <3>1. PICK r \in Hung : r.word = w /\ inSight(r.deck, a, b)  BY <2>4
    <3>2. PICK i \in 1 .. Len(p) : p[i] = r  BY <2>1, <3>1
    <3> QED  BY <2>2, <3>1, <3>2 DEF wordsIn
  <2>5. wordsIn(p) \in SUBSET Seen(a, b)  BY <2>3 DEF wordsIn
  <2> QED  BY <2>4, <2>5 DEF p
<1>2. Seen(deck, library) \in SUBSET Seen(None, None)
  <2>1. \A r \in Hung : inSight(r.deck, deck, library) => inSight(r.deck, None, None)
    BY DEF inSight
  <2> QED  BY <2>1
<1>3. wordsIn(visibleWords(deck, library)) = wordsIn(pairsOf(deck, library))  BY Visible
<1> QED  BY <1>1, <1>2, <1>3

(* Shares in percent.                                                      *)
LEMMA ScaledGrows ==
    ASSUME NEW d \in Nat, NEW a \in Int, NEW b \in Int, a <= b
    PROVE  a * d \in Int /\ a * d <= b * d
<1>1. b = a + (b - a) /\ b - a \in Nat  OBVIOUS
<1>2. (b - a) * d \in Nat /\ b * d = a * d + (b - a) * d  BY <1>1
<1>3. a * d \in Int  OBVIOUS
<1> QED  BY <1>2, <1>3

LEMMA Shares ==
    ASSUME NEW x \in Nat, NEW d \in Nat \ {0}
    PROVE  /\ x \div d \in Nat
           /\ (x \div d) * d <= x /\ x < (x \div d + 1) * d
<1>1. x \div d \in Int /\ x \div d >= 0  BY SMTT(30)
<1>2. d * (x \div d) <= x  BY SMTT(30)
<1>3. x < d * (x \div d) + d  BY SMTT(30)
<1> DEFINE q == x \div d
<1>4. q \in Nat /\ d * q <= x /\ x < d * q + d  BY <1>1, <1>2, <1>3
<1> HIDE DEF q
<1>5. (q + 1) * d = q * d + d /\ q * d = d * q  BY <1>4
<1>6. q \in Nat /\ q * d <= x /\ x < (q + 1) * d  BY <1>4, <1>5
<1> QED  BY <1>6 DEF q

LEMMA SharesGrow ==
    ASSUME NEW x \in Nat, NEW y \in Nat, NEW d \in Nat \ {0}, x <= y
    PROVE  x \div d <= y \div d
<1> DEFINE p == x \div d  q == y \div d
<1>1. p \in Nat /\ p * d <= x  BY Shares
<1>2. q \in Nat /\ y < (q + 1) * d  BY Shares
<1> HIDE DEF p, q
<1>3. CASE q + 1 <= p
  <2>1. (q + 1) * d \in Int /\ (q + 1) * d <= p * d /\ p * d \in Int
    BY <1>1, <1>2, <1>3, ScaledGrows
  <2> QED  BY <1>1, <1>2, <2>1
<1>4. CASE ~(q + 1 <= p)  BY <1>1, <1>2, <1>4
<1>5. p <= q  BY <1>1, <1>2, <1>3, <1>4
<1> QED  BY <1>5 DEF p, q

LEMMA Hundred ==
    ASSUME NEW n \in Nat, NEW d \in Nat \ {0}, n <= d
    PROVE  (n * 100) \div d \in 0 .. 100
<1> DEFINE p == (n * 100) \div d
<1>1. n * 100 \in Nat  OBVIOUS
<1>2. p \in Nat /\ p * d <= n * 100  BY <1>1, Shares
<1> HIDE DEF p
<1>3. CASE p >= 101
  <2>1. 101 * d <= p * d  BY <1>2, <1>3, ScaledGrows
  <2>2. p * d \in Nat  BY <1>2
  <2> QED  BY <1>2, <2>1, <2>2
<1>4. p <= 100  BY <1>2, <1>3
<1> QED  BY <1>2, <1>4 DEF p

Rated(of) == {w \in of : cards[w] # None}
Standing(of, states) == {w \in Rated(of) : cards[w].state \in states}
Share(of, n) == IF Cardinality(of) = 0 THEN 0 ELSE (n * 100) \div Cardinality(of)

(* What a summary says, field by field.                                    *)
LEMMA SummaryFields ==
    ASSUME NEW of
    PROVE  LET s == summarizeProgressRows(of)
           IN  /\ s.totalWords = Cardinality(of)
               /\ s.newWords = Cardinality(of) - Cardinality(Rated(of))
               /\ s.learningWords = Cardinality(Standing(of, {"LEARNING", "RELEARNING"}))
               /\ s.reviewWords = Cardinality(Standing(of, {"REVIEW"}))
               /\ s.masteredWords = Cardinality(Standing(of, {"MASTERED"}))
               /\ s.dueWords = Cardinality({w \in Rated(of) : isDue(w)})
               /\ s.startedPercent = Share(of, Cardinality(Rated(of)))
               /\ s.masteredPercent = Share(of, Cardinality(Standing(of, {"MASTERED"})))
BY Zenon DEF summarizeProgressRows, Rated, Standing, Share

\* A word counts once, as new or in one of three states.
CountedOnce(s) ==
    /\ s.newWords + s.learningWords + s.reviewWords + s.masteredWords = s.totalWords
    /\ s.masteredPercent <= s.startedPercent /\ s.startedPercent \in 0 .. 100
    /\ s.dueWords <= s.totalWords - s.newWords

(* A summary counts each of its words once.                                *)
LEMMA Summarized ==
    ASSUME QueueType, NEW of \in SUBSET Vocabulary
    PROVE  LET s == summarizeProgressRows(of)
           IN  /\ CountedOnce(s)
               /\ s.totalWords = Cardinality(of) /\ Cardinality(of) \in Nat
               /\ s.totalWords > 0 => of # {}
               /\ s.dueWords = Cardinality(DueIn(of)) /\ s.dueWords \in Nat
<1> DEFINE s == summarizeProgressRows(of)
           R == Rated(of)
           L == Standing(of, {"LEARNING", "RELEARNING"})
           V == Standing(of, {"REVIEW"})
           M == Standing(of, {"MASTERED"})
           D == DueIn(of)
           total == Cardinality(of)  rated == Cardinality(R)  mastered == Cardinality(M)
<1>1. /\ s.totalWords = total /\ s.newWords = total - rated
      /\ s.learningWords = Cardinality(L) /\ s.reviewWords = Cardinality(V)
      /\ s.masteredWords = mastered /\ s.dueWords = Cardinality({w \in R : isDue(w)})
      /\ s.startedPercent = Share(of, rated) /\ s.masteredPercent = Share(of, mastered)
  BY SummaryFields
<1>2. s.dueWords = Cardinality(D)
  <2> DEFINE E == {w \in R : isDue(w)}
  <2>1. E = D  BY DEF Rated, DueIn, isDue
  <2>2. s.dueWords = Cardinality(E)  BY <1>1
  <2> QED  BY <2>1, <2>2
<1>3. \A w \in of : cards[w] \in QueueCard \cup {None}  BY OnTheShelf
<1>4. \A w \in R : cards[w].state \in {"LEARNING", "RELEARNING", "REVIEW", "MASTERED"}
  BY <1>3 DEF Rated, QueueCard
<1>5. R = L \cup V \cup M /\ L \cap V = {} /\ (L \cup V) \cap M = {}  BY <1>4 DEF Standing
<1>6. R \in SUBSET of /\ D \in SUBSET R /\ M \in SUBSET R
  BY DEF Rated, DueIn, isDue, Standing
<1>7. IsFiniteSet(of)
  <2>1. IsFiniteSet(Vocabulary)  BY OnTheShelf
  <2> QED  BY <2>1, FS_Subset
<1> HIDE DEF s, R, L, V, M, D
<1>8. /\ IsFiniteSet(R) /\ rated \in Nat /\ total \in Nat /\ rated <= total
  BY <1>6, <1>7, FS_Subset, FS_CardinalityType
<1>9. /\ IsFiniteSet(L) /\ IsFiniteSet(V) /\ IsFiniteSet(M) /\ IsFiniteSet(L \cup V)
      /\ L \cup V \in SUBSET R
  <2>1. L \in SUBSET R /\ V \in SUBSET R /\ L \cup V \in SUBSET R  BY <1>5
  <2> QED  BY <1>6, <1>8, <2>1, FS_Subset
<1>10. /\ Cardinality(L) \in Nat /\ Cardinality(V) \in Nat /\ mastered \in Nat
       /\ Cardinality(L \cup V) \in Nat
  BY <1>9, FS_CardinalityType
<1>11. rated = Cardinality(L) + Cardinality(V) + mastered
  <2>1. Cardinality(L \cup V) = Cardinality(L) + Cardinality(V) - Cardinality(L \cap V)
    BY <1>9, FS_Union
  <2>2. rated = Cardinality(L \cup V) + mastered - Cardinality((L \cup V) \cap M)
    BY <1>5, <1>9, FS_Union
  <2>3. Cardinality(L \cap V) = 0 /\ Cardinality((L \cup V) \cap M) = 0  BY <1>5, FS_EmptySet
  <2> QED  BY <1>10, <2>1, <2>2, <2>3
<1>12. Cardinality(D) \in Nat /\ Cardinality(D) <= rated
  BY <1>6, <1>8, FS_Subset, FS_CardinalityType
<1>13. total > 0 => of # {}  BY <1>8, FS_EmptySet
<1> HIDE DEF total, rated, mastered
<1>14. Share(of, mastered) <= Share(of, rated) /\ Share(of, rated) \in 0 .. 100
  <2>1. CASE total = 0
    <3>1. Share(of, mastered) = 0 /\ Share(of, rated) = 0  BY <2>1 DEF Share, total
    <3> QED  BY <3>1
  <2>2. CASE total # 0
    <3>1. /\ Share(of, mastered) = (mastered * 100) \div total
          /\ Share(of, rated) = (rated * 100) \div total
      BY <2>2 DEF Share, total
    <3>2. /\ mastered * 100 \in Nat /\ rated * 100 \in Nat /\ mastered * 100 <= rated * 100
          /\ total \in Nat \ {0}
      BY <1>8, <1>10, <1>11, <2>2
    <3>3. (mastered * 100) \div total <= (rated * 100) \div total  BY <3>2, SharesGrow
    <3>4. (rated * 100) \div total \in 0 .. 100  BY <1>8, <3>2, Hundred
    <3> QED  BY <3>1, <3>3, <3>4
  <2> QED  BY <2>1, <2>2
<1>15. CountedOnce(s)
  <2>1. s.newWords + s.learningWords + s.reviewWords + s.masteredWords = s.totalWords
    BY <1>1, <1>8, <1>10, <1>11
  <2>2. s.dueWords <= s.totalWords - s.newWords  BY <1>1, <1>2, <1>8, <1>12
  <2> QED  BY <1>1, <1>14, <2>1, <2>2 DEF CountedOnce
<1> QED  BY <1>1, <1>2, <1>8, <1>12, <1>13, <1>15 DEF s, D, total


(* The page of a deck has the words that hang in it, whatever decks they   *)
(* stand for elsewhere.                                                    *)
LEMMA DeckPage == ASSUME QueueType, NEW d
                  PROVE  getDeckProgress(d) = summarizeProgressRows(wordsIn(pairsOf(d, None)))
<1>1. wordsIn(visibleWords(d, None)) = wordsIn(pairsOf(d, None))  BY Sights
<1> QED  BY <1>1 DEF getDeckProgress

\* Of a library's rows, those of one deck
DeckRows(l, d) == {pairsOf(None, l)[i].word : i \in {j \in DOMAIN pairsOf(None, l) : pairsOf(None, l)[j].deck = d}}
DecksSeen(l) == {pairsOf(None, l)[i].deck : i \in DOMAIN pairsOf(None, l)}

(* The rows of a deck are the same by library and by deck.                 *)
LEMMA DeckOfLibrary ==
    ASSUME QueueType, NEW l
    PROVE  /\ \A d \in DecksSeen(l) : DeckRows(l, d) = wordsIn(pairsOf(d, None))
           /\ \A d \in Decks0 : LibraryOf[d] = l /\ wordsIn(pairsOf(d, None)) # {} => d \in DecksSeen(l)
<1> DEFINE p == pairsOf(None, l)
<1>1. /\ p \in Seq(Hung) /\ \A i \in 1 .. Len(p) : inSight(p[i].deck, None, l)
      /\ \A r \in Hung : inSight(r.deck, None, l) => \E i \in 1 .. Len(p) : p[i] = r
  BY Pairs
<1>2. \A d : wordsIn(pairsOf(d, None)) =
               {w \in Vocabulary : \E r \in Hung : r.word = w /\ inSight(r.deck, d, None)}
  BY Sights
<1>3. \A d : /\ DeckRows(l, d) = {p[i].word : i \in {j \in DOMAIN p : p[j].deck = d}}
             /\ DecksSeen(l) = {p[i].deck : i \in DOMAIN p}
  BY DEF DeckRows, DecksSeen
<1>4. None \notin Decks0  BY ReviewQueueAssumption DEF Decks0
<1> HIDE DEF p
<1>5. DOMAIN p = 1 .. Len(p)  BY <1>1
<1>6. ASSUME NEW d \in DecksSeen(l) PROVE DeckRows(l, d) = wordsIn(pairsOf(d, None))
  <2>1. PICK k \in DOMAIN p : p[k].deck = d  BY <1>3
  <2>2. inSight(d, None, l)  BY <1>1, <1>5, <2>1
  <2>3. d # None /\ inSight(d, d, None)  BY <1>4, <2>2 DEF inSight
  <2>4. ASSUME NEW i \in DOMAIN p, p[i].deck = d PROVE p[i].word \in wordsIn(pairsOf(d, None))
    <3>1. p[i] \in Hung  BY <1>1, <1>5, ElementOfSeq
    <3>2. p[i].word \in Vocabulary  BY <3>1, OnTheShelf
    <3> QED  BY <1>2, <2>3, <2>4, <3>1, <3>2
  <2>5. ASSUME NEW w \in wordsIn(pairsOf(d, None)) PROVE \E i \in DOMAIN p : p[i].deck = d /\ p[i].word = w
    <3>1. PICK r \in Hung : r.word = w /\ inSight(r.deck, d, None)  BY <1>2
    <3>2. r.deck = d  BY <2>3, <3>1 DEF inSight
    <3>3. PICK i \in 1 .. Len(p) : p[i] = r  BY <1>1, <2>2, <3>1, <3>2
    <3> QED  BY <1>5, <3>1, <3>2, <3>3
  <2>6. DeckRows(l, d) \in SUBSET wordsIn(pairsOf(d, None))  BY <1>3, <2>4
  <2>7. wordsIn(pairsOf(d, None)) \in SUBSET DeckRows(l, d)  BY <1>3, <2>5
  <2> QED  BY <2>6, <2>7
<1>7. ASSUME NEW d \in Decks0, LibraryOf[d] = l, wordsIn(pairsOf(d, None)) # {} PROVE d \in DecksSeen(l)
  <2>1. PICK r \in Hung : inSight(r.deck, d, None)  BY <1>2, <1>7
  <2>2. r.deck = d /\ inSight(r.deck, None, l)  BY <1>4, <1>7, <2>1 DEF inSight
  <2>3. PICK i \in 1 .. Len(p) : p[i] = r  BY <1>1, <2>2
  <2> QED  BY <1>3, <1>5, <2>2, <2>3
<1> QED  BY <1>6, <1>7

\* The words of a session are in sight.
LEMMA HandedInSight ==
    ASSUME QueueType, NEW q, Asks(q)
    PROVE  handed(queueOf(q)) \in SUBSET wordsIn(pairsOf(q.deck, q.library))
<1> DEFINE W == wordsIn(pairsOf(q.deck, q.library))
           due == dueRows(q)
           new == newRows(q, orUTC(zoneAfter(q)))
<1>1. due \in Seq(Hung) /\ \A i \in 1 .. Len(due) : due[i].word \in DueIn(W)  BY DueHanded
<1>2. new \in Seq(Hung) /\ \A i \in 1 .. Len(new) : new[i].word \in W  BY NewHanded
<1>3. handed(queueOf(q)) = listed(due) \cup listed(new)  BY DEF handed, queueOf
<1> HIDE DEF due, new, W
<1>4. DOMAIN due = 1 .. Len(due) /\ DOMAIN new = 1 .. Len(new)  BY <1>1, <1>2
<1>5. \A w \in DueIn(W) : w \in W  BY BeingDue
<1>6. listed(due) \in SUBSET W /\ listed(new) \in SUBSET W  BY <1>1, <1>2, <1>4, <1>5 DEF listed
<1> QED  BY <1>3, <1>6 DEF W

\* The pages of a library and of its decks say the same.
LEMMA Agree ==
    ASSUME QueueType, \A q \in Queries : Asks(q)
    PROVE  SummariesAgree
<1> DEFINE Libraries == {LibraryOf[d] : d \in Decks0}
<1>1. ASSUME NEW l \in Libraries
      PROVE  LET page == getLibraryProgress(l)
             IN  /\ CountedOnce(page.summary)
                 /\ getLibrariesProgress(None).data[l].summary = page.summary
                 /\ \A d \in DOMAIN page.decks : page.decks[d] = getDeckProgress(d)
                 /\ \A d \in Decks0 : LibraryOf[d] = l /\ getDeckProgress(d).totalWords > 0
                                        => d \in DOMAIN page.decks
  <2> DEFINE page == getLibraryProgress(l)
             W == wordsIn(pairsOf(None, l))
  <2>1. page.summary = summarizeProgressRows(W) /\ page.decks = decksOf(l)
    BY DEF getLibraryProgress
  <2>2. getLibrariesProgress(None).data[l].summary = summarizeProgressRows(W)
    BY DEF getLibrariesProgress
  <2>3. decksOf(l) = [d \in DecksSeen(l) |-> summarizeProgressRows(DeckRows(l, d))]
    BY Zenon DEF decksOf, DecksSeen, DeckRows
  <2>4. W \in SUBSET Vocabulary  BY Sights
  <2>5. CountedOnce(summarizeProgressRows(W))  BY <2>4, Summarized
  <2> HIDE DEF page
  <2>6. ASSUME NEW d \in DecksSeen(l) PROVE page.decks[d] = getDeckProgress(d)
    <3>1. page.decks[d] = summarizeProgressRows(DeckRows(l, d))  BY <2>1, <2>3
    <3> QED  BY <3>1, DeckOfLibrary, DeckPage
  <2>7. ASSUME NEW d \in Decks0, LibraryOf[d] = l, getDeckProgress(d).totalWords > 0
        PROVE  d \in DecksSeen(l)
    <3>1. wordsIn(pairsOf(d, None)) \in SUBSET Vocabulary  BY Sights
    <3>2. wordsIn(pairsOf(d, None)) # {}
      <4>1. summarizeProgressRows(wordsIn(pairsOf(d, None))).totalWords > 0  BY <2>7, DeckPage
      <4> QED  BY <3>1, <4>1, Summarized
    <3> QED  BY <2>7, <3>2, DeckOfLibrary
  <2>8. DOMAIN page.decks = DecksSeen(l)  BY <2>1, <2>3
  <2> QED  BY <2>1, <2>2, <2>5, <2>6, <2>7, <2>8 DEF page
<1>2. ASSUME NEW q \in Queries, NEW w \in handed(queueOf(q))
      PROVE  getWordProgress(w) = [card |-> cards[w]]
  <2>1. w \in wordsIn(pairsOf(q.deck, q.library))  BY <1>2, HandedInSight
  <2>2. w \in wordsIn(pairsOf(None, None))  BY <2>1, Sights
  <2> QED  BY <2>2 DEF getWordProgress
<1> QED  BY <1>1, <1>2 DEF SummariesAgree, CountedOnce

(* A deck's session hands out the due words its page announces.            *)
LEMMA DueAnnounced ==
    ASSUME QueueType, NEW q, Asks(q), scoped(q), q.library = None
    PROVE  /\ listed(queueOf(q).due) \subseteq {w \in wordsIn(pairsOf(q.deck, None)) : isDue(w)}
           /\ Len(queueOf(q).due) = smallest(getDeckProgress(q.deck).dueWords, q.limit)
<1> DEFINE due == dueRows(q)
           W == wordsIn(pairsOf(q.deck, None))
           n == Cardinality(DueIn(W))
<1>1. queueOf(q).due = due  BY DEF queueOf
<1>2. /\ due \in Seq(Hung) /\ NoWordTwice(due) /\ q.limit \in Nat /\ Len(due) \in Nat
      /\ Len(due) = smallest(q.limit, Len(dueScan(q)))
      /\ \A i \in 1 .. Len(due) : due[i].word \in DueIn(W)
  BY DueHanded
<1>3. Len(dueScan(q)) = smallest(q.limit, n)  BY DueScanned
<1>4. W \in SUBSET Vocabulary  BY Sights
<1>5. getDeckProgress(q.deck).dueWords = n /\ n \in Nat  BY <1>4, DeckPage, Summarized
<1>6. \A w : w \in listed(due) <=> \E i \in 1 .. Len(due) : due[i].word = w
  BY <1>2, WordsCounted
<1> HIDE DEF due, W, n
<1>7. \A w \in listed(due) : w \in W /\ isDue(w)  BY <1>2, <1>6, BeingDue
<1>8. Len(due) = smallest(n, q.limit)  BY <1>2, <1>3, <1>5 DEF smallest
<1> QED  BY <1>1, <1>5, <1>7, <1>8 DEF W

(* A session over all decks hands out the new words that were announced.   *)
LEMMA NewAnnounced ==
    ASSUME QueueType, NEW q, Asks(q), q.deck = None, q.library = None, q.tz = None, q.includeNew = TRUE,
           q.newLimit = NewLimit, NEW tz,
           (IF tz = None THEN orUTC(storedZone) ELSE tz) = orUTC(storedZone)
    PROVE  Len(queueOf(q).new) = smallest(getLibrariesProgress(tz).availableNow, q.limit - Len(queueOf(q).due))
<1> DEFINE zone == orUTC(storedZone)
           due == dueRows(q)
           new == newRows(q, zone)
           introduced == Cardinality(introducedSince(startOfToday(zone)))
           left == q.limit - Len(due)
           slots == newSlots(q, left, introduced)
           W == wordsIn(pairsOf(None, None))
           N == {w \in W : cards[w] = None}
           never == Cardinality(N)
           quota == IF introduced < NewLimit THEN NewLimit - introduced ELSE 0
<1>1. orUTC(zoneAfter(q)) = zone  BY DEF zoneAfter
<1>2. queueOf(q).due = due /\ queueOf(q).new = new  BY <1>1 DEF queueOf
<1>3. /\ introduced \in Nat /\ left \in Nat /\ slots \in Nat
      /\ Len(new) = smallest(slots, Len(neverRated(q)))
  BY NewHanded
<1>4. Len(neverRated(q)) = never /\ never \in Nat
  <2>1. neverRated(q) \in Seq(Hung) /\ NoWordTwice(neverRated(q)) /\ wordsIn(neverRated(q)) = N
    BY Unrated
  <2>2. listed(neverRated(q)) = wordsIn(neverRated(q))  BY DEF listed, wordsIn
  <2> HIDE DEF N
  <2>3. Cardinality(listed(neverRated(q))) = Len(neverRated(q)) /\ Len(neverRated(q)) \in Nat
    BY <2>1, WordsCounted
  <2> QED  BY <2>1, <2>2, <2>3
<1>5. introducedToday(tz) = introducedSince(startOfToday(zone))
  <2>1. (IF tz # None THEN tz ELSE orUTC(storedZone)) = zone  OBVIOUS
  <2> QED  BY <2>1 DEF introducedToday
<1>6. getLibrariesProgress(tz).availableNow = IF quota < never THEN quota ELSE never
  BY <1>5 DEF getLibrariesProgress
<1>7. slots = LET rest == NewLimit - introduced
              IN  IF rest < 0 THEN 0 ELSE IF rest < left THEN rest ELSE left
  BY DEF newSlots
<1>8. NewLimit \in Nat  BY ReviewQueueAssumption
<1> HIDE DEF zone, due, new, introduced, left, slots, N, never
<1>9. Len(new) = smallest(IF quota < never THEN quota ELSE never, left)
  BY <1>3, <1>4, <1>7, <1>8 DEF smallest
<1> QED  BY <1>2, <1>6, <1>9 DEF left

(* Both, for the queries the pages are about.                              *)
LEMMA Announced == ASSUME QueueType PROVE AnnouncedIsHanded
<1>1. QueueLimit \in Nat /\ NewLimit \in Nat /\ None \notin Decks0
  BY ReviewQueueAssumption DEF Decks0
<1>2. ASSUME NEW d \in Decks0, NEW q,
             q = [deck |-> d, library |-> None, limit |-> QueueLimit, includeNew |-> FALSE,
                  newLimit |-> NewLimit, tz |-> None]
      PROVE  /\ listed(queueOf(q).due) \subseteq {w \in wordsIn(pairsOf(d, None)) : isDue(w)}
             /\ Len(queueOf(q).due) = smallest(getDeckProgress(d).dueWords, QueueLimit)
  <2>1. /\ q.deck = d /\ q.library = None /\ q.limit = QueueLimit /\ q.newLimit = NewLimit
        /\ q.includeNew \in BOOLEAN
    BY <1>2
  <2>2. Asks(q) /\ scoped(q)  BY <1>1, <2>1 DEF Asks, scoped
  <2> QED  BY <2>1, <2>2, DueAnnounced
<1>3. ASSUME NEW tz, (IF tz = None THEN orUTC(storedZone) ELSE tz) = orUTC(storedZone), NEW q,
             q = [deck |-> None, library |-> None, limit |-> QueueLimit, includeNew |-> TRUE,
                  newLimit |-> NewLimit, tz |-> None]
      PROVE  Len(queueOf(q).new) = smallest(getLibrariesProgress(tz).availableNow, QueueLimit - Len(queueOf(q).due))
  <2>1. /\ q.deck = None /\ q.library = None /\ q.limit = QueueLimit /\ q.newLimit = NewLimit
        /\ q.includeNew = TRUE /\ q.tz = None
    BY <1>3
  <2>2. Asks(q)  BY <1>1, <2>1 DEF Asks
  <2> QED  BY <1>3, <2>1, <2>2, NewAnnounced
<1> QED  BY <1>2, <1>3 DEF AnnouncedIsHanded

LEMMA QueryAsks == \A q \in Queries : Asks(q)
BY ReviewQueueAssumption DEF Asks

(* All of it, whatever the arrangement.                                    *)
LEMMA QueueSounds == QueueType => QueueSound
BY Fair, Announced, Agree, QueryAsks DEF QueueSound

(* Whatever decks the words hang in, whatever cards the student has of them *)
(* and whenever he asks, a session is no longer than asked for, names no    *)
(* word twice, hands out what is due in its order without passing over a    *)
(* deck, stays within the day's quota of new words, hands out what the      *)
(* pages announce, and the summaries of decks and libraries agree           *)
(* (getDueReviews, getDeckProgress, getLibraryProgress and                  *)
(* getLibrariesProgress).                                                   *)
THEOREM QueueAlwaysSound == QueueSpec => []QueueSound
<1>1. QueueInit => QueueType  BY ReviewQueueAssumption DEF QueueInit, QueueType
<1>2. QueueType /\ [QueueNext]_queueVars => QueueType'
  BY DEF QueueType, QueueNext, Tick, GetDueReviews, queueVars
<1> QED  BY <1>1, <1>2, QueueSounds, PTL DEF QueueSpec
=============================================================================
