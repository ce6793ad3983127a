------------------------------ MODULE Listening ------------------------------
(***************************************************************************)
(* One recording and one student who practises it by dictation and by      *)
(* shadowing (DictationService, ShadowingService), while editors save its  *)
(* sentences, publish it and take it away (ListeningContentService,        *)
(* ListeningCategoryService).  A sentence is the id of its row; ids are    *)
(* never used again.                                                       *)
(***************************************************************************)
EXTENDS Absent, Naturals, FiniteSets, Sequences

CONSTANTS Requests, Keys,      \* submissions and their clientAttemptId
          Editors, Documents,  \* saves, and the documents they may carry
          MaxSentence,         \* bound on the sentences ever created
          Scores,              \* accuracies a submission may get
          New                  \* an entry of a document without an id

Sentences == 1 .. MaxSentence
Modes     == {"DICTATION", "SHADOWING"}
REORDER_OFFSET == 100     \* above every position, like 1 000 000

VerdictType  == [s : Sentences, score : Scores, assisted : BOOLEAN, solved : BOOLEAN,
                 feedback : Requests \cup {None}]
StandingType == [done : BOOLEAN, best : Nat, assisted : BOOLEAN, count : Nat]

ASSUME ListeningAssumption ==
    /\ MaxSentence \in Nat /\ 2 <= MaxSentence /\ MaxSentence < REORDER_OFFSET
    /\ Scores \subseteq 0 .. 100
    /\ Documents \subseteq Seq(Sentences \cup {New})
    /\ None \notin Nat \cup VerdictType \cup StandingType

VARIABLES content,    \* the ListeningContent row, None once removed
          category,   \* its category is published
          order,      \* orderIndex of each sentence row, None when there is none
          made,       \* sentences ever created
          attempts,   \* attempt rows by mode and key
          progress,   \* progress rows by mode and sentence
          request,    \* submissions and requests for feedback
          save,       \* saves
          checked,    \* a publish that found the document sound
          saved,      \* history: the rows of the last document, in its order
          kept,       \* history: what that document asked for
          stale       \* history: <<mode, sentence>> written from an old reading

listenVars == <<content, category, order, made, attempts, progress, request, save,
                checked, saved, kept, stale>>
Practice == <<attempts, progress, request, stale>>
Editing  == <<content, category, order, made, save, checked, saved, kept>>

Alive == {s \in Sentences : order[s] # None}

ListenInit ==
    /\ content = [isPublished |-> TRUE, modes |-> Modes] /\ category = TRUE
    /\ order = [s \in Sentences |-> IF s <= 2 THEN s - 1 ELSE None] /\ made = 2
    /\ attempts = [x \in Modes \X Keys |-> None]
    /\ progress = [x \in Modes \X Sentences |-> None]
    /\ request = [r \in Requests |-> [pc |-> "new"]]
    /\ save = [e \in Editors |-> [pc |-> "new"]]
    /\ checked = FALSE
    /\ saved = <<1, 2>> /\ kept = <<1, 2>> /\ stale = {}
-----------------------------------------------------------------------------
Visible(mode) == content # None /\ content.isPublished /\ category /\ mode \in content.modes

\* DictationScore.solved, or the pass mark of shadowing
Solved(mode, score) == score >= IF mode = "DICTATION" THEN 100 ELSE 70

Update(r, fields) == request' = [request EXCEPT ![r] = fields]
Refuse(r) == Update(r, [pc |-> "failed"])

\* The same 404 for a sentence that is gone and for one that may not be seen.
Submit(r, mode, key, s) ==
    /\ request[r].pc = "new"
    /\ IF s \in Alive /\ Visible(mode)
       THEN Update(r, [pc |-> "replay", mode |-> mode, key |-> key, s |-> s])
       ELSE Refuse(r)
    /\ UNCHANGED <<attempts, progress, stale, Editing>>

(* An attempt already recorded is answered as it was; the speech engine is *)
(* not asked again.                                                        *)
Replay(r) ==
    LET q   == request[r]
        old == attempts[<<q.mode, q.key>>]
    IN  /\ q.pc = "replay"
        /\ IF old # None
           THEN Update(r, [pc |-> "answered", mode |-> q.mode, key |-> q.key, verdict |-> old])
           ELSE Update(r, [q EXCEPT !.pc = "score"])
        /\ UNCHANGED <<attempts, progress, stale, Editing>>

Open(r) == request[r].pc \in {"read", "write"}    \* its transaction holds its row
OpenOn(S) == \E r \in Requests : Open(r) /\ request[r].s \in S

\* The first statement of the transaction: the attempt row, unique by its key.
InsertAttempt(r, score, helped) ==
    LET q == request[r]
    IN  /\ q.pc = "score" /\ (q.mode = "SHADOWING" => ~helped)
        /\ ~\E x \in Requests : Open(x) /\ request[x].mode = q.mode /\ request[x].key = q.key
        /\ IF attempts[<<q.mode, q.key>>] # None \/ q.s \notin Alive
           THEN Refuse(r)
           ELSE Update(r, [pc |-> "read", mode |-> q.mode, key |-> q.key, s |-> q.s,
                           verdict |-> [s |-> q.s, score |-> score, assisted |-> helped,
                                        solved |-> Solved(q.mode, score), feedback |-> None]])
        /\ UNCHANGED <<attempts, progress, stale, Editing>>

ReadProgress(r) ==
    LET q == request[r]
    IN  /\ q.pc = "read"
        /\ Update(r, [pc |-> "write", mode |-> q.mode, key |-> q.key, s |-> q.s,
                      verdict |-> q.verdict, previous |-> progress[<<q.mode, q.s>>]])
        /\ UNCHANGED <<attempts, progress, stale, Editing>>

(* Mutant: the count is written from the reading, like the rest. *)
CombinedAll(row, previous, v) ==
    LET p == IF previous = None THEN [done |-> FALSE, best |-> 0, assisted |-> FALSE, count |-> 0]
                                ELSE previous
    IN  [done     |-> p.done \/ v.solved,
         best     |-> IF p.best > v.score THEN p.best ELSE v.score,
         assisted |-> p.assisted \/ v.assisted,
         count    |-> p.count + 1]

\* What the row becomes; only the count is the database's own.
Combined(row, previous, v) ==
    LET p == IF previous = None THEN [done |-> FALSE, best |-> 0, assisted |-> FALSE]
                                ELSE previous
    IN  [done     |-> p.done \/ v.solved,
         best     |-> IF p.best > v.score THEN p.best ELSE v.score,
         assisted |-> p.assisted \/ v.assisted,
         count    |-> (IF row = None THEN 0 ELSE row.count) + 1]

(* The upsert, recordProgress and the commit.                              *)
Write(r) ==
    LET q   == request[r]
        at  == <<q.mode, q.s>>
    IN  /\ q.pc = "write"
        /\ attempts' = [attempts EXCEPT ![<<q.mode, q.key>>] = q.verdict]
        /\ progress' = [progress EXCEPT ![at] = Combined(@, q.previous, q.verdict)]
        /\ stale' = IF progress[at] = q.previous THEN stale ELSE stale \cup {at}
        /\ Update(r, [pc |-> "answered", mode |-> q.mode, key |-> q.key, verdict |-> q.verdict])
        /\ UNCHANGED Editing

(* The engine or the database gives up: nothing of the transaction stays.  *)
Abort(r) ==
    /\ request[r].pc = "score" \/ Open(r)
    /\ Refuse(r)
    /\ UNCHANGED <<attempts, progress, stale, Editing>>

(* requestFeedback: what is stored is returned; otherwise advice is bought *)
(* and written over whatever the row holds by then.                        *)
Feedback(r, key) ==
    LET a == attempts[<<"SHADOWING", key>>]
    IN  /\ request[r].pc = "new" /\ a # None
        /\ Update(r, IF a.feedback # None THEN [pc |-> "advised", with |-> a.feedback]
                     ELSE [pc |-> "advise", key |-> key])
        /\ UNCHANGED <<attempts, progress, stale, Editing>>

Advise(r) ==
    LET at == <<"SHADOWING", request[r].key>>
    IN  /\ request[r].pc = "advise"
        /\ IF attempts[at] = None THEN Refuse(r) /\ UNCHANGED attempts
           ELSE /\ attempts' = [attempts EXCEPT ![at].feedback = r]
                /\ Update(r, [pc |-> "advised", with |-> r])
        /\ UNCHANGED <<progress, stale, Editing>>

\* Sentences with a completedAt: rows of sentences that were removed went with them
completedSegments(mode) ==
    Cardinality({s \in Sentences : /\ progress[<<mode, s>>] # None
                                   /\ progress[<<mode, s>>].done})

\* Without sentences a recording is empty, not done
summarise(total, completed) ==
    [totalSegments |-> total, completedSegments |-> completed,
     completed |-> total > 0 /\ completed = total]

\* The summary of a recording, for a student who may see it in that mode
Summary(mode) ==
    IF Visible(mode) THEN summarise(Cardinality(Alive), completedSegments(mode)) ELSE None
-----------------------------------------------------------------------------
Positions(doc) == 1 .. Len(doc)
Named(doc)     == {doc[i] : i \in Positions(doc)}
SetSave(e, fields) == save' = [save EXCEPT ![e] = fields]

\* upsertSegments reads the ids it may keep.  `sane` is the outcome of
\* validateSegmentDocument: what it refuses is a 400, a recording that is gone a
\* 404.  A document may name a sentence twice, and it may be empty.
SaveRead(e, doc, sane) ==
    /\ save[e].pc = "new"
    /\ SetSave(e, IF content # None /\ sane THEN [pc |-> "write", doc |-> doc, seen |-> Alive]
                  ELSE [pc |-> "failed"])
    /\ UNCHANGED <<content, category, order, made, checked, saved, kept, Practice>>

(* Mutant: sentences are deleted and created again. *)
RowsAnew(doc, seen) == [i \in Positions(doc) |-> made + i]

(* The row of every entry: its own when it was there to be read, a new one *)
(* otherwise.                                                              *)
RowsOf(doc, seen) ==
    LET fresh(i) == Cardinality({j \in 1 .. i : doc[j] \notin seen})
    IN  [i \in Positions(doc) |-> IF doc[i] \in seen THEN doc[i] ELSE made + fresh(i)]

\* No later entry is about the same row: of two, the last write stays.
LastOf(rows, i) == ~\E j \in Positions(rows) : j > i /\ rows[j] = rows[i]

(* ... and then deletes, parks and writes, each position in turn.  The     *)
(* rows it touches stay locked to its end.  `last`: the newest row of      *)
(* another save there was when the statement that parks began; what was    *)
(* committed since stands where it is.  Two rows on one position are an error: the   *)
(* unique index is asked row by row, so that parking fails for certain on  *)
(* a row that is not parked, and by chance on one that is.                 *)
SaveWrite(e) ==
    LET doc   == save[e].doc
        seen  == save[e].seen
        rows  == RowsOf(doc, seen)
        named == {s \in Sentences : \E i \in Positions(doc) : rows[i] = s}
        stays == seen \cap named
        gone  == seen \ named
        there == Alive \ gone
        clash(S, T) == \E a \in S, b \in T : order[a] + REORDER_OFFSET = order[b]
    IN  /\ save[e].pc = "write"
        /\ ~OpenOn(gone) /\ made + Len(doc) <= MaxSentence
        /\ \E last \in {0} \cup (there \ seen) :
            LET parked == IF stays = {} THEN {} ELSE {s \in there : s \in seen \/ s <= last}
                where  == [s \in Sentences |->
                            IF s \in named
                            THEN (CHOOSE i \in Positions(doc) : rows[i] = s /\ LastOf(rows, i)) - 1
                            ELSE IF s \notin there THEN None
                            ELSE IF s \in parked THEN order[s] + REORDER_OFFSET ELSE order[s]]
                written == /\ content # None /\ stays \subseteq there
                           /\ ~clash(parked, there \ parked)
                           /\ \A s \in there \ (named \cup parked) : order[s] >= Len(doc)
            IN  \/ /\ written
                   /\ order' = where
                   /\ made' = made + Cardinality(named \ seen)
                   /\ attempts' = [x \in Modes \X Keys |->
                          IF attempts[x] # None /\ attempts[x].s \in gone THEN None ELSE attempts[x]]
                   /\ progress' = [x \in Modes \X Sentences |->
                          IF x[2] \in gone THEN None ELSE progress[x]]
                   /\ saved' = rows
                   /\ kept' = [i \in Positions(doc) |-> IF doc[i] \in seen THEN doc[i] ELSE New]
                   /\ SetSave(e, [pc |-> "saved"])
                \/ /\ ~written \/ clash(parked, parked)
                   /\ SetSave(e, [pc |-> "failed"])
                   /\ UNCHANGED <<order, made, attempts, progress, saved, kept>>
        /\ UNCHANGED <<content, category, checked, request, stale>>

(* publish: the document is read and checked, then the row is set.  `sound`*)
(* is the outcome of validateContentForPublish on what the model leaves    *)
(* out: media, attribution and times.                                      *)
PublishCheck(sound) ==
    /\ content # None /\ sound
    /\ category /\ content.modes # {} /\ Alive # {} /\ ~checked
    /\ checked' = TRUE
    /\ UNCHANGED <<content, category, order, made, save, saved, kept, Practice>>

PublishWrite ==
    /\ checked /\ checked' = FALSE
    /\ content' = IF content = None THEN None ELSE [content EXCEPT !.isPublished = TRUE]
    /\ UNCHANGED <<category, order, made, save, saved, kept, Practice>>

Unpublish ==
    /\ content # None /\ content.isPublished
    /\ content' = [content EXCEPT !.isPublished = FALSE]
    /\ UNCHANGED <<category, order, made, save, checked, saved, kept, Practice>>

\* publish and unpublish of the category: its contents are left as they are
SetCategory ==
    /\ category' = ~category
    /\ UNCHANGED <<content, order, made, save, checked, saved, kept, Practice>>

\* update: the practice modes of a live recording may change
UpdateModes(modes) ==
    /\ content # None /\ content.modes # modes
    /\ content' = [content EXCEPT !.modes = modes]
    /\ UNCHANGED <<category, order, made, save, checked, saved, kept, Practice>>

(* remove: the foreign keys of attempts and progress refuse a recording    *)
(* that was practised; the sentences go with one that was not.             *)
Remove ==
    /\ content # None /\ ~OpenOn(Sentences)
    /\ \A x \in DOMAIN attempts : attempts[x] = None
    /\ content' = None /\ order' = [s \in Sentences |-> None]
    /\ saved' = <<>> /\ kept' = <<>>
    /\ UNCHANGED <<category, made, save, checked, Practice>>

ListenNext ==
    \/ \E r \in Requests :
        \/ \E mode \in Modes, key \in Keys, s \in Sentences : Submit(r, mode, key, s)
        \/ Replay(r) \/ ReadProgress(r) \/ Write(r) \/ Abort(r) \/ Advise(r)
        \/ \E score \in Scores, helped \in BOOLEAN : InsertAttempt(r, score, helped)
        \/ \E key \in Keys : Feedback(r, key)
    \/ \E e \in Editors :
        SaveWrite(e) \/ \E doc \in Documents, sane \in BOOLEAN : SaveRead(e, doc, sane)
    \/ PublishCheck(TRUE) \/ PublishWrite \/ Unpublish \/ SetCategory \/ Remove
    \/ \E modes \in SUBSET Modes : UpdateModes(modes)

ListenSpec == ListenInit /\ [][ListenNext]_listenVars
-----------------------------------------------------------------------------
RowsOn(mode, s) == {a \in {attempts[<<mode, k>>] : k \in Keys} : a # None /\ a.s = s}
CountOf(mode, s) == Cardinality({k \in Keys : /\ attempts[<<mode, k>>] # None
                                              /\ attempts[<<mode, k>>].s = s})

(* A student's standing on a sentence is what the attempts on it add up    *)
(* to: submissions are counted once each, whatever is retried, raced or    *)
(* rolled back and whatever editors do, and only a submission that was     *)
(* written from an old reading of the row can take away a result, never    *)
(* invent one (submitAttempt of both modes, upsertSegments).               *)
ProgressIsHistory ==
    \A mode \in Modes, s \in Sentences :
        LET p == progress[<<mode, s>>]
            R == RowsOn(mode, s)
        IN  /\ (p = None) <=> (R = {})
            /\ p # None =>
                  /\ s \in Alive
                  /\ p.count = CountOf(mode, s)
                  /\ p.done => \E a \in R : a.solved
                  /\ p.assisted => \E a \in R : a.assisted
                  /\ \E a \in R : a.score = p.best
                  /\ <<mode, s>> \notin stale =>
                        /\ (\E a \in R : a.solved) => p.done
                        /\ (\E a \in R : a.assisted) => p.assisted
                        /\ \A a \in R : a.score <= p.best

(* findProgressSummaries: a recording is done when as many sentences are   *)
(* as it has.  So it is shown as done only to a student who has solved     *)
(* every sentence it has now, whichever were removed or added meanwhile,   *)
(* and to each of them, unless a result was lost to a stale write.         *)
SummaryIsHonest ==
    \A mode \in Modes :
        LET solved == {s \in Alive : \E a \in RowsOn(mode, s) : a.solved}
            lost   == {s \in Alive : <<mode, s>> \in stale}
        IN  Summary(mode) # None =>
              /\ Summary(mode).completedSegments <= Summary(mode).totalSegments
              /\ Summary(mode).completed => Alive # {} /\ solved = Alive
              /\ Alive # {} /\ solved = Alive /\ lost = {} => Summary(mode).completed

(* The sentences of the last document that was saved come first and in its *)
(* order, each on the row its author edited, however many saves overlapped *)
(* (of a sentence named twice, the last entry counts); what an overlapping *)
(* save added comes after them (upsertSegments).                           *)
DocumentAsSaved ==
    /\ \A i \in Positions(saved) :
          /\ saved[i] \in Alive /\ (LastOf(saved, i) => order[saved[i]] = i - 1)
          /\ kept[i] # New => saved[i] = kept[i]
    /\ \A s \in Alive : (~\E i \in Positions(saved) : saved[i] = s) => order[s] >= Len(saved)
    /\ \A s, t \in Alive : s # t => order[s] # order[t]

(* The progress and its summary are those of the history, the sentences    *)
(* are those of a document that was saved.                                 *)
ListeningSound == ProgressIsHistory /\ SummaryIsHonest /\ DocumentAsSaved
=============================================================================
