--------------------------- MODULE PublishedTopics ---------------------------
(***************************************************************************)
(* What is published in two levels: scenarios and their exercises,         *)
(* categories and their recordings, libraries and their decks              *)
(* (SpeakingScenarioService, SpeakingExerciseService,                      *)
(* ListeningCategoryService, ListeningContentService, VocabLibraryService).*)
(* The services are copies of one another: a topic that can be switched    *)
(* off, and pieces that each keep their own switch.  No handler opens a    *)
(* transaction; every read is a step and the write another, and what the   *)
(* foreign keys refuse is all that stands between the two.  `family` says  *)
(* which copy runs.                                                        *)
(***************************************************************************)
EXTENDS Absent, Integers, FiniteSets, Sequences

CONSTANTS Topics, Pieces,       \* ids of rows; a removed one is not used again
          Hands, HandCalls,     \* requests of editors and students
          Families,             \* of "speaking", "listening", "vocabulary"
          FirstTopics, FirstPieces,
          MaxBreath             \* MAX_SHADOWING_SEGMENT_MS

TopicType == [at : Nat, on : BOOLEAN]
PieceType == [topic : Topics, at : Nat, on : BOOLEAN]

\* the checks of the DTOs, and a database in which nothing is orphaned and
\* no two rows share a place
ASSUME TopicsAssumption ==
    /\ IsFiniteSet(Topics) /\ IsFiniteSet(Pieces) /\ Topics \cap Pieces = {}
    /\ None \notin Topics \cup Nat \cup TopicType \cup PieceType
    /\ \A call \in HandCalls :
          /\ call.row \in Topics \cup Pieces
          /\ call.topic \in Topics \cup {None} /\ call.at \in Nat \cup {None}
          /\ call.op = "create" /\ call.row \in Pieces => call.topic # None
          /\ call.op = "practise" => call.row \in Pieces
    /\ FirstTopics \in [Topics -> TopicType \cup {None}]
    /\ FirstPieces \in [Pieces -> PieceType \cup {None}]
    /\ \A i \in Pieces : FirstPieces[i] # None => FirstTopics[FirstPieces[i].topic] # None
    /\ \A s, t \in Topics : s # t /\ FirstTopics[s] # None /\ FirstTopics[t] # None =>
                             FirstTopics[s].at # FirstTopics[t].at
    /\ \A i, j \in Pieces : i # j /\ FirstPieces[i] # None /\ FirstPieces[j] # None
                             /\ FirstPieces[i].topic = FirstPieces[j].topic =>
                                   FirstPieces[i].at # FirstPieces[j].at

VARIABLES family,
          topicRow,     \* [at |-> orderIndex, on |-> isPublished]
          pieceRow,     \* the same, and its topic
          practised,    \* pieces with an attempt row
          hand,         \* the requests
          went,         \* history: rows removed
          handPlaced        \* history: rows whose place was asked for, or read too early

topicVars == <<family, topicRow, pieceRow, practised, hand, went, handPlaced>>

NewHand == [pc |-> "new", call |-> [op |-> "none"], at |-> 0]

TopicsInit ==
    /\ family \in Families
    /\ topicRow = FirstTopics /\ pieceRow = FirstPieces
    /\ practised = {} /\ went = {} /\ handPlaced = {}
    /\ hand = [r \in Hands |-> NewHand]
-----------------------------------------------------------------------------
isTopic(x) == x \in Topics
rowOf(x) == IF isTopic(x) THEN topicRow[x] ELSE pieceRow[x]
piecesOn(s) == {i \in Pieces : pieceRow[i] # None /\ pieceRow[i].topic = s}
isOn(x) == rowOf(x) # None /\ rowOf(x).on

\* visibleExerciseWhere, visibleContentWhere
studentSees(i) == isOn(i) /\ isOn(pieceRow[i].topic)

\* findCatalog: the recordings a student finds, who may name a category; `matching`
\* are those his level, mode and words allow.
recordingCards(topic, matching) ==
    {i \in matching : studentSees(i) /\ topic \in {None, pieceRow[i].topic}}

DEFAULT_LIMIT == 12
MAX_LIMIT == 100

\* Math.min(query.limit || 12, MAX_LIMIT)
cardsPerPage(limit) ==
    IF limit = 0 THEN DEFAULT_LIMIT ELSE IF limit > MAX_LIMIT THEN MAX_LIMIT ELSE limit

\* The orders in which they may be listed: by their places, which may be the same.
cardOrders(cards) ==
    {o \in [1 .. Cardinality(cards) -> cards] :
        \A j, k \in DOMAIN o : j < k => o[j] # o[k] /\ pieceRow[o[j]].at <= pieceRow[o[k]].at}

\* A page of them in such an order, with its meta; no page means the first.
findCatalog(cards, listed, page, limit) ==
    LET take == cardsPerPage(limit)
        skip == IF page = 0 THEN 0 ELSE (page - 1) * take
        last == IF skip + take < Len(listed) THEN skip + take ELSE Len(listed)
    IN  [data |-> SubSeq(listed, skip + 1, last), total |-> Cardinality(cards),
         totalPages |-> (Cardinality(cards) + take - 1) \div take]

\* findOneVisible: the recording, or the 404 that tells no reason
findOneVisible(i) == IF studentSees(i) THEN pieceRow[i] ELSE None

\* findPublishedDetail: nothing, where a 404 is answered.
detailOf(s) == IF isOn(s) THEN {i \in piecesOn(s) : isOn(i)} ELSE {}

(* Mutant: every published topic gets its card.                            *)
cardsOfAll == {s \in Topics : isOn(s)}

\* findPublishedCatalog, and the chips of findCatalog, each with its count
catalogueCards == {s \in Topics : isOn(s) /\ \E i \in piecesOn(s) : pieceRow[i].on}
chipCount(s) == Cardinality({i \in piecesOn(s) : pieceRow[i].on})

\* the rows among which a new one takes its place
siblings(call) == IF isTopic(call.row) THEN {topicRow[s] : s \in {t \in Topics : topicRow[t] # None}}
                  ELSE {pieceRow[i] : i \in piecesOn(call.topic)}

(* Mutant: the next place is the number of rows there are.                 *)
placeByCount(rows) == Cardinality(rows)

\* (_max.orderIndex ?? -1) + 1
nextPlace(rows) == IF rows = {} THEN 0
                   ELSE 1 + CHOOSE n \in {x.at : x \in rows} : \A x \in rows : x.at <= n
-----------------------------------------------------------------------------
(* A request                                                               *)

moves(r, pc) == hand' = [hand EXCEPT ![r].pc = pc]
replies(r, reply) == hand' = [hand EXCEPT ![r].pc = reply]
rowsRest == UNCHANGED <<family, topicRow, pieceRow, practised, went, handPlaced>>

\* What this copy of the services offers.  Exercises and recordings are
\* practised; a deck is published by another module's rules, and no library
\* or deck may be given a place.
Offers(call) ==
    family = "vocabulary" =>
        /\ call.at = None
        /\ isTopic(call.row) \/ call.op \in {"create", "remove"}

\* The row an order names is there, or, for a new one, its id is fresh.
Reach(r, call) ==
    /\ hand[r].pc = "new" /\ Offers(call)
    /\ call.op = "create" => rowOf(call.row) = None /\ call.row \notin went
                             /\ \A h \in Hands : hand[h].call.op = "create" => hand[h].call.row # call.row
    /\ hand' = [hand EXCEPT ![r] = [@ EXCEPT !.pc = "find", !.call = call]]
    /\ rowsRest

\* after the row is found: its topic, if another is named; then its place
afterFind(call) ==
    IF call.op \in {"create", "edit"} /\ ~isTopic(call.row) /\ call.topic # None THEN "topic"
    ELSE IF call.op = "create" /\ call.at = None THEN "place"
    ELSE IF call.op = "remove" /\ (isTopic(call.row) \/ family = "speaking") THEN "count"
    ELSE "write"

\* findOneOrThrow; a student's attempt looks for what he may see, and the
\* publication of a recording at the switch of its category (the rules
\* about the recording itself are validateContentForPublish's).
Seek(r) ==
    LET call == hand[r].call
        row  == rowOf(call.row)
        refused == \/ call.op # "create" /\ row = None
                   \/ call.op = "practise" /\ ~studentSees(call.row)
                   \/ /\ call.op = "publish" /\ family = "listening" /\ ~isTopic(call.row)
                      /\ row # None /\ ~isOn(row.topic)
                   \/ call.op = "remove" /\ family = "vocabulary" /\ ~isTopic(call.row) /\ isOn(call.row)
    IN  /\ hand[r].pc = "find"
        /\ IF refused THEN replies(r, "refused") ELSE moves(r, afterFind(call))
        /\ rowsRest

\* The topic a piece is made under or moved to: a 404, or a 400.
SeekTopic(r) ==
    LET call == hand[r].call
    IN  /\ hand[r].pc = "topic"
        /\ IF topicRow[call.topic] = None THEN replies(r, "refused")
           ELSE moves(r, IF call.op = "create" /\ call.at = None THEN "place" ELSE "write")
        /\ rowsRest

\* aggregate _max
Place(r) ==
    /\ hand[r].pc = "place"
    /\ hand' = [hand EXCEPT ![r].pc = "write", ![r].at = nextPlace(siblings(hand[r].call))]
    /\ rowsRest

\* what keeps a row from being removed
holds(x) == IF isTopic(x) THEN piecesOn(x) # {} ELSE x \in practised

CountFirst(r) ==
    /\ hand[r].pc = "count"
    /\ IF holds(hand[r].call.row) THEN replies(r, "refused") ELSE moves(r, "write")
    /\ rowsRest
-----------------------------------------------------------------------------
(* The writes: a row that went in between is the error Prisma throws       *)

writing(r, ops) == hand[r].pc = "write" /\ hand[r].call.op \in ops
fails(r) == replies(r, "failed") /\ rowsRest

WriteRow(x, row) ==
    IF isTopic(x) THEN topicRow' = [topicRow EXCEPT ![x] = row] /\ UNCHANGED pieceRow
    ELSE pieceRow' = [pieceRow EXCEPT ![x] = row] /\ UNCHANGED topicRow

CreateRow(r) ==
    LET call == hand[r].call
        at   == IF call.at = None THEN hand[r].at ELSE call.at
        row  == IF isTopic(call.row) THEN [at |-> at, on |-> FALSE]
                ELSE [topic |-> call.topic, at |-> at, on |-> FALSE]
    IN  /\ writing(r, {"create"})
        /\ IF ~isTopic(call.row) /\ topicRow[call.topic] = None THEN fails(r)
           ELSE /\ WriteRow(call.row, row)
                /\ handPlaced' = IF call.at = None /\ at = nextPlace(siblings(call)) THEN handPlaced
                             ELSE handPlaced \cup {call.row}
                /\ replies(r, "done")
                /\ UNCHANGED <<family, practised, went>>

\* update, with a move to another topic: the piece keeps its place there.
EditRow(r) ==
    LET call == hand[r].call
        row  == rowOf(call.row)
        moved == ~isTopic(call.row) /\ call.topic # None
        to   == IF call.at = None THEN row ELSE [row EXCEPT !.at = call.at]
    IN  /\ writing(r, {"edit"})
        /\ IF row = None \/ (moved /\ topicRow[call.topic] = None) THEN fails(r)
           ELSE /\ WriteRow(call.row, IF moved THEN [to EXCEPT !.topic = call.topic] ELSE to)
                /\ handPlaced' = handPlaced \cup IF moved \/ call.at # None THEN {call.row} ELSE {}
                /\ replies(r, "done")
                /\ UNCHANGED <<family, practised, went>>

\* setPublished: of one row, and of nothing under it.
Switch(r) ==
    LET call == hand[r].call
    IN  /\ writing(r, {"publish", "unpublish"})
        /\ IF rowOf(call.row) = None THEN fails(r)
           ELSE /\ WriteRow(call.row, [rowOf(call.row) EXCEPT !.on = call.op = "publish"])
                /\ replies(r, "done")
                /\ UNCHANGED <<family, practised, went, handPlaced>>

(* Mutant: the count is trusted, and what came since goes too.             *)
DropCascading(r) ==
    LET x == hand[r].call.row
    IN  /\ writing(r, {"remove"})
        /\ IF rowOf(x) = None THEN fails(r)
           ELSE /\ WriteRow(x, None)
                /\ went' = went \cup {x}
                /\ replies(r, "done")
                /\ UNCHANGED <<family, practised, handPlaced>>

(* Mutant: what the foreign key refuses is thrown as it is.                *)
DropRaw(r) ==
    LET x == hand[r].call.row
    IN  /\ writing(r, {"remove"})
        /\ IF rowOf(x) = None \/ holds(x) THEN fails(r)
           ELSE /\ WriteRow(x, None)
                /\ went' = went \cup {x}
                /\ replies(r, "done")
                /\ UNCHANGED <<family, practised, handPlaced>>

\* delete: P2003 is told as the count would have told it.
Drop(r) ==
    LET x == hand[r].call.row
    IN  /\ writing(r, {"remove"})
        /\ IF rowOf(x) = None THEN fails(r)
           ELSE IF holds(x) THEN replies(r, "refused") /\ rowsRest
           ELSE /\ WriteRow(x, None)
                /\ went' = went \cup {x}
                /\ replies(r, "done")
                /\ UNCHANGED <<family, practised, handPlaced>>

\* start: the attempt row, of an exercise that was visible a moment ago.
Practise(r) ==
    LET i == hand[r].call.row
    IN  /\ writing(r, {"practise"})
        /\ IF pieceRow[i] = None THEN fails(r)
           ELSE /\ practised' = practised \cup {i}
                /\ replies(r, "done")
                /\ UNCHANGED <<family, topicRow, pieceRow, went, handPlaced>>

TopicsNext ==
    \E r \in Hands :
        \/ \E call \in HandCalls : Reach(r, call)
        \/ Seek(r) \/ SeekTopic(r) \/ Place(r) \/ CountFirst(r)
        \/ CreateRow(r) \/ EditRow(r) \/ Switch(r) \/ Drop(r) \/ Practise(r)

TopicsSpec == TopicsInit /\ [][TopicsNext]_topicVars
-----------------------------------------------------------------------------
(* validateSegmentDocument and validateContentForPublish: what a recording *)
(* must be before it is shown.  A draft may be none of it.                 *)

(* Mutant: what a save has checked is not checked again.                   *)
saneAsSaved(segments) == TRUE

\* validateSegmentDocument
sane(segments) ==
    \A i \in DOMAIN segments : /\ segments[i].from >= 0
                               /\ segments[i].to > segments[i].from

\* validateMedia, of a file or of an embedded video
mediaSound(draft) ==
    IF draft.provider = "YOUTUBE"
    THEN draft.type = "VIDEO" /\ draft.url = "video" /\ draft.named /\ draft.linked
    ELSE draft.url \in {"file", "video"}

validateContentForPublish(draft) ==
    LET s == draft.segments
    IN  /\ draft.topicOn /\ draft.modes # {}
        /\ mediaSound(draft)
        /\ s # <<>> /\ sane(s)
        /\ \A i \in 2 .. Len(s) : s[i].from >= s[i - 1].to
        /\ draft.length # None => \A i \in DOMAIN s : s[i].to <= draft.length
        /\ "SHADOWING" \in draft.modes => \A i \in DOMAIN s : s[i].to - s[i].from <= MaxBreath

(* Of a recording that may be published no moment belongs to two           *)
(* sentences, and they come in the order they are heard: only neighbours   *)
(* are compared, and the end of each with its own start.                   *)
RecordingPlays(draft) ==
    validateContentForPublish(draft) =>
        \A i, j \in DOMAIN draft.segments :
            i < j => draft.segments[i].to <= draft.segments[j].from
-----------------------------------------------------------------------------
(* A card leads to as many pieces as it says, and at least to one; every   *)
(* piece a student may open stands behind a card; and the number on a chip *)
(* of findCatalog is the total of its filter: the catalogue's questions    *)
(* are asked of the topics and the others of the pieces.                   *)
CardsLead ==
    /\ \A s \in catalogueCards :
          /\ detailOf(s) # {} /\ detailOf(s) = recordingCards(s, Pieces)
          /\ chipCount(s) = Cardinality(recordingCards(s, Pieces))
    /\ recordingCards(None, Pieces) = UNION {detailOf(s) : s \in catalogueCards}

\* The places a student looks at who turns these pages.
Places(turned) == UNION {{<<n, k>> : k \in DOMAIN turned[n]} : n \in DOMAIN turned}

\* The pages that findCatalog announces hold the cards, each once, and no more.
PagesHold(cards, listed, limit) ==
    LET first  == findCatalog(cards, listed, 0, limit)
        turned == [n \in 1 .. first.totalPages + 1 |-> findCatalog(cards, listed, n, limit).data]
    IN  /\ first.data = turned[1] /\ turned[first.totalPages + 1] = <<>>
        /\ Cardinality(Places(turned)) = first.total
        /\ {turned[x[1]][x[2]] : x \in Places(turned)} = cards

(* A student who turns all the pages that findCatalog announces, under any *)
(* filter and in any order of the places, meets every recording it counted *)
(* exactly once, none of them a 404, and nothing beyond the last page.     *)
PagesCover(matching, limit) ==
    \A topic \in {None} \cup {pieceRow[i].topic : i \in recordingCards(None, matching)} :
        /\ \A listed \in cardOrders(recordingCards(topic, matching)) :
              PagesHold(recordingCards(topic, matching), listed, limit)
        /\ \A i \in recordingCards(topic, matching) : findOneVisible(i) # None

(* What was practised is never removed, and no piece loses its topic,      *)
(* however the counts of a removal fall between another's read and write.  *)
NothingOrphaned ==
    /\ \A i \in practised : pieceRow[i] # None
    /\ \A i \in Pieces : pieceRow[i] # None => topicRow[pieceRow[i].topic] # None

(* A request ends in a bare error only when a row it had found was removed *)
(* under it: a removal that comes too late is refused in words.            *)
RefusedInWords ==
    \A r \in Hands : hand[r].pc = "failed" => {hand[r].call.row, hand[r].call.topic} \cap went # {}

(* Two rows share a place only if one of them was put there, or read the   *)
(* last place before somebody else took it.                                *)
PlacesDiffer ==
    /\ \A s, t \in Topics : s # t /\ topicRow[s] # None /\ topicRow[t] # None
           /\ topicRow[s].at = topicRow[t].at => {s, t} \cap handPlaced # {}
    /\ \A i, j \in Pieces : i # j /\ pieceRow[i] # None /\ pieceRow[j] # None
           /\ pieceRow[i].topic = pieceRow[j].topic /\ pieceRow[i].at = pieceRow[j].at
               => {i, j} \cap handPlaced # {}

TopicsSound == CardsLead /\ NothingOrphaned /\ RefusedInWords /\ PlacesDiffer
=============================================================================
