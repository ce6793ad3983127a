----------------------------- MODULE ReviewQueue -----------------------------
(***************************************************************************)
(* What LearningService hands out to review and what it reports of a       *)
(* student's progress: the due queue with its daily quota of new words,    *)
(* the summaries of a deck, of a library and of all of them, and the day   *)
(* they all count in (timezone.util.ts).  The words and their cards change *)
(* elsewhere (VocabDecks, WordReview); here every small arrangement of     *)
(* them is a place to ask from, while the clock runs and the student's     *)
(* zone is set.                                                            *)
(***************************************************************************)
EXTENDS Absent, Integers, FiniteSets, Sequences, Functions

CONSTANTS
    Cards,        \* arrangements: each a function from its words to a card or None
    Shelves,      \* the VocabDeckWord rows [word, deck], in the order they are read
    LibraryOf,    \* the library of each deck that is shown
    Offsets,      \* UTC offset of each zone at every instant
    DayLength,
    Queries,      \* [deck, library, limit, includeNew, newLimit, tz]
    NewLimit,     \* DEFAULT_NEW_LIMIT
    QueueLimit,   \* DEFAULT_QUEUE_LIMIT
    ScanMultiplier,
    Noon          \* the instant a scene starts at, and the last one

\* A UserWordProgress row; one that is there was rated, and is not NEW any more.
QueueCard == [state : {"LEARNING", "RELEARNING", "REVIEW", "MASTERED"}, due : Int, created : Int]

ASSUME ReviewQueueAssumption ==
    /\ DayLength \in Nat \ {0} /\ NewLimit \in Nat /\ QueueLimit \in Nat
    /\ ScanMultiplier \in Nat \ {0} /\ "UTC" \in DOMAIN Offsets /\ Noon.from \in Int
    /\ None \notin DOMAIN LibraryOf
    /\ \A c \in Cards : /\ IsFiniteSet(DOMAIN c) /\ DOMAIN c \subseteq Nat
                        /\ \A w \in DOMAIN c : c[w] \in QueueCard \cup {None}
    /\ \A s \in Shelves : /\ s \in Seq(Range(s))
                          /\ \A c \in Cards, i \in DOMAIN s : s[i].word \in DOMAIN c
    /\ \A q \in Queries : q.limit \in Nat /\ q.newLimit \in Nat /\ q.includeNew \in BOOLEAN

VARIABLES
    onShelf,    \* one of Shelves
    cards,      \* UserWordProgress: [state, due, created]
    hour,
    storedZone  \* User.timezone

queueVars == <<onShelf, cards, hour, storedZone>>

QueueInit ==
    /\ onShelf \in Shelves /\ cards \in Cards /\ hour = Noon.from /\ storedZone = None

Vocabulary == DOMAIN cards
Decks0 == DOMAIN LibraryOf
-----------------------------------------------------------------------------
(* The day                                                                 *)

wallClock(instant, offset) == instant + offset[instant]
dayOf(instant, offset) == wallClock(instant, offset) \div DayLength

(* Solved with the offset of the instant, and again with the offset at the *)
(* midnight so found when the clocks changed in between.                   *)
startOfDayInTimeZone(instant, offset) ==
    LET midnight  == dayOf(instant, offset) * DayLength
        candidate == midnight - offset[instant]
    IN  IF offset[candidate] = offset[instant] THEN candidate
        ELSE midnight - offset[candidate]

startOfToday(zone) == startOfDayInTimeZone(hour, Offsets[zone])
introducedSince(instant) == {w \in Vocabulary : cards[w] # None /\ cards[w].created >= instant}
-----------------------------------------------------------------------------
(* The words in sight                                                      *)

\* The members of S by rank: those that `before` puts first come first.
Ranked(S, before) ==
    [k \in 1 .. Cardinality(S) |-> CHOOSE x \in S : Cardinality({y \in S : <<y, x>> \in before}) = k - 1]

First(seq, n) == SubSeq(seq, 1, IF n < Len(seq) THEN n ELSE Len(seq))

\* What stands at these places of a list, in the order it stands there.
Chosen(seq, places) ==
    LET nth == Ranked(places, {x \in places \X places : x[1] < x[2]})
    IN  [k \in DOMAIN nth |-> seq[nth[k]]]

\* A deck that is shown, and asked for by its id, its library or not by either
inSight(d, deck, library) == d \in Decks0 /\ deck \in {None, d} /\ library \in {None, LibraryOf[d]}

pairsOf(deck, library) ==
    Chosen(onShelf, {i \in DOMAIN onShelf : inSight(onShelf[i].deck, deck, library)})

wordsIn(pairs) == {pairs[i].word : i \in DOMAIN pairs}

\* The places where a word is seen for the first time
firstSeen(pairs) == {i \in DOMAIN pairs : \A j \in 1 .. i - 1 : pairs[j].word # pairs[i].word}

\* getVisibleWordIdsWithDeck: the first deck a word is seen in stands for it.
visibleWords(deck, library) == Chosen(pairsOf(deck, library), firstSeen(pairsOf(deck, library)))

\* An item's deck, the round it is dealt in and where that deck turned up.
deckMates(items, i) == {j \in DOMAIN items : items[j].deck = items[i].deck}
roundOf(items, i)   == Cardinality({j \in deckMates(items, i) : j < i})
turnedUp(items, i)   == CHOOSE j \in deckMates(items, i) : \A k \in deckMates(items, i) : j <= k

\* The n-th item of every deck before the (n+1)-th of any; decks in the order
\* in which they turn up.
dealtBefore(items) ==
    LET places == DOMAIN items
    IN  {x \in places \X places :
           \/ roundOf(items, x[1]) < roundOf(items, x[2])
           \/ /\ roundOf(items, x[1]) = roundOf(items, x[2])
              /\ turnedUp(items, x[1]) < turnedUp(items, x[2])}

interleaveByDeck(items, limit) ==
    LET order == Ranked(DOMAIN items, dealtBefore(items))
    IN  First([k \in DOMAIN items |-> items[order[k]]], limit)
-----------------------------------------------------------------------------
(* getDueReviews                                                           *)

isDue(w) == cards[w] # None /\ cards[w].due <= hour
scoped(q) == q.deck # None \/ q.library # None

\* Overdue first; of rows due at the same instant either may come first.
overdue(rows) ==
    {x \in rows \X rows :
        \/ cards[x[1].word].due < cards[x[2].word].due
        \/ cards[x[1].word].due = cards[x[2].word].due /\ x[1].word < x[2].word}

dueSeen(q) == {v \in Range(visibleWords(q.deck, q.library)) : isDue(v.word)}
dueScan(q) ==
    First(Ranked(dueSeen(q), overdue(dueSeen(q))),
          IF scoped(q) THEN q.limit ELSE q.limit * ScanMultiplier)

dealt(q, rows, n) == IF scoped(q) THEN First(rows, n) ELSE interleaveByDeck(rows, n)
dueRows(q) == dealt(q, dueScan(q), q.limit)

neverRated(q) ==
    LET seen == visibleWords(q.deck, q.library)
    IN  Chosen(seen, {i \in DOMAIN seen : cards[seen[i].word] = None})

newSlots(q, left, introduced) ==
    LET quota == q.newLimit - introduced
    IN  IF ~q.includeNew \/ quota < 0 THEN 0 ELSE IF quota < left THEN quota ELSE left

newRows(q, zone) ==
    LET slots == newSlots(q, q.limit - Len(dueRows(q)),
                          Cardinality(introducedSince(startOfToday(zone))))
        rows  == Range(dealt(q, neverRated(q), slots))
    IN  Ranked(rows, {x \in rows \X rows : x[1].word < x[2].word})

zoneAfter(q) == IF storedZone = None /\ q.tz # None THEN q.tz ELSE storedZone
orUTC(zone) == IF zone = None THEN "UTC" ELSE zone

queueOf(q) == [due |-> dueRows(q), new |-> newRows(q, orUTC(zoneAfter(q)))]

\* The first zone a request names is kept; a later one is not.
GetDueReviews(q) == storedZone' = zoneAfter(q) /\ UNCHANGED <<onShelf, cards, hour>>

Tick == hour < Noon.until /\ hour' = hour + 1 /\ UNCHANGED <<onShelf, cards, storedZone>>

QueueNext == Tick \/ \E q \in Queries : GetDueReviews(q)

QueueSpec == QueueInit /\ [][QueueNext]_queueVars
-----------------------------------------------------------------------------
(* The summaries                                                           *)

(* summarizeProgressRows, over the words `of`. *)
summarizeProgressRows(of) ==
    LET total == Cardinality(of)
        rows == {w \in of : cards[w] # None}
        in(states) == Cardinality({w \in rows : cards[w].state \in states})
        percent(n) == IF total = 0 THEN 0 ELSE (n * 100) \div total
    IN  [totalWords |-> total, newWords |-> total - Cardinality(rows),
         learningWords |-> in({"LEARNING", "RELEARNING"}), reviewWords |-> in({"REVIEW"}),
         masteredWords |-> in({"MASTERED"}),
         dueWords |-> Cardinality({w \in rows : isDue(w)}),
         startedPercent |-> percent(Cardinality(rows)),
         masteredPercent |-> percent(in({"MASTERED"}))]

getDeckProgress(d) == summarizeProgressRows(wordsIn(visibleWords(d, None)))

\* The decks of a library that hold a word, each with all its words.
decksOf(l) ==
    LET pairs == pairsOf(None, l)
    IN  [d \in {pairs[i].deck : i \in DOMAIN pairs} |->
           summarizeProgressRows({pairs[i].word : i \in {j \in DOMAIN pairs : pairs[j].deck = d}})]

getLibraryProgress(l) ==
    [summary |-> summarizeProgressRows(wordsIn(pairsOf(None, l))), decks |-> decksOf(l)]

\* The zone of the request goes before the stored one.
introducedToday(tz) ==
    introducedSince(startOfToday(IF tz # None THEN tz ELSE orUTC(storedZone)))

getLibrariesProgress(tz) ==
    LET introduced == Cardinality(introducedToday(tz))
        left  == IF introduced < NewLimit THEN NewLimit - introduced ELSE 0
        never == Cardinality({w \in wordsIn(pairsOf(None, None)) : cards[w] = None})
    IN  [data |-> [l \in {LibraryOf[d] : d \in Decks0} |->
                     [deckCount |-> Cardinality({d \in Decks0 : LibraryOf[d] = l}),
                      summary |-> summarizeProgressRows(wordsIn(pairsOf(None, l)))]],
         introducedToday |-> introduced,
         availableNow |-> IF left < never THEN left ELSE never]

\* getWordProgress, for a word in sight.
getWordProgress(w) == IF w \in wordsIn(pairsOf(None, None)) THEN [card |-> cards[w]] ELSE None
-----------------------------------------------------------------------------
listed(rows) == {rows[i].word : i \in DOMAIN rows}
handed(queue) == listed(queue.due) \cup listed(queue.new)
CountOf(rows, d) == Cardinality({i \in DOMAIN rows : rows[i].deck = d})

(* A queue is never longer than asked for and names no word twice; what is *)
(* due comes in the order it fell due, deck by deck when several decks mix; *)
(* no deck is passed over while another is served twice.  A student who     *)
(* has rated his quota of words today is handed no new one.                *)
QueueFair(q, queue) ==
    LET due == queue.due
    IN  /\ Len(due) + Len(queue.new) <= q.limit
        /\ Cardinality(handed(queue)) = Len(due) + Len(queue.new)
        /\ \A w \in listed(due) : isDue(w)
        /\ \A w \in listed(queue.new) : cards[w] = None
        /\ \A i, j \in DOMAIN due :
              i < j /\ (scoped(q) \/ due[i].deck = due[j].deck)
                 => cards[due[i].word].due <= cards[due[j].word].due
        /\ ~scoped(q) => \A d, e \in Decks0 :
              CountOf(due, d) < CountOf(dueScan(q), d) => CountOf(due, e) <= CountOf(due, d) + 1
        /\ Len(queue.new) > 0 =>
              Len(queue.new) + Cardinality(introducedSince(startOfToday(orUTC(zoneAfter(q)))))
                 <= q.newLimit

smallest(m, n) == IF m < n THEN m ELSE n

(* What the pages announce is what a session hands out, as far as the queue *)
(* is long: the due words of a deck, and the new words for today, unless   *)
(* the page counts in another zone.                                        *)
AnnouncedIsHanded ==
    /\ \A d \in Decks0 :
          LET q == [deck |-> d, library |-> None, limit |-> QueueLimit, includeNew |-> FALSE,
                    newLimit |-> NewLimit, tz |-> None]
              due == queueOf(q).due
          IN  /\ listed(due) \subseteq {w \in wordsIn(pairsOf(d, None)) : isDue(w)}
              /\ Len(due) = smallest(getDeckProgress(d).dueWords, QueueLimit)
    /\ LET q == [deck |-> None, library |-> None, limit |-> QueueLimit, includeNew |-> TRUE,
                 newLimit |-> NewLimit, tz |-> None]
           queue == queueOf(q)
       IN  \A tz \in DOMAIN Offsets \cup {None} :
             (IF tz = None THEN orUTC(storedZone) ELSE tz) = orUTC(storedZone) =>
                Len(queue.new) = smallest(getLibrariesProgress(tz).availableNow,
                                          QueueLimit - Len(queue.due))

(* The summaries agree: every word is counted once in its library and once *)
(* in each of its decks, as new or in one of the three states; a word in   *)
(* sight has the card the queue would show, and the card of a library says *)
(* what its page says.                                                     *)
SummariesAgree ==
    /\ \A l \in {LibraryOf[d] : d \in Decks0} :
          LET page == getLibraryProgress(l)
              sum  == page.summary
          IN  /\ sum.newWords + sum.learningWords + sum.reviewWords + sum.masteredWords
                    = sum.totalWords
              /\ sum.masteredPercent <= sum.startedPercent /\ sum.startedPercent \in 0 .. 100
              /\ sum.dueWords <= sum.totalWords - sum.newWords
              /\ getLibrariesProgress(None).data[l].summary = sum
              /\ \A d \in DOMAIN page.decks : page.decks[d] = getDeckProgress(d)
              /\ \A d \in Decks0 : LibraryOf[d] = l /\ getDeckProgress(d).totalWords > 0
                                     => d \in DOMAIN page.decks
    /\ \A q \in Queries : \A w \in handed(queueOf(q)) :
          getWordProgress(w) = [card |-> cards[w]]

QueueSound == /\ \A q \in Queries : QueueFair(q, queueOf(q))
              /\ AnnouncedIsHanded /\ SummariesAgree

(* The start of a day is the first instant of that day, also when the      *)
(* clocks change on it and midnight is skipped.  Only where the clocks go  *)
(* back over midnight, so that it strikes twice, the second one is taken.  *)
DayStartsOnce(offset, instant) ==
    LET start == startOfDayInTimeZone(instant, offset)
        day   == dayOf(instant, offset)
        midnights == {i \in DOMAIN offset : wallClock(i, offset) = day * DayLength}
    IN  /\ start <= instant /\ dayOf(start, offset) = day
        /\ Cardinality(midnights) <= 1 =>
              \A i \in DOMAIN offset : i < start => dayOf(i, offset) # day
=============================================================================
