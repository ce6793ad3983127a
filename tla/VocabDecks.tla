----------------------------- MODULE VocabDecks -----------------------------
(***************************************************************************)
(* Editors and one student at the vocabulary library: VocabDeckService,    *)
(* VocabWordService and VocabLibraryService over one library, its decks    *)
(* and the word bank.  No handler but the CSV import opens a transaction,  *)
(* and that one decides on what it read before it: every guard (a cap, a   *)
(* last word, a next position) is read, and acted on later.  The reads     *)
(* that find the rows of a call are one step, and each count or maximum    *)
(* one of its own.                                                         *)
(***************************************************************************)
EXTENDS Absent, Naturals, FiniteSets, Sequences

CONSTANTS
    Decks, Words,
    DeskCalls,          \* the calls editors and the student make
    DeckRequests,
    MaxDeckSize,        \* MAX_DECK_WORDS
    FreeDecks,          \* how many decks of a premium library are free (2)
    FirstDecks, FirstWords      \* the rows a scene starts from

DeckType == [on : BOOLEAN, words : SUBSET [word : Words, at : Nat], at : Nat]
FirstShelf == {d \in Decks : FirstDecks[d] # None}

ASSUME DeckAssumption ==
    /\ MaxDeckSize \in Nat /\ FreeDecks \in Nat
    /\ IsFiniteSet(Decks) /\ None \notin DeckType
    /\ \A call \in DeskCalls :
          /\ call.op \in {"attach", "detach", "publish", "unpublish", "removeDeck", "learn", "forget"} =>
                call.deck \in Decks
          /\ call.op \in {"detach", "learn", "removeWord"} => call.word \in Words
          /\ call.op = "attach" => call.words \subseteq Words /\ IsFiniteSet(call.words)
    /\ FirstDecks \in [Decks -> DeckType \cup {None}]
    /\ FirstWords = [w \in Words |-> FirstWords[w]]
    /\ \A d \in FirstShelf :
          /\ IsFiniteSet(FirstDecks[d].words) /\ Cardinality(FirstDecks[d].words) <= MaxDeckSize
          /\ FirstDecks[d].on => FirstDecks[d].words # {}
          /\ \A a \in FirstDecks[d].words : FirstWords[a.word] # None
          /\ \A a, b \in FirstDecks[d].words : a.at = b.at \/ a.word = b.word => a = b
    /\ \A v, w \in Words : v # w /\ FirstWords[v] # None => FirstWords[v] # FirstWords[w]

VARIABLES
    libraryOn,  \* VocabLibrary.isPublished
    deckRow,    \* VocabDeck rows with their VocabDeckWord rows
    wordRow,    \* VocabWord rows
    learned,    \* VocabGuessProgress of the student: <<deck, word>>
    studied,    \* words with a UserWordProgress row
    premium,    \* the student has a live subscription
    desk,       \* the requests
    outdated,   \* history: requests whose deck was written since they looked at it
    drifted,    \* history: decks such a request has written
    unmatched   \* history: words whose text was not compared with today's bank

deckVars == <<libraryOn, deckRow, wordRow, learned, studied, premium, desk, outdated, drifted, unmatched>>

NewRequest == [pc |-> "new", call |-> [op |-> "none"], seen |-> None, at |-> 0, texts |-> {}]

DecksInit ==
    /\ libraryOn = TRUE
    /\ deckRow = FirstDecks
    /\ wordRow = FirstWords
    /\ learned = {} /\ studied = {} /\ premium = FALSE
    /\ desk = [r \in DeckRequests |-> NewRequest]
    /\ outdated = {} /\ drifted = {} /\ unmatched = {}
-----------------------------------------------------------------------------
deckThere(d) == deckRow[d] # None
attachedWords(d) == {a.word : a \in deckRow[d].words}
exists(w) == wordRow[w] # None

(* Mutant: the next position is the number of rows.                        *)
nextByCount(rows) == Cardinality(rows)

\* (orderIndex of the last row, -1 for none) + 1
nextIndex(rows) == IF rows = {} THEN 0 ELSE 1 + CHOOSE n \in {x.at : x \in rows} :
                                                  \A x \in rows : x.at <= n

rowsOfDecks == {deckRow[d] : d \in {e \in Decks : deckThere(e)}}

\* isPremiumVocabularyDeck: all but the first published decks, in the order
\* of orderIndex; the database is free to order equals as it likes.
firstPublished(chosen) ==
    LET on == {d \in Decks : deckThere(d) /\ deckRow[d].on}
    IN  /\ chosen \subseteq on
        /\ Cardinality(chosen) = IF Cardinality(on) < FreeDecks THEN Cardinality(on) ELSE FreeDecks
        /\ \A d \in chosen, e \in on \ chosen : deckRow[d].at <= deckRow[e].at

\* assertDeckAccessibleToUser
accessible(d) ==
    /\ deckThere(d) /\ deckRow[d].on /\ libraryOn
    /\ premium \/ \E chosen \in SUBSET Decks : firstPublished(chosen) /\ d \in chosen
-----------------------------------------------------------------------------
(* A request: what it does next, and how it ends                           *)

calling(r, op, pc) == desk[r].pc = pc /\ desk[r].call.op = op
goes(r, pc) == desk' = [desk EXCEPT ![r].pc = pc]
ends(r, reply) == desk' = [desk EXCEPT ![r] = [NewRequest EXCEPT !.pc = reply]]

rowsKept == UNCHANGED <<libraryOn, deckRow, wordRow, learned, studied, premium, outdated, drifted, unmatched>>

\* A guard looked at the deck as it was: its later write is on its strength.
looksAt(r, d, pc) == desk' = [desk EXCEPT ![r].pc = pc, ![r].seen = deckRow[d]]

changesDeck(r, d, row) ==
    /\ deckRow' = [deckRow EXCEPT ![d] = row]
    /\ outdated' = outdated \cup {x \in DeckRequests \ {r} : desk[x].seen # None /\ desk[x].call.deck = d}

writesDeck(r, d, row) ==
    /\ changesDeck(r, d, row)
    /\ drifted' = IF r \in outdated THEN drifted \cup {d} ELSE drifted

Call(r, call) ==
    /\ desk[r].pc = "new"
    /\ desk' = [desk EXCEPT ![r] = [@ EXCEPT !.pc = "find", !.call = call]]
    /\ rowsKept

\* findOneOrThrow, and attachWords' and detachWord's reading of the rows.
Find(r) ==
    LET call == desk[r].call
        refused == \/ call.op \in {"attach", "detach", "publish", "unpublish", "removeDeck"}
                         /\ ~deckThere(call.deck)
                   \/ call.op = "attach" /\ \E w \in call.words : ~exists(w)
                   \/ call.op = "detach" /\ call.word \notin attachedWords(call.deck)
                   \/ call.op = "removeDeck" /\ deckRow[call.deck].on
                   \/ call.op = "removeWord" /\ ~exists(call.word)
                   \/ call.op \in {"learn", "forget"} /\ ~accessible(call.deck)
                   \/ call.op = "learn" /\ call.word \notin attachedWords(call.deck)
    IN  /\ desk[r].pc = "find"
        /\ IF refused THEN ends(r, "refused")
           ELSE CASE call.op = "attach" ->
                        IF call.words \subseteq attachedWords(call.deck) THEN ends(r, "done")
                        ELSE looksAt(r, call.deck, "count")
                  [] call.op = "detach" ->
                        IF deckRow[call.deck].on THEN looksAt(r, call.deck, "count")
                        ELSE looksAt(r, call.deck, "write")
                  [] call.op \in {"publish", "removeWord"} -> goes(r, "count")
                  [] call.op = "create" -> goes(r, "position")
                  [] OTHER -> goes(r, "write")
        /\ rowsKept

\* the words of the call the deck does not hold, when it was looked at
toAttach(r) == desk[r].call.words \ {a.word : a \in desk[r].seen.words}

\* count: rows that went with their deck are none.
rowsNow(d) == IF deckThere(d) THEN deckRow[d].words ELSE {}

Count(r) ==
    LET call == desk[r].call
        size == Cardinality(rowsNow(call.deck))
    IN  /\ desk[r].pc = "count" /\ call.op \in {"attach", "detach", "publish"}
        /\ IF \/ call.op = "attach" /\ size + Cardinality(toAttach(r)) > MaxDeckSize
              \/ call.op = "detach" /\ size <= 1
              \/ call.op = "publish" /\ size = 0
           THEN ends(r, "refused")
           ELSE IF call.op = "publish"
           THEN looksAt(r, call.deck, "write")
           ELSE goes(r, IF call.op = "attach" THEN "position" ELSE "write")
        /\ rowsKept

\* aggregate _max: the next position in the deck, or in the library
Position(r) ==
    LET call == desk[r].call
    IN  /\ desk[r].pc = "position"
        /\ desk' = [desk EXCEPT ![r].pc = "write",
                                ![r].at = nextIndex(IF call.op = "attach" THEN rowsNow(call.deck)
                                                    ELSE rowsOfDecks)]
        /\ rowsKept
-----------------------------------------------------------------------------
(* The writes                                                              *)

\* createMany: positions go up in the order given, pairs that are there are
\* skipped; a deck or a word that has gone fails the statement.
Attach(r) ==
    /\ calling(r, "attach", "write")
    /\ LET d == desk[r].call.deck
           new == toAttach(r)
       IN  IF deckThere(d) /\ \A w \in new : exists(w)
           THEN \E order \in {f \in [new -> 0 .. Cardinality(new) - 1] :
                                 \A v, w \in new : f[v] = f[w] => v = w} :
                  /\ writesDeck(r, d, [deckRow[d] EXCEPT !.words =
                        @ \cup {[word |-> w, at |-> desk[r].at + order[w]] :
                                   w \in new \ attachedWords(d)}])
                  /\ ends(r, "done")
           ELSE ends(r, "failed") /\ UNCHANGED <<deckRow, outdated, drifted>>
    /\ UNCHANGED <<libraryOn, wordRow, learned, studied, premium, unmatched>>

Detach(r) ==
    /\ calling(r, "detach", "write")
    /\ LET d == desk[r].call.deck
           w == desk[r].call.word
       IN  IF deckThere(d) /\ w \in attachedWords(d)
           THEN /\ writesDeck(r, d, [deckRow[d] EXCEPT !.words = {a \in @ : a.word # w}])
                /\ ends(r, "done")
           ELSE ends(r, "failed") /\ UNCHANGED <<deckRow, outdated, drifted>>
    /\ UNCHANGED <<libraryOn, wordRow, learned, studied, premium, unmatched>>

\* publish and unpublish
SetPublished(r) ==
    /\ calling(r, "publish", "write") \/ calling(r, "unpublish", "write")
    /\ LET d == desk[r].call.deck
       IN  IF deckThere(d)
           THEN /\ writesDeck(r, d, [deckRow[d] EXCEPT !.on = desk[r].call.op = "publish"])
                /\ ends(r, "done")
           ELSE ends(r, "failed") /\ UNCHANGED <<deckRow, outdated, drifted>>
    /\ UNCHANGED <<libraryOn, wordRow, learned, studied, premium, unmatched>>

\* create: a draft at the end of the library
CreateDeck(r) ==
    /\ calling(r, "create", "write")
    /\ \E d \in Decks :
         /\ ~deckThere(d)
         /\ changesDeck(r, d, [on |-> FALSE, words |-> {}, at |-> desk[r].at])
    /\ ends(r, "done")
    /\ UNCHANGED <<libraryOn, wordRow, learned, studied, premium, drifted, unmatched>>

\* remove: the deck's words go with it, a student's progress forbids it.
RemoveDeck(r) ==
    /\ calling(r, "removeDeck", "write")
    /\ LET d == desk[r].call.deck
       IN  IF deckThere(d) /\ ~\E pair \in learned : pair[1] = d
           THEN changesDeck(r, d, None) /\ ends(r, "done")
           ELSE ends(r, "failed") /\ UNCHANGED <<deckRow, outdated>>
    /\ UNCHANGED <<libraryOn, wordRow, learned, studied, premium, drifted, unmatched>>

\* VocabWordService.remove: two counts, then a delete the foreign keys guard.
CountUses(r) ==
    /\ calling(r, "removeWord", "count")
    /\ IF (\E d \in Decks : deckThere(d) /\ desk[r].call.word \in attachedWords(d))
          \/ desk[r].call.word \in studied
       THEN ends(r, "refused") ELSE goes(r, "write")
    /\ rowsKept

RemoveWord(r) ==
    /\ calling(r, "removeWord", "write")
    /\ LET w == desk[r].call.word
           inUse == \/ \E d \in Decks : deckThere(d) /\ w \in attachedWords(d)
                    \/ w \in studied \/ \E pair \in learned : pair[2] = w
       IN  IF exists(w) /\ ~inUse
           THEN wordRow' = [wordRow EXCEPT ![w] = None] /\ ends(r, "done")
           ELSE ends(r, "refused") /\ UNCHANGED wordRow
    /\ unmatched' = unmatched \ {w \in Words : wordRow'[w] = None}
    /\ UNCHANGED <<libraryOn, deckRow, learned, studied, premium, outdated, drifted>>

\* markWordLearned: the first correct answer stays.
MarkLearned(r) ==
    /\ calling(r, "learn", "write")
    /\ LET call == desk[r].call
       IN  IF deckThere(call.deck) /\ exists(call.word)
           THEN learned' = learned \cup {<<call.deck, call.word>>} /\ ends(r, "done")
           ELSE ends(r, "failed") /\ UNCHANGED learned
    /\ UNCHANGED <<libraryOn, deckRow, wordRow, studied, premium, outdated, drifted, unmatched>>

\* resetGuessProgress
ResetProgress(r) ==
    /\ calling(r, "forget", "write")
    /\ learned' = {pair \in learned : pair[1] # desk[r].call.deck}
    /\ ends(r, "done")
    /\ UNCHANGED <<libraryOn, deckRow, wordRow, studied, premium, outdated, drifted, unmatched>>
-----------------------------------------------------------------------------
(* The word bank                                                           *)

bankTexts == {wordRow[w] : w \in Words} \ {None}

\* VocabWordService.create does not look for the text.
CreateWordRow(r) ==
    /\ calling(r, "createWord", "write")
    /\ \E w \in Words :
         /\ ~exists(w)
         /\ wordRow' = [wordRow EXCEPT ![w] = desk[r].call.text]
         /\ unmatched' = unmatched \cup {w}
    /\ ends(r, "done")
    /\ UNCHANGED <<libraryOn, deckRow, learned, studied, premium, outdated, drifted>>

\* importFromCsv: one bad row and nothing is imported; rows the bank has, and
\* later rows of a text, are skipped.  The bank is read before the transaction.
ReadBank(r) ==
    /\ calling(r, "csv", "write") /\ desk[r].texts = {}
    /\ IF ~desk[r].call.valid THEN ends(r, "refused")
       ELSE IF desk[r].call.texts \subseteq bankTexts THEN ends(r, "done")
       ELSE desk' = [desk EXCEPT ![r].texts = desk[r].call.texts \ bankTexts]
    /\ rowsKept

ImportCsv(r) ==
    /\ calling(r, "csv", "write") /\ desk[r].texts # {}
    /\ \E new \in {f \in [desk[r].texts -> {w \in Words : ~exists(w)}] :
                      \A t, u \in desk[r].texts : f[t] = f[u] => t = u} :
         LET rowOf(w) == CHOOSE t \in desk[r].texts : new[t] = w
             made == {new[t] : t \in desk[r].texts}
         IN  /\ wordRow' = [w \in Words |-> IF w \in made THEN rowOf(w) ELSE wordRow[w]]
             /\ unmatched' = unmatched \cup {w \in made : rowOf(w) \in bankTexts}
    /\ ends(r, "done")
    /\ UNCHANGED <<libraryOn, deckRow, learned, studied, premium, outdated, drifted>>
-----------------------------------------------------------------------------
(* What else happens                                                       *)

\* VocabLibraryService.publish and unpublish; a subscription comes and goes.
TurnLibrary ==
    /\ libraryOn' = ~libraryOn
    /\ UNCHANGED <<deckRow, wordRow, learned, studied, premium, desk, outdated, drifted, unmatched>>

TurnPremium ==
    /\ premium' = ~premium
    /\ UNCHANGED <<libraryOn, deckRow, wordRow, learned, studied, desk, outdated, drifted, unmatched>>

\* LearningService.submitReview of a word that a published deck shows.
Study(w) ==
    /\ libraryOn /\ \E d \in Decks : deckThere(d) /\ deckRow[d].on /\ w \in attachedWords(d)
    /\ w \notin studied /\ studied' = studied \cup {w}
    /\ UNCHANGED <<libraryOn, deckRow, wordRow, learned, premium, desk, outdated, drifted, unmatched>>

DecksNext ==
    \/ \E r \in DeckRequests :
         \/ \E call \in DeskCalls : Call(r, call)
         \/ Find(r) \/ Count(r) \/ Position(r) \/ CountUses(r)
         \/ Attach(r) \/ Detach(r) \/ SetPublished(r) \/ CreateDeck(r) \/ RemoveDeck(r)
         \/ RemoveWord(r) \/ CreateWordRow(r) \/ ReadBank(r) \/ ImportCsv(r)
         \/ MarkLearned(r) \/ ResetProgress(r)
    \/ \E w \in Words : Study(w)
    \/ TurnLibrary \/ TurnPremium

DecksSpec == DecksInit /\ [][DecksNext]_deckVars
-----------------------------------------------------------------------------
(* Properties                                                              *)

(* The guards of publish, detachWord and attachWords hold together: unless *)
(* a write was decided on a deck that had changed since, no deck is        *)
(* published empty, exceeds its cap or has two words in one place.         *)
DeckGuards ==
    \A d \in Decks :
        deckThere(d) /\ d \notin drifted =>
            /\ deckRow[d].on => deckRow[d].words # {}
            /\ Cardinality(deckRow[d].words) <= MaxDeckSize
            /\ \A a, b \in deckRow[d].words : a.at = b.at => a = b

(* Two words of the bank share a text only if one of them was added by     *)
(* hand or imported while the other was on its way.                        *)
BankTextsDistinct ==
    \A v, w \in Words : v # w /\ exists(v) /\ wordRow[v] = wordRow[w] => {v, w} \cap unmatched # {}

(* What a student learned or studied still has its deck and its word.      *)
ProgressKept ==
    /\ \A pair \in learned : deckThere(pair[1]) /\ exists(pair[2])
    /\ \A w \in studied : exists(w)

VocabularySound == DeckGuards /\ BankTextsDistinct /\ ProgressKept
=============================================================================
