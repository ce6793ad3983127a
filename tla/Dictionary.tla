----------------------------- MODULE Dictionary -----------------------------
(***************************************************************************)
(* GET /dictionary/lookup (DictionaryService): the curated words first,    *)
(* then the Redis cache, then the dictionary of freedictionaryapi.com and, *)
(* for its first definition, a translation by Gemini.  A word stands for   *)
(* every spelling of it (trimmed, lower case).  An answer is reduced to    *)
(* where it comes from and whether it carries a Vietnamese line.  What a   *)
(* student looks up stands beside the words of the library and those he    *)
(* saved: WordsSpec puts the three services together.                      *)
(***************************************************************************)
EXTENDS VocabDecks, PersonalWords, SequencesExt

CONSTANTS
    Terms, Lookups,
    MaxPerWindow,   \* of the rate limit
    AiQuota,        \* the monthly quota of the "aiQuery" kind
    MaxDesk,        \* bound: changes of the curated words, windows and expiries
    MAX_MEANINGS, MAX_SYNONYMS

\* what is cached of an answer, and the lookup that stored it
CachedType == [vi : {None, "translation"}, by : Lookups]

ASSUME DictionaryAssumption ==
    /\ None \notin CachedType
    /\ {MaxPerWindow, AiQuota, MaxDesk} \subseteq Nat
    /\ {MAX_MEANINGS, MAX_SYNONYMS} \subseteq Nat \ {0}

VARIABLES
    vocabWords, \* the words that have a VocabWord row
    redis,      \* the cached entry of a word: [vi, by], or None
    perWindow,  \* lookups counted in this window of the rate limit
    spent,      \* of the monthly quota
    lookup,     \* the requests
    turns,      \* how often the environment has moved
    settled,    \* history: words answered and stored, until they expire
    translated  \* history: among them, stored with a translation

dictionaryVars == <<vocabWords, redis, perWindow, spent, lookup, turns, settled, translated>>

NewLookup == [pc |-> "new", word |-> None, vi |-> None, deaf |-> FALSE, after |-> {}]

DictionaryInit ==
    /\ vocabWords = {} /\ redis = [w \in Terms |-> None]
    /\ perWindow = 0 /\ spent = 0 /\ turns = 0
    /\ lookup = [r \in Lookups |-> NewLookup]
    /\ settled = {} /\ translated = {}
-----------------------------------------------------------------------------
(* The replies of the two services                                         *)

SourceReplies == {"aborted", "failed", "status", "no json", "no entries", "undefined", "defined"}

\* FreeDictionaryApiProvider.lookup: 200 with no entries means there is no such word.
sourceOf(reply) ==
    CASE reply \in {"aborted", "failed", "status", "no json"} -> "unavailable"
      [] reply = "no entries"                                 -> "missing"
      [] OTHER                                                -> "found"

TranslatorReplies == {"no key", "timeout", "status", "no json", "blocked", "empty",
                      "unparseable", "no translation", "translation"}

(* Mutant: whatever comes back with status 200 is shown. *)
translateUnchecked(reply) ==
    IF reply \in {"no key", "timeout", "status", "no json"} THEN None ELSE reply

\* GeminiViTranslationProvider.translate: anything but a translation is none.
translate(reply) == IF reply = "translation" THEN reply ELSE None

(* What is taken from the entries of the dictionary: a sense is its        *)
(* definition, None when it has no text; a pronunciation is [text, ga].    *)

textSenses(entry) == SelectSeq(entry.senses, LAMBDA d : d # None)
defined(entry) == textSenses(entry) # <<>> /\ textSenses(entry)[1] # ""

(* Mutant: an entry without a definition uses up a place. *)
extractMeaningsPadded(entries) ==
    LET first == SubSeq(entries, 1, IF Len(entries) < MAX_MEANINGS THEN Len(entries) ELSE MAX_MEANINGS)
        kept  == SelectSeq(first, defined)
    IN  [i \in DOMAIN kept |-> textSenses(kept[i])[1]]

\* The first textual definition of each entry; an empty one hides the entry.
extractMeanings(entries) ==
    LET kept == SelectSeq(entries, defined)
    IN  [i \in 1 .. (IF Len(kept) < MAX_MEANINGS THEN Len(kept) ELSE MAX_MEANINGS) |->
            textSenses(kept[i])[1]]

extractIpa(entries) ==
    LET spoken   == FlattenSeq([i \in DOMAIN entries |-> entries[i].pronunciations])
        american == SelectSeq(spoken, LAMBDA p : p.ga)
    IN  IF american # <<>> THEN american[1].text
        ELSE IF spoken # <<>> THEN spoken[1].text ELSE None

extractSynonyms(entries) ==
    LET all    == FlattenSeq([i \in DOMAIN entries |-> entries[i].synonyms])
        firsts == {i \in DOMAIN all : \A j \in 1 .. i - 1 : all[j] # all[i]}
        rank(i) == Cardinality({j \in firsts : j <= i})
        size   == IF Cardinality(firsts) < MAX_SYNONYMS THEN Cardinality(firsts) ELSE MAX_SYNONYMS
    IN  [k \in 1 .. size |-> all[CHOOSE i \in firsts : rank(i) = k]]
-----------------------------------------------------------------------------
(* A lookup                                                                *)

Move(r, fields) == lookup' = [lookup EXCEPT ![r] = fields]
World == <<vocabWords, turns>>
Stores == <<redis, settled, translated>>

\* DictionaryRateLimitGuard: the counter goes up whatever it says; when Redis
\* does not answer, the request is refused.
Guard(r, w, up) ==
    /\ lookup[r].pc = "new"
    /\ perWindow' = IF up THEN perWindow + 1 ELSE perWindow
    /\ Move(r, [NewLookup EXCEPT !.word = w,
                  !.pc = IF up /\ perWindow' <= MaxPerWindow THEN "quota" ELSE "refused"])
    /\ UNCHANGED <<spent, World, Stores>>

\* The quota is spent before the lookup, whatever becomes of it.
Spend(r) ==
    /\ lookup[r].pc = "quota"
    /\ IF spent < AiQuota
       THEN spent' = spent + 1 /\ Move(r, [lookup[r] EXCEPT !.pc = "vocabWord"])
       ELSE spent' = spent /\ Move(r, [lookup[r] EXCEPT !.pc = "refused"])
    /\ UNCHANGED <<perWindow, World, Stores>>

LookupVocabWord(r) ==
    /\ lookup[r].pc = "vocabWord"
    /\ Move(r, [lookup[r] EXCEPT !.pc = IF lookup[r].word \in vocabWords
                                          THEN "curated" ELSE "cache"])
    /\ UNCHANGED <<perWindow, spent, World, Stores>>

\* A cache that cannot be read is a miss.
ReadCache(r, up) ==
    LET w == lookup[r].word
    IN  /\ lookup[r].pc = "cache"
        /\ IF up /\ redis[w] # None
           THEN Move(r, [lookup[r] EXCEPT !.pc = "cached", !.vi = redis[w].vi])
           ELSE Move(r, [lookup[r] EXCEPT !.pc = "source", !.deaf = ~up,
                           !.after = {s \in {"settled", "translated"} :
                                        w \in IF s = "settled" THEN settled ELSE translated}])
        /\ UNCHANGED <<perWindow, spent, World, Stores>>

AskSource(r, reply) ==
    /\ lookup[r].pc = "source"
    /\ Move(r, [lookup[r] EXCEPT !.pc =
                  CASE sourceOf(reply) = "missing"     -> "not found"
                    [] sourceOf(reply) = "unavailable" -> "failed"
                    [] reply = "undefined"             -> "store"
                    [] OTHER                           -> "translate"])
    /\ UNCHANGED <<perWindow, spent, World, Stores>>

Translate(r, reply) ==
    /\ lookup[r].pc = "translate"
    /\ Move(r, [lookup[r] EXCEPT !.pc = "store", !.vi = translate(reply)])
    /\ UNCHANGED <<perWindow, spent, World, Stores>>

(* Mutant: only a translated answer is stored. *)
StoreTranslated(r, up) ==
    LET w == lookup[r].word
    IN  /\ lookup[r].pc = "store"
        /\ redis' = IF up /\ lookup[r].vi # None
                    THEN [redis EXCEPT ![w] = [vi |-> lookup[r].vi, by |-> r]] ELSE redis
        /\ settled' = IF up THEN settled \cup {w} ELSE settled
        /\ translated' = IF up /\ lookup[r].vi # None THEN translated \cup {w} ELSE translated
        /\ Move(r, [lookup[r] EXCEPT !.pc = "answered"])
        /\ UNCHANGED <<perWindow, spent, World>>

\* Stored with or without a translation; a write that fails is passed over.
Store(r, up) ==
    LET w == lookup[r].word
    IN  /\ lookup[r].pc = "store"
        /\ redis' = IF up THEN [redis EXCEPT ![w] = [vi |-> lookup[r].vi, by |-> r]] ELSE redis
        /\ settled' = IF up THEN settled \cup {w} ELSE settled
        /\ translated' = IF up /\ lookup[r].vi # None THEN translated \cup {w} ELSE translated
        /\ Move(r, [lookup[r] EXCEPT !.pc = "answered"])
        /\ UNCHANGED <<perWindow, spent, World>>

\* DICTIONARY_CACHE_TTL_SECONDS have passed.
Expire(w) ==
    /\ redis[w] # None /\ turns < MaxDesk /\ turns' = turns + 1
    /\ redis' = [redis EXCEPT ![w] = None]
    /\ settled' = settled \ {w} /\ translated' = translated \ {w}
    /\ UNCHANGED <<vocabWords, perWindow, spent, lookup>>

\* The word is added to the vocabulary, or removed from it.
Curate(w) ==
    /\ turns < MaxDesk /\ turns' = turns + 1
    /\ vocabWords' = IF w \in vocabWords THEN vocabWords \ {w} ELSE vocabWords \cup {w}
    /\ UNCHANGED <<perWindow, spent, lookup, Stores>>

NextWindow ==
    /\ perWindow > 0 /\ turns < MaxDesk /\ turns' = turns + 1 /\ perWindow' = 0
    /\ UNCHANGED <<vocabWords, spent, lookup, Stores>>

DictionaryNext ==
    \/ \E r \in Lookups :
          \/ Spend(r) \/ LookupVocabWord(r)
          \/ \E w \in Terms, up \in BOOLEAN : Guard(r, w, up)
          \/ \E up \in BOOLEAN : ReadCache(r, up) \/ Store(r, up)
          \/ \E reply \in SourceReplies : AskSource(r, reply)
          \/ \E reply \in TranslatorReplies : Translate(r, reply)
    \/ \E w \in Terms : Expire(w) \/ Curate(w)
    \/ NextWindow

DictionarySpec == DictionaryInit /\ [][DictionaryNext]_dictionaryVars
-----------------------------------------------------------------------------
Asked(r) == lookup[r].pc \in {"not found", "failed", "translate", "store", "answered"}

(* A word that was looked up and stored is not bought again: the services  *)
(* are asked only by a lookup that was under way before, or could not read *)
(* the cache - also when the translation had failed.                       *)
BoughtOnce == \A r \in Lookups : Asked(r) /\ ~lookup[r].deaf => "settled" \notin lookup[r].after

(* A translation in the cache gives way to an entry without one only by a  *)
(* lookup that overlapped the one that stored it, or could not read it.    *)
TranslationKept ==
    \A w \in translated :
        \/ redis[w].vi # None
        \/ LET r == redis[w].by IN lookup[r].deaf \/ "translated" \notin lookup[r].after

(* Nothing is asked for a request that was refused, and every request let  *)
(* in is charged once, also when the word is not found or the source down. *)
ChargedOnce ==
    /\ spent = Cardinality({r \in Lookups : lookup[r].pc \notin {"new", "quota", "refused"}})
    /\ spent <= AiQuota

(* A Vietnamese line is a translation, never what the model said instead.  *)
OnlyTranslations == \A w \in Terms : redis[w] # None => redis[w].vi \in {None, "translation"}

DictionarySound == BoughtOnce /\ TranslationKept /\ ChargedOnce /\ OnlyTranslations

(* The words of a student: a deck shown holds words that are there, the    *)
(* words he saved are scheduled by the reviews he gave, and what he looks  *)
(* up is bought once; see the three invariants, each over its own tables.  *)
WordsSpec == DecksSpec /\ PersonalSpec /\ DictionarySpec
WordsSound == VocabularySound /\ PersonalSound /\ DictionarySound

(* The entries of a word give the first MAX_MEANINGS of those that have a  *)
(* definition - unless their first one is empty -, an American             *)
(* pronunciation when there is one, and MAX_SYNONYMS different synonyms.   *)
ExtractionSound(entries) ==
    LET meanings == extractMeanings(entries)
        with(n) == Cardinality({i \in 1 .. n : defined(entries[i])})
        spoken  == UNION {{e.pronunciations[j] : j \in DOMAIN e.pronunciations} :
                             e \in {entries[i] : i \in DOMAIN entries}}
        said    == UNION {{e.synonyms[j] : j \in DOMAIN e.synonyms} :
                             e \in {entries[i] : i \in DOMAIN entries}}
        synonyms == extractSynonyms(entries)
    IN  /\ \A i \in DOMAIN entries :
              defined(entries[i]) /\ with(i) <= MAX_MEANINGS =>
                 /\ with(i) \in DOMAIN meanings
                 /\ \E d \in DOMAIN entries[i].senses : entries[i].senses[d] = meanings[with(i)]
        /\ Len(meanings) <= MAX_MEANINGS /\ Len(meanings) <= with(Len(entries))
        /\ extractIpa(entries) = None <=> spoken = {}
        /\ (\E p \in spoken : p.ga) => \E p \in spoken : p.ga /\ p.text = extractIpa(entries)
        /\ Len(synonyms) <= MAX_SYNONYMS
        /\ Cardinality({synonyms[k] : k \in DOMAIN synonyms}) = Len(synonyms)
        /\ {synonyms[k] : k \in DOMAIN synonyms} \subseteq said
        /\ Len(synonyms) < MAX_SYNONYMS => {synonyms[k] : k \in DOMAIN synonyms} = said
=============================================================================
