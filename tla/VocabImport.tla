---------------------------- MODULE VocabImport ----------------------------
(***************************************************************************)
(* The vocabulary import (src/vocab-import): an operator runs the CLI one  *)
(* stage at a time.  Stages hand each other files; the import stage writes *)
(* the word bank and the decks row by row, without a transaction around    *)
(* them, so a run may die anywhere and the next one starts from the files  *)
(* and rows it finds.  Editors keep changing words meanwhile.              *)
(*                                                                         *)
(* A word has one medium.  Texts that differ in case or blanks are one     *)
(* key (normalizeDedupeKey), a row is "good", "bad" (mapped, but reported  *)
(* as an error) or "blank" (no headword, so never mapped).                 *)
(***************************************************************************)
EXTENDS Absent, Naturals, FiniteSets, Sequences, Functions

CONSTANTS
    Dataset,        \* the rows of the staged table: [key, deck, kind]
    NoDeck,         \* a row whose deck cell is empty
    OnDisk,         \* keys with a local file or a remote URL
    Orders,         \* command lines: [stage, mode, dry, force, partial, limit, publish]
    MaxDeckWords,   \* MAX_DECK_WORDS (500 in the code)
    MaxConcurrent, MaxRetries,          \* of the uploader (5 and 2)
    MaxOrders, MaxCrashes, MaxEdits     \* bounds of the model

ASSUME ImportAssumption ==
    /\ MaxDeckWords \in Nat /\ MaxConcurrent \in Nat \ {0} /\ MaxRetries \in Nat
    /\ Dataset \in Seq(Range(Dataset)) /\ None \notin {"import", "admin"}
    /\ \A order \in Orders : order.limit \in Nat

VARIABLES
    files,      \* build directory: mapped.json, validation.json, media-manifest.json
    cloud,      \* keys with an asset in Cloudinary
    bank,       \* VocabWord rows, in order of creation
    shelf,      \* decks of the library that exist: [deck key -> word ids in order]
    published,  \* decks with isPublished
    cli,        \* the running command
    bounds      \* commands, crashes and edits so far

importVars == <<files, cloud, bank, shelf, published, cli, bounds>>

ImportKeys == {Dataset[i].key : i \in DOMAIN Dataset}
NotRunning == [pc |-> "idle"]

ImportInit ==
    /\ files = [mapped |-> None, errors |-> None, manifest |-> None]
    /\ cloud = {} /\ bank = <<>> /\ shelf = <<>> /\ published = {}
    /\ cli = NotRunning
    /\ bounds = [orders |-> 0, crashes |-> 0, edits |-> 0]
-----------------------------------------------------------------------------
(* What the stages compute                                                 *)

\* The members of a set of places in order, and what stands there.
inOrder(places) ==
    [n \in 1 .. Cardinality(places) |->
        CHOOSE i \in places : Cardinality({j \in places : j <= i}) = n]
picked(s, places) == [n \in DOMAIN inOrder(places) |-> s[inOrder(places)[n]]]

\* GenericConfigMapper.map: a row without a headword is an issue, not a word.
mapRows(rows) == picked(rows, {i \in DOMAIN rows : rows[i].kind # "blank"})

\* The mapper's issues and validateStructural's errors; the rest are warnings.
validationErrors(rows) == Cardinality({i \in DOMAIN rows : rows[i].kind # "good"})

(* Mutant: every row is a word of its own.                                 *)
wordsAsTheyAre(words) == words

\* dedupeByText: the first row of each text.
dedupeByText(words) ==
    [i \in {j \in DOMAIN words : \A k \in 1 .. j - 1 : words[k].key # words[j].key}
        |-> words[i]]

\* MediaResolverService.resolve
resolve(words) ==
    [k \in {words[i].key : i \in DOMAIN words} |->
        [status |-> IF k \in OnDisk THEN "pending" ELSE "missing", tries |-> 0]]

\* mergeManifest: only what an earlier run finished is carried over.
mergeManifest(fresh, previous) ==
    [k \in DOMAIN fresh |->
        IF previous # None /\ k \in DOMAIN previous /\ previous[k].status = "uploaded"
        THEN previous[k] ELSE fresh[k]]

limited(words, limit) == [i \in {j \in DOMAIN words : limit = 0 \/ j <= limit} |-> words[i]]

\* getMediaUrl
getMediaUrl(manifest, key) ==
    IF manifest # None /\ key \in DOMAIN manifest /\ manifest[key].status = "uploaded"
    THEN "import" ELSE None

\* source ADMIN, or touched more than PROTECTED_EPSILON_MS after its creation
isProtected(word) == word.source = "ADMIN" \/ word.edited

\* Deck keys in the order their first word comes (Map insertion order).
groupsOf(words) ==
    LET first == {i \in DOMAIN words : /\ words[i].deck # NoDeck
                                       /\ \A j \in 1 .. i - 1 : words[j].deck # words[i].deck}
    IN  [n \in DOMAIN inOrder(first) |-> words[inOrder(first)[n]].deck]

importing == cli.pc \in {"create", "update", "write"}
-----------------------------------------------------------------------------
(* Commands                                                                *)

Exit == cli' = NotRunning

\* shouldRun: without --stage the command analyses, maps and validates.
Check(order) ==
    /\ order.stage = "check"
    /\ files' = [mapped |-> mapRows(Dataset), errors |-> validationErrors(Dataset),
                 manifest |-> files.manifest]
    /\ Exit /\ UNCHANGED <<cloud, bank, shelf, published>>

\* readJson throws when the map stage has not run: the command fails.
Unprepared(order) ==
    /\ order.stage \in {"media", "import"} /\ files.mapped = None
    /\ Exit /\ UNCHANGED <<files, cloud, bank, shelf, published>>

StartMedia(order) ==
    /\ order.stage = "media" /\ files.mapped # None
    /\ LET manifest == mergeManifest(resolve(limited(files.mapped, order.limit)), files.manifest)
       IN  /\ files' = [files EXCEPT !.manifest = manifest]
           /\ IF order.dry THEN Exit
              ELSE cli' = [pc |-> "upload", order |-> order, manifest |-> manifest, sending |-> {}]
    /\ UNCHANGED <<cloud, bank, shelf, published>>

\* validation.json is only a gate when it is there.
Blocked(order) ==
    /\ order.stage = "import" /\ files.mapped # None
    /\ files.errors \notin {None, 0} /\ ~order.partial
    /\ Exit /\ UNCHANGED <<files, cloud, bank, shelf, published>>

\* import: what becomes of each row is decided from one reading of the bank.
\* A key held by two rows of the bank resolves to either.
rowsOf(k) == {w \in DOMAIN bank : bank[w].key = k}
known == {k \in ImportKeys : rowsOf(k) # {}}
Readings == {found \in [known -> DOMAIN bank] : \A k \in known : found[k] \in rowsOf(k)}

fate(k, found, order) ==
    IF k \notin known THEN "create"
    ELSE IF order.mode = "skip" \/ (isProtected(bank[found[k]]) /\ ~order.force) THEN "keep"
    ELSE "update"

StartImport(order) ==
    /\ order.stage = "import" /\ files.mapped # None
    /\ files.errors \in {None, 0} \/ order.partial
    /\ LET words == limited(files.mapped, order.limit)
           unique == dedupeByText(words)
       IN  \E found \in Readings :
             LET rows(what) == {i \in DOMAIN unique : fate(unique[i].key, found, order) = what}
             IN  cli' = [pc |-> "create", order |-> order, words |-> words,
                         manifest |-> files.manifest, groups |-> groupsOf(words),
                         ids |-> [k \in {unique[i].key : i \in rows("keep")} |-> found[k]],
                         create |-> [i \in rows("create") |-> unique[i].key],
                         update |-> [i \in rows("update") |->
                                       [key |-> unique[i].key, id |-> found[unique[i].key]]],
                         failed |-> {}, media |-> None]
    /\ UNCHANGED <<files, cloud, bank, shelf, published>>

Order ==
    /\ cli.pc = "idle" /\ bounds.orders < MaxOrders
    /\ bounds' = [bounds EXCEPT !.orders = @ + 1]
    /\ \E order \in Orders :
         Check(order) \/ Unprepared(order) \/ StartMedia(order) \/ Blocked(order) \/ StartImport(order)
-----------------------------------------------------------------------------
(* The media stage: MediaUploaderService.upload with its limiter           *)

uploading(manifest, sending) ==
    cli' = [pc |-> "upload", order |-> cli.order, manifest |-> manifest, sending |-> sending]
mediaEntry(k, status, tries) == [cli.manifest EXCEPT ![k] = [status |-> status, tries |-> tries]]

\* An attempt may reach Cloudinary or not.
attempt(k) ==
    /\ uploading(mediaEntry(k, "pending", cli.manifest[k].tries + 1), cli.sending \cup {k})
    /\ cloud' \in {cloud, cloud \cup {k}}

\* The limiter lets an upload start; it holds its place through its retries.
Send(k) ==
    /\ cli.pc = "upload" /\ k \in DOMAIN cli.manifest \ cli.sending
    /\ cli.manifest[k].status = "pending" /\ Cardinality(cli.sending) < MaxConcurrent
    /\ attempt(k)
    /\ UNCHANGED <<files, bank, shelf, published, bounds>>

\* An entry is marked, and the manifest saved at once.
saves(k, status) ==
    /\ uploading(mediaEntry(k, status, cli.manifest[k].tries), cli.sending \ {k})
    /\ files' = [files EXCEPT !.manifest = mediaEntry(k, status, cli.manifest[k].tries)]

\* The answer arrives ...
Uploaded(k) ==
    /\ cli.pc = "upload" /\ k \in cli.sending /\ k \in cloud
    /\ saves(k, "uploaded")
    /\ UNCHANGED <<cloud, bank, shelf, published, bounds>>

\* ... or an error does, lost answers included: withRetry, then failed.
UploadFails(k) ==
    /\ cli.pc = "upload" /\ k \in cli.sending
    /\ IF cli.manifest[k].tries <= MaxRetries THEN attempt(k) /\ UNCHANGED files
       ELSE saves(k, "failed") /\ UNCHANGED cloud
    /\ UNCHANGED <<bank, shelf, published, bounds>>

MediaDone ==
    /\ cli.pc = "upload" /\ \A k \in DOMAIN cli.manifest : cli.manifest[k].status # "pending"
    /\ Exit /\ UNCHANGED <<files, cloud, bank, shelf, published, bounds>>
-----------------------------------------------------------------------------
(* The import stage: ImportEngineService.import                            *)

firstOf(f) == CHOOSE i \in DOMAIN f : \A j \in DOMAIN f : i <= j
without(f, i) == [j \in DOMAIN f \ {i} |-> f[j]]
with(f, k, v) == [x \in DOMAIN f \cup {k} |-> IF x = k THEN v ELSE f[x]]

\* How the run c goes on.
goingTo(c, pc) == [c EXCEPT !.pc = pc]
holding(c, media) == [c EXCEPT !.media = media]
pastCreate(c) == [c EXCEPT !.create = without(@, firstOf(@))]
pastUpdate(c) == [c EXCEPT !.update = without(@, firstOf(@))]
knowing(c, k, id) == [c EXCEPT !.ids = with(@, k, id)]
failing(c, k) == [c EXCEPT !.failed = @ \cup {k}]
leaving(c, groups) == [c EXCEPT !.groups = groups]

toCreate == cli.create[firstOf(cli.create)]
toUpdate == cli.update[firstOf(cli.update)]

\* createWord: a transaction of its own; its failure is recorded and passed over.
CreateWord ==
    /\ cli.pc = "create" /\ DOMAIN cli.create # {}
    /\ \/ /\ cli.order.dry
          /\ cli' = knowing(pastCreate(cli), toCreate, 0)
          /\ UNCHANGED bank
       \/ /\ ~cli.order.dry
          /\ bank' = Append(bank, [key |-> toCreate, source |-> "IMPORT", text |-> "import",
                                   media |-> getMediaUrl(cli.manifest, toCreate), young |-> TRUE,
                                   edited |-> FALSE, run |-> bounds.orders, late |-> FALSE])
          /\ cli' = knowing(pastCreate(cli), toCreate, Len(bank) + 1)
       \/ /\ ~cli.order.dry
          /\ cli' = failing(pastCreate(cli), toCreate)
          /\ UNCHANGED bank
    /\ UNCHANGED <<files, cloud, shelf, published, bounds>>

EndCreate ==
    /\ cli.pc = "create" /\ DOMAIN cli.create = {}
    /\ cli' = goingTo(cli, "update")
    /\ UNCHANGED <<files, cloud, bank, shelf, published, bounds>>

\* updateWord reads the medium the row has ...
ReadWord ==
    /\ cli.pc = "update" /\ DOMAIN cli.update # {}
    /\ cli' = IF cli.order.dry THEN knowing(pastUpdate(cli), toUpdate.key, toUpdate.id)
              ELSE holding(goingTo(cli, "write"), bank[toUpdate.id].media)
    /\ UNCHANGED <<files, cloud, bank, shelf, published, bounds>>

\* ... and keeps it; text, meanings and examples are replaced.
rewritten(word) ==
    [key |-> word.key, source |-> word.source, text |-> "import",
     media |-> IF cli.media # None THEN cli.media ELSE getMediaUrl(cli.manifest, word.key),
     young |-> word.young, edited |-> word.edited \/ ~word.young,
     run |-> word.run, late |-> word.late]

WriteWord ==
    /\ cli.pc = "write"
    /\ LET next == holding(goingTo(pastUpdate(cli), "update"), None)
       IN  \/ /\ bank' = [bank EXCEPT ![toUpdate.id] = rewritten(bank[toUpdate.id])]
              /\ cli' = knowing(next, toUpdate.key, toUpdate.id)
           \/ /\ UNCHANGED bank
              /\ cli' = failing(next, toUpdate.key)
    /\ UNCHANGED <<files, cloud, shelf, published, bounds>>

EndUpdate ==
    /\ cli.pc = "update" /\ DOMAIN cli.update = {}
    /\ cli' = goingTo(cli, "decks")
    /\ UNCHANGED <<files, cloud, bank, shelf, published, bounds>>
-----------------------------------------------------------------------------
(* The decks: DeckBuilderService.build                                     *)

\* getOrCreateLibrary and getOrCreateDeck
GetOrCreateDeck ==
    /\ cli.pc = "decks" /\ cli.groups # <<>>
    /\ cli' = goingTo(cli, "attach")
    /\ shelf' = IF cli.order.dry \/ Head(cli.groups) \in DOMAIN shelf THEN shelf
                ELSE with(shelf, Head(cli.groups), <<>>)
    /\ UNCHANGED <<files, cloud, bank, published, bounds>>

\* The word of row i, and the rows of a group, those that failed left out.
idOf(i) == cli.ids[cli.words[i].key]
group(deck) == {i \in DOMAIN cli.words : cli.words[i].deck = deck
                                          /\ cli.words[i].key \in DOMAIN cli.ids}

\* attachWords fills what the cap leaves; createMany skips a pair that is there.
unattached(deck) == {i \in group(deck) : idOf(i) \notin Range(shelf[deck])}
capacity(deck) == IF Len(shelf[deck]) >= MaxDeckWords THEN 0 ELSE MaxDeckWords - Len(shelf[deck])
bounded(deck) ==
    {i \in unattached(deck) : Cardinality({j \in unattached(deck) : j <= i}) <= capacity(deck)}
once(deck) == {i \in bounded(deck) : \A j \in bounded(deck) : j < i => idOf(j) # idOf(i)}

attached(deck) ==
    shelf[deck] \o [n \in DOMAIN inOrder(once(deck)) |-> idOf(inOrder(once(deck))[n])]

AttachWords ==
    /\ cli.pc = "attach"
    /\ shelf' = IF cli.order.dry THEN shelf
                ELSE [shelf EXCEPT ![Head(cli.groups)] = attached(Head(cli.groups))]
    /\ cli' = leaving(goingTo(cli, "decks"), Tail(cli.groups))
    /\ UNCHANGED <<files, cloud, bank, published, bounds>>

\* The summary is written; run-1000-common-words goes on to publish.
ImportDone ==
    /\ cli.pc = "decks" /\ cli.groups = <<>>
    /\ cli' = goingTo(cli, "imported")
    /\ UNCHANGED <<files, cloud, bank, shelf, published, bounds>>

EndImport ==
    /\ cli.pc = "imported"
    /\ cli' = IF cli.order.publish /\ ~cli.order.dry THEN [pc |-> "publish", order |-> cli.order]
              ELSE NotRunning
    /\ UNCHANGED <<files, cloud, bank, shelf, published, bounds>>

\* autoPublishQualifyingDecks, deck by deck
Qualifying == {d \in DOMAIN shelf \ published : shelf[d] # <<>>}

PublishDeck ==
    /\ cli.pc = "publish"
    /\ \/ \E d \in Qualifying : published' = published \cup {d} /\ UNCHANGED cli
       \/ Qualifying = {} /\ Exit /\ UNCHANGED published
    /\ UNCHANGED <<files, cloud, bank, shelf, bounds>>
-----------------------------------------------------------------------------
(* What else happens                                                       *)

\* The process dies; files and committed rows stay.
Dies ==
    /\ cli.pc # "idle" /\ bounds.crashes < MaxCrashes
    /\ bounds' = [bounds EXCEPT !.crashes = @ + 1]
    /\ Exit /\ UNCHANGED <<files, cloud, bank, shelf, published>>

\* VocabWordService.create: an editor adds a word, whatever the bank has.
EditorCreates(k) ==
    /\ bounds.edits < MaxEdits /\ bounds' = [bounds EXCEPT !.edits = @ + 1]
    /\ bank' = Append(bank, [key |-> k, source |-> "ADMIN", text |-> "admin", media |-> None,
                             young |-> TRUE, edited |-> FALSE,
                             run |-> IF importing THEN bounds.orders ELSE 0, late |-> FALSE])
    /\ UNCHANGED <<files, cloud, shelf, published, cli>>

\* VocabWordService.update, setAudio and setImage bump updatedAt.
EditorChanges(id, text, media) ==
    /\ bounds.edits < MaxEdits /\ bounds' = [bounds EXCEPT !.edits = @ + 1]
    /\ id \in DOMAIN bank
    /\ bank' = [bank EXCEPT ![id] =
                  [key |-> bank[id].key, source |-> bank[id].source, text |-> text, media |-> media,
                   young |-> bank[id].young, edited |-> bank[id].edited \/ ~bank[id].young,
                   run |-> bank[id].run, late |-> bank[id].young \/ importing]]
    /\ UNCHANGED <<files, cloud, shelf, published, cli>>

EditorEdits(id) == EditorChanges(id, "admin", bank[id].media)
EditorUploads(id) == EditorChanges(id, bank[id].text, "admin")

\* PROTECTED_EPSILON_MS after their creation.
Settle ==
    /\ \E w \in DOMAIN bank : bank[w].young
    /\ bank' = [w \in DOMAIN bank |-> [bank[w] EXCEPT !.young = FALSE]]
    /\ UNCHANGED <<files, cloud, shelf, published, cli, bounds>>

ImportNext ==
    \/ Order \/ CreateWord \/ EndCreate \/ ReadWord \/ WriteWord \/ EndUpdate
    \/ GetOrCreateDeck \/ AttachWords \/ ImportDone \/ EndImport \/ PublishDeck
    \/ \E k \in ImportKeys : Send(k) \/ Uploaded(k) \/ UploadFails(k) \/ EditorCreates(k)
    \/ MediaDone \/ Dies \/ Settle
    \/ \E id \in DOMAIN bank : EditorEdits(id) \/ EditorUploads(id)

ImportSpec == ImportInit /\ [][ImportNext]_importVars
-----------------------------------------------------------------------------
(* Properties                                                              *)

\* The rows of the same deck before row i that repeat a word of it.
repeatsBefore(words, i) ==
    {j \in 1 .. i - 1 : /\ words[j].deck = words[i].deck
                        /\ \E k \in 1 .. j - 1 : words[k].deck = words[j].deck
                                                 /\ words[k].key = words[j].key}

(* However often a run was cut short, one that reaches its summary leaves  *)
(* every word of the file in its deck, but for the words it reported as    *)
(* failed and those the cap kept out, words of an earlier run included:    *)
(* and the cap is reckoned before the pairs that are there twice are       *)
(* skipped, so each earlier row that repeats a word of the deck, a mere    *)
(* warning to the validation, may have cost a place.                       *)
ImportComplete ==
    cli.pc = "imported" /\ ~cli.order.dry =>
        \A i \in DOMAIN cli.words :
            LET row == cli.words[i]
            IN  \/ row.deck = NoDeck \/ row.key \in cli.failed
                \/ \E id \in Range(shelf[row.deck]) : bank[id].key = row.key
                \/ Len(shelf[row.deck]) + Cardinality(repeatsBefore(cli.words, i)) >= MaxDeckWords

(* No text is imported twice, nor beside a word an editor added, unless    *)
(* the editor added it while that very run was at work.                    *)
ImportedOnce ==
    \A i, j \in DOMAIN bank :
        i < j /\ bank[j].source = "IMPORT" /\ bank[i].key = bank[j].key =>
            bank[i].source = "ADMIN" /\ bank[i].run = bank[j].run

(* A word is given the address of an asset only if the asset was uploaded, *)
(* and a deck holds a word once and no more words than its cap.            *)
MediaExists ==
    /\ \A w \in DOMAIN bank : bank[w].media = "import" => bank[w].key \in cloud
    /\ \A d \in DOMAIN shelf : /\ Len(shelf[d]) <= MaxDeckWords
                               /\ Cardinality(Range(shelf[d])) = Len(shelf[d])

(* What imports that were cut short, repeated or raced by an editor leave: *)
(* a run that ends is complete, nothing is there twice, media exist.       *)
ImportResumes == ImportComplete /\ ImportedOnce /\ MediaExists

(* An import takes nothing from an editor: an edited text is replaced only *)
(* by an order to overwrite, or when the edit came within the epsilon or   *)
(* after the run had read the bank; an uploaded medium is never dropped,   *)
(* but for an upload in the middle of a run.                               *)
AdminWorkKept ==
    [][\A w \in DOMAIN bank :
         /\ bank[w].text = "admin" /\ bank'[w].text # "admin" => cli.order.force \/ bank[w].late
         /\ bank[w].media = "admin" /\ bank'[w].media # "admin" => bank[w].late]_importVars
=============================================================================
