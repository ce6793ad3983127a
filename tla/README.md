# engmasterai-backend, specified

TLA+ modules, TLC configurations and TLAPS proofs kept beside
`engmasterai-backend`, the NestJS server of an English-learning application.
Paths are relative to the repository's parent, as in `PROJECT.json`: the
server's code is under `src/src/`, its database schema is
`src/prisma/schema.prisma`. `PROJECT.json` also maps every definition to the
lines it models.

- [The system](#the-system): its parts, what each keeps, and what must hold of it
- [How the modules see it](#how-the-modules-see-it): the modelling conventions
- [Modules](#modules): state and actions against the code
- [Runs](#runs): what each checks, its bounds, its fairness
- [Proofs](#proofs): what holds for every value of the constants, and why
- [Findings](#findings): where the code and its own words disagree
- [Not modelled, and known gaps](#not-modelled-and-known-gaps)
- [What is left](#what-is-left)

To repeat a run: `tlc -workers 2 -config rules.cfg MCRules`; a proof:
`tlapm GamificationProofs.tla`.

## The system

One stateless server process (or several) in front of one PostgreSQL database,
used through Prisma at its default isolation level READ COMMITTED, and one
Redis. There is no job queue and no scheduler: everything that must happen
later (an order lapsing, a streak breaking, a placement test running out) is
noticed by whoever looks next. So the hard questions of this code are about
requests that interleave between their statements, about retries and
duplicates, and about decisions taken on what was read some time ago. Two tools
that operators run by hand, the vocabulary import and the production bootstrap,
add crashes in the middle of long writes.

| component | state | operations | hard because | correct when |
|---|---|---|---|---|
| gamification (`gamification/`, `analytics/day-window.ts`) | XP ledger, `User.totalPoints`, `User.level`, activity days, badges | `recordProgress`, called inside the transaction of every learning engine | several engines award at once; level and badges are decided on a total read earlier; days depend on a time zone that may be unknown | total = sum of the ledger; a key is paid once; hooks run once per day; badges are earned |
| learning (`learning/`) | per-word progress with a version, append-only review log | `submitReview`, scheduler, due queue, summaries | retried and duplicated `clientReviewId`s, two reviews of one version, a lost create race that restarts the transaction; a daily quota in the student's own day | the card is the last log entry; a review is applied and paid once; the queue is fair, and the pages announce what it hands out |
| payment (`payment/`) | orders, Redis create lock, subscriptions | create or reuse an order, SePay webhook, grant, revoke | no unique index on live orders; lock without an owner token; deliveries repeat or come late; four writers of one `expiresAt` | one live order per user and plan; an order is settled once; every day of a subscription is accounted for |
| referral, lesson milestone | referral rows, `lessonMilestoneRewardedAt` | redeem, reward on the first active day, reward at ten lessons | run inside other transactions, lock other users' subscription rows | each reward is paid once |
| chat (`chat/`, `usage/`) | quota counter, claim, stored reply, session | send a message, poll for a duplicate's reply, clear | a chain of models under a claim with a TTL, aborts, crashes, partial failures after the reply is stored | one model call and one reply per message; the quota is exact; every send ends |
| lesson tasks (`lesson/quiz/`) | one progress row per task, append-only attempts, traps | start, answer, submit (quiz), start, submit (practice), answer and hint (trap hunter) | every handler decides on a row it read unlocked and writes absolute values | the row says nothing the history does not; an attempt has one outcome; XP is paid for passes and for corrected mistakes |
| lesson steps (`lesson/steps/`) | video and stage progress | report a position, open and finish the theory | read, combine, write without a lock | progress only falls back by a report that read too early |
| course catalogue (`course/`, `lesson/`) | courses, lessons, tasks with their questions, and what students have done of them | create, publish, edit, replace and remove; stages, prerequisites, status of a lesson and a course | authors replace what a student is working at; tasks are replaced under a row lock, everything else is read and then written | a student is never stuck; an attempt keeps its task; a completed lesson stays completed; the course page adds up |
| published topics (`speaking/`, `listening/`, `vocab-library/` administration) | scenarios and exercises, categories and recordings, libraries and decks: rows with a place and a switch | create, edit, publish, unpublish, remove | counts, maxima and guards are each read before the write they are for | nothing that was practised disappears; a late removal is refused in words; places differ |
| Streak Together (`streak/`) | pair row, invitations | the activity-day hook, recompute and restart on a view, send, accept, decline, cancel, join by link | the hook, views and restarts write one row from stale reads; two partners live in two calendars | a streak counts only days both opened; an invitation is answered once |
| auth (`auth/`, `user/`) | refresh-token families and an index in Redis; users, Google identities, mailed tokens | sign up, log in, link Google, verify, reset, change password, refresh, log out, block | several Redis commands per session, index and keys out of step; tokens issued and consumed without a lock | a spent secret is never redeemed again; a sweep finds every session; a reset ends what was open before it; the owner of an account has proved the address |
| speaking (`speaking/`) | attempt row, one-use tickets, live session, turns in Redis | start, open, talk, complete | turns land after completion, completion may run twice, sockets leave while they are set up | the completion counts the turns that were finished and kept |
| study time (`study-time/`) | credited seconds per heartbeat | heartbeat | overlapping heartbeats from several devices | a day holds no more seconds than have passed of it, for one device |
| placement (`placement/`) | attempts with a deadline, answers, roadmap, question bank | start, answer, finish, skip, retake, ask for a plan; edit questions | whoever finds an attempt due grades it; two slow AI calls write on the roadmap later | the roadmap belongs to the attempt that is kept, a plan to its roadmap; a plan without AI is one the validator accepts |
| listening (`listening/`) | recordings with their sentences, progress of dictation and shadowing | submit, record, ask for feedback; save sentences | best-of and completion computed from a row read before; sentences parked and renumbered under a unique index | progress follows from the submissions; a document is one that was saved |
| vocabulary (`vocab-*/`) | libraries, decks, word bank, guess game; words saved by a user | attach, detach, publish, CSV import; save, edit, review | caps, positions and limits are counted and then relied on | caps and limits hold, texts are distinct, progress keeps its words; a review counts once and only reviews schedule |
| vocabulary import (`vocab-import/`) | data and manifest files, uploaded media, bank and decks | check, media, import, with their options | no transaction around a run, which may die anywhere; editors change the same words | run again, it completes what is missing once; it takes nothing from an editor |
| community chat (`community-chat/`) | messages, tickets, sockets, read cursors | send, scroll, listen, mark as read | a row is stamped before it is committed; pages by cursor; a broadcast that is not repeated | scrolling skips and repeats nothing; a listener misses nothing; the cursor never falls back |
| production bootstrap (`production-bootstrap/`) | two databases and a manifest on disk | plan, write a domain, record it | authors go on editing; a lost COMMIT answer, a crash, two overlapping runs | nothing is overwritten; what a manifest claims can be undone safely; content arrives whole |
| dictionary (`dictionary/`) | Redis cache, quota, limits | look up | cache-aside in front of two slow services | an entry is bought once by lookups one after the other; quota charged once; a translation is one |
| analytics, notification, mail, configuration, health | rows | reads, inserts, I/O | little coordination | - |

How they meet: learning, lesson tasks, trap hunter and lesson steps each run
their writes and `recordProgress` in one transaction. `recordProgress`, when it
opens a new activity day, runs the Streak Together hook and the referral
reward in that same transaction. The dashboard grants the ten-lesson reward,
which like the referral reward, the webhook and the administrator extends a
subscription through `SubscriptionGrantService`. Chat, vocabulary and the lesson
gate read the subscription. A password reset and a block sweep the sessions.
Authors and students meet in the same rows: tasks, sentences, decks, exercises.
The import and the bootstrap write the tables that authors edit.

## How the modules see it

*Transactions.* A transaction is a record in a variable (`tx`, `req`, `job`,
`request`, `report`) with a program counter; a step is one statement. A
statement reads what is committed plus the transaction's own writes; what it
writes is private until it commits; a statement that meets a row another open
transaction has written waits (its guard is false) and then looks at the row
again. It may be rolled back, fail or crash at any step. Handlers without a
transaction (all of the administration) are the same, with each write visible at
once. Where several statements are folded into one, the module's header says
why nobody can tell. A Redis command, script or pipeline is one step.

*Clients.* Retries, duplicates and tabs are further requests with the same id.
History variables (`raced`, `overlapped`, `overrun`, `unwound`, `hookRuns`,
`granted`, `forfeited`, `drifted`, `unmatched`, `loose`, `went`, `crossed`,
`issued`, `outdated`, `madeTwice`, `outlived`, `past`, `shapedBy` ...)
record what a property has to know about the past and guard nothing.

*Data.* XP keys are records, words and questions model values, an answer is
right or wrong, a time is a slot. The numbers that rules compute with (XP
amounts, thresholds, ease factors in hundredths, intervals) are the code's own.

*Mutants.* An operator commented `Mutant:` is a plausible slip in the definition
below it; nothing refers to it. Putting it in the place of that definition
breaks a property, which is how we know that the property depends on the code.
A property that joins several parts has one listed mutant in `PROJECT.json`;
the modules hold further ones, for its other parts.

## Modules

**Rules.** `XpRules` has the award keys and amounts (`xp-rules.ts`), the level
curve (`level-curve.ts`) and the badges (`achievement-catalog.ts`).
`DayWindow` has day labels and `countCurrentStreak` (`day-window.ts`): time is
in slots, two per UTC day in the runs, and the local zone is one slot ahead, so
the two calendars differ half of the time. `SrsScheduler` is `scheduler.ts`:
`next(card, rating, at, tie)`, with ease in hundredths; `tie` is the way a
product ending in exactly one half rounds, which in the code depends on the
floating-point representation. `Absent` has the value `None`.

**`Gamification`**: `recordProgress` and `award`, statement by statement. `Begin`
(caller's own write and user row), `ReadUnlocked`, `SkipDay`/`OpenDay`/`TouchDay`
(hot path, insert of the day with its hooks, update of an existing day),
`InsertAwards`, `InsertBadges` (ON CONFLICT DO NOTHING: only rows that landed
count, and an insert waits while a rival's row is in doubt), `UpdateUser`
(atomic increment, computed level), `Commit`, `Rollback`; plus `Tick` and
`LearnTimezone` (the due queue stores the zone it is told).

**`WordReview`** is `submitReview`/`attemptReview`: idempotency lookup, gate,
`FindProgress`/`CreateProgress`, conditional update by version, log insert,
award, commit, retry of the whole transaction after a lost create race.
**`ReviewHistory`** is its abstract specification: a word's accepted reviews are
a sequence, each scheduled from the one before. `ImplementsReviewHistory` is the
refinement, with `history <- logs`. **`ReviewQueue`** is the rest of the service:
what `getDueReviews` hands out, with its scan of the overdue rows, the deal by
decks and the quota of new words; the summaries; and the start of a day in a
zone whose clocks change. It is a function of the rows, asked from every small
arrangement of them.

**`PaymentOrders`** is `createOrReusePayment` under the Redis lock: `Acquire`
(SET NX EX), `Contend`, `Poll`, `Reuse`, `Create`, `Release` (an unconditional
DEL), `LockLapses`, `ServerDies`; and, abstractly, the life of an order:
`OrderLapses`, `Settle`. **`Subscriptions`** extends it with every writer of
`expiresAt`: webhook, referral reward, ten-lesson reward, grant and revoke, as
jobs that lock what they write. `ImplementsOrders` says that with all of these
the orders still move only as `PaymentOrders` lets them.

**`ChatSend`** is `POST /chat/messages`: `Spend` (conditional upsert of the
counter), `Refuse`, `Claim` (SET NX EX), `LoseClaim` and `Poll` for duplicates,
`Call`, `NextModel`, `Headers`, `Reply`, `Fail`, `Commit`, `AppendTurn`,
`Release`, with `Disconnect`, `ServerDies`, `ClearSession`, and the clock that
runs the TTLs. Time is counted in `CHAT_REPLY_TIMEOUT_MS`, and `Tick` also runs out
a claim whose owner is still at its call; `outlived` remembers those messages.

**`StreakTogether`**: one pair. `OpenDay` and `FindActive` are the hook;
`View`, `CheckBoth`, `Reset`, `Recompute`, `Attempt`, `Refresh` are the two
reads that heal and restart a pair; both run `processPairActivity`, whose
branches are `Break`, `FindPartnerDay` and `Advance`. `Send`/`Ask`/
`CreateInvite`, `Accept`/`Claim`, `JoinByLink` and `FindPair`/`CreatePair`/
`CreateTwice`/`UpdatePair` (the upsert, which Prisma splits because it returns
relations) are the invitations. Beside it, each with variables of its own: the
links, that is the public page of a pair and the standing invitation of a member
(`AskLink`, `MakeLink`, `RefuseLink`); the board of all pairs (`BoardStarts`,
`BoardAdvances`, `BoardBreaks`), whose percentile is two counts
(`CountActive`, `CountBetter`) with other writers between them; and what
`describeActivity` tells of a day, a function of the rows.

**`LessonTasks`**: one student and lesson. A request is `Begin`, its reads
(`CheckQuizPassed`, `CheckTrapsCleared`, `CheckStarted`, `FindProgress` or
`CreateProgress`, `LoadTraps`), a decision (`DecideStart`, `DecideAnswer`,
`DecideSubmit`, `DecideTrap`) and its writes with COMMIT (`SaveStart`,
`SaveAnswer`, `SaveSubmit`, `SubmitTwice`, `SaveTrap`). **`LessonSteps`** is the
other half of a lesson, the reports of the video player and the clicks on the
theory: `ReadStep`, `WriteStep`, `LoseCreate`. **`Catalogue`** puts authors and
the student into one course: an author's handler finds its row, checks and
writes (creation, publishing, edits, `SaveTask` and `DeleteTask`), while the
student watches, opens, submits and pays (a video by the whole of
`videoProgressTransaction`: the length that is frozen or authored, the ratio,
the floor, in units of its own); it also has the stages, the prerequisites and
the status of lessons and courses as the code derives them on every read.
**`QuestionRules`** is `grade-question.ts` and `trap-hints.ts` as functions, and
the bank of the placement test, whose questions are patched a field at a time
(`ReadQuestion`, `WriteQuestion`).

**`PublishedTopics`** is the administration that speaking, listening and
vocabulary share as copies of one another: `Seek`, `SeekTopic`, `Place`,
`CountFirst`, then one write (`CreateRow`, `EditRow`, `Switch`, `Drop`), with
what the foreign keys refuse, and a student who practises. `family` picks the
copy. `validateContentForPublish` and the pages of the catalogue are there as
functions.

**`RefreshSessions`** is the Redis side of auth: a family is issued (key, then
index), rotated by the script, revoked, swept, and expires. **`Accounts`**
extends it with the rows: register, log in, Google, link, verify, resend,
forgot, reset, change, block, each by its statements (a reset is `ResetRead`,
then the two statements that look for tokens, `ResetResets` and
`ResetVerifications`, then `ResetCommit`, which consumes what they saw).
**`SpeakingLive`** is an attempt with its tickets, its socket and session, the
turns appended to Redis, and completions. **`StudyClock`** is the heartbeat; the
seconds of a set of events are counted as units, which is their sum.
**`Listening`** has submissions, feedback, the summaries of a recording,
overlapping saves of the sentences and the shelf they stand on;
**`ListeningScores`** the two ways to mark an answer. **`Placement`** has
attempts, grading by whoever comes along, the roadmap and its two AI calls, and,
as functions, the paper that is drawn, the score, the result and its review, the
resources a goal is offered, the plan without AI, the validator of plans, the
phases an AI answer is narrated into and what of a stored roadmap is still
shown. What `ReviewAgrees` is asked of, a paper that is answered, edited, graded
and reviewed, is in `MCStudy`: an answer is accepted and written by two steps,
and a grading reads questions and answers by two and writes by a third.

**`VocabDecks`** is a library's decks and the word bank under several editors,
**`PersonalWords`** the words a user saves, edits and reviews, with the lists
and the statistics he is shown (`Update` writes every column the body names, as
the code does, and `shapedBy` remembers the rows whose schedule was written so),
**`VocabImport`** the command-line import with its files, uploads, retries and
crashes (`Order` and the stages it starts, `CreateWord`, `ReadWord`/`WriteWord`,
`GetOrCreateDeck`, `AttachWords`, `PublishDeck`; `Dies`; what becomes of a row
is its `fate`, decided from one reading of the bank), **`Dictionary`** a lookup
through guard, quota, cache, source and translator, **`CommunityChat`** the
room, **`ContentBootstrap`** the copy to production.

`MC...` modules fix small instances. Where several components share a run, a
variable `subject` picks one of them and leaves the rest alone; that keeps
every instance small and every component's properties in one place. Inside a
component there are *scenes*: a starting point and the calls that race on it,
chosen so that each interesting race happens without paying for the product of
all of them. A scene restricts which calls arrive; it never restricts how they
interleave, except `full` in `MCChatSend`, which asks for three messages without
failures to fill a session. Requests that are alike are told apart by symmetry
(`accounts`, `study`) or take their turns to arrive in a fixed order
(`InOrder` in `MCContent`), which loses nothing: what an arrival looks at is not
changed by the arrival of another.

## Runs

| run | asks | bounds |
|---|---|---|
| `rules` (`MCRules`) | do level curve and scheduler meet their tables, are the answers ordered, does a link lead where it was made for (`LinksLead`), does the board say what the rows say (`BoardAgrees`), is what is told of a day of that day (`RowsAreOfToday`), all in `RulesAsTabled`; does a streak change only as the days do (`StreakKeepsItsDays`); is a pair's streak honest (`StreakBacked`), an invitation answered once (`AnsweredOnce`), and a day that both opened counted at once when requests do not overlap (`EveryDayCounted`) | XP to 2,750 (ten levels, the length of the hand-written table); 4-day window over 10 days; 10 recalls, 3 lapses, intervals to 60 days (past the 21-day mastery bound); pair: 2 requests, 2 invitations, 3 days; scenes daily, abroad, return, invites; links, board and rows are subjects of their own |
| `gamification` | is the total the ledger's sum (`TotalIsLedgerSum`), are badges earned and none missing (`BadgesMatchHistory`, `Xp500Earned`), do the hooks run once a day (`HooksOncePerDay`), does every call end (`EveryCallEnds`) | 1 user, 2 open transactions, any number one after another; scenes veteran (460 XP), newcomer, week (two midnights), traveller (zone learned meanwhile) |
| `word_review` | no review lost or applied twice (`ProgressIsLastLog`), none paid twice and all replies of one id alike (`RetriesPaidAndAnsweredOnce`), and the atomic history is implemented (`ImplementsReviewHistory`) | 2 requests, 2 fresh ids, a new word and one an EASY away from mastery, first time or after a lapse |
| `subscriptions` | one live order (`OneLiveOrder`), every day accounted for and the last payment kept (`EntitlementAccounted`), refinement of the orders (`ImplementsOrders`), every request answered (`EveryRequestAnswered`) | 3 requests, 2 polls, 3 codes, 2 jobs, 4 transfers of which two name one order and one pays the wrong amount; scenes checkout, crowd, settling, rewards |
| `chat_send` | one owner (`OneOwner`), one reply (`OneReplyPerMessage`), exact quota (`QuotaHolds`), every send ends (`EverySendEnds`) | 4 sends, 3 ids, 2 polls, quota 1 or 3, session of 2 exchanges; the default four models of one timeout each, a stream of another, under a claim of four timeouts: it can run out under the call, and then two owners and two replies do occur |
| `content` (`MCContent`) | see the next table | 674,010 states |
| `accounts` (`MCAccounts`) | secrets are redeemed once, every usable family is indexed unless it was issued under a sweep, and what was open before a reset or a block does not outlive its sweep (`SessionsSound`); mailed tokens die with a reset and an account is verified only by whoever reads its mail (`MailTokensSound`) | 4 requests, 2 families, 3 mailed tokens, 2 passwords, 2 rotations; scenes devices, recovery, signup, inbox; 90,627 states |
| `study` (`MCStudy`) | lesson steps fall back only by stale reports (`SetBackOnlyByStaleReport`); a day holds its seconds (`DayHoldsItsSeconds`); completion counts the turns (`EveryTurnCounted`); listening progress and documents (`ListeningSound`); roadmap and plan belong together (`RoadmapSound`); alignments are cheapest, plans acceptable, and a result that is opened later is reviewed as it was graded, unless its questions or answers changed since the grading read them (`AlgorithmsSound`) | 3 reporters; 2 heartbeats of 3 numbers over 2 days of 3 seconds; 2 sockets, 1 ticket each, 2 completions; 2 students' requests, 3 editors, documents of up to 4 sentences; 2 calls, 2 attempts; all sentences of up to 3 of two words; all subsets of seven resources, some for one goal or without an exercise, with sheets of answers of two goals; a paper of two questions with late answers, edits and gradings |
| `missed_day`, `completed_race`, `logout_everywhere`, `live_orphan` | each refutes one sentence of the repository, see [Findings](#findings) | the instances above |

`content` by subject (its one action property, `NothingTakenBack`, is
`AdminWorkKept`, `OnlyCreates` and `CompletionKept` together):

| subject | asks | bounds |
|---|---|---|
| `tasks` | the row against the history (`CacheFromHistory`, `ExactUnlessRaced`), one outcome per attempt id (`OneOutcomePerAttempt`), XP for passes and corrected mistakes (`PaidAsEarned`) | 3 requests, 2 questions, pass at 50 %, 2 attempt ids, hint levels to 2; scenes fresh, finishing, practice, traps |
| `rerun`, `repair` | an import that died is completed by the next one, once, with media that exist (`ImportResumes`), and takes nothing from an editor (`AdminWorkKept`) | 5 rows, of which one is there twice, one shared by two decks, one reported, one blank; one retry, two uploads at a time; 3 orders, a fourth after a crash; a crash or an edit |
| `decks` | guards and caps hold of decks nobody changed meanwhile, texts differ, progress keeps its words (`WordsSound`) | 2 editors, 3 decks, 4 words, a cap of 2 |
| `saved` | a review is applied once, and nothing else schedules a word no PATCH has scheduled; the free limit holds (`WordsSound`); the lists hold each word once, in order (`ListsAgree` in `ContentHolds`) | 3 requests, of which the third repeats one review or removes one word; a PATCH names the text, the lapses, or all that a page was shown; limit 3 |
| `course`, `editing`, `authoring` | never stuck but by what the author has to repair, work kept, places distinct, the course page adds up (`LessonsSound` in `ContentHolds`), completion kept (`CompletionKept`) | 3 lessons, 2 kinds of task, one student; nobody, one author or two; two attempts; a minute of 4 units, videos of 2 units or more can be completed |
| `topics`, `recordings` | published cards lead somewhere, nothing orphaned, late removals refused in words, places differ (`TopicsSound`); pages cover the catalogue (`PagesCover`), a recording that was published plays (`RecordingPlays`), both in `ContentHolds` | 3 families, 4 topics, 3 pieces, 3 hands (the third removes one topic); all documents of up to 3 sentences with times in -1 .. 2 |
| `question`, `bank` | a question that was accepted can be answered, and hints leave a choice (`QuestionFair`); a patched one too (`BankAnswerable`); both in `ContentHolds` | all questions of up to 3 options and 2 texts; 3 patches of 48 |
| `queue`, `zones` | limits, order, fairness between decks, quota, summaries (`QueueSound`); the start of a day (`DayStartsOnce`); both in `ContentHolds` | 4 words, 3 decks and a draft, 250 arrangements, 3 hours, 6 queries; every zone of 3-hour days that changes its clock by an hour once |
| `dictionary`, `entries` | bought once, charged once, translations kept (`WordsSound`); what is taken from an entry (`ExtractionSound` in `ContentHolds`) | 3 lookups of one word, 2 quota windows, 2 meanings and synonyms |
| `room`, `marks` | history exact, nothing missed, marks hold (`RoomSound`) | 3 posts, two of one message; page of 1, one socket, a restart or a clock that runs to its bound; 3 cursor requests |
| `bootstrap` | the manifest has every row that was created, and the status of a domain is true unless the answer to its COMMIT was lost; content is whole, migrations are proven (`BootstrapSafe`), only creates (`OnlyCreates`) | 2 runs, 2 domains, 3 rows, an edit, every pair of line endings, the statements of the second database in 4 places |

*Why the bounds are enough.* The races here are between two writers of one row,
or a writer and a duplicate of itself: two requests show each of them, and
three are given where a retry comes after another attempt, a third request
finds a dropped lock, or a row is removed under two others. Calendar questions
need a day before, today and a day after in two zones. Counters are bounded by
guards (`MaxInstant`, `Dates`, `GrantDays`, `MaxRecalls`, `MaxLapses`,
`MaxInterval`, `MaxXp`, `MaxDay`, `Months`, `MaxSecret`, `MaxEra`, `MaxFlush`,
`MaxTurns`, `MaxAsked`, `MaxSentence`, `MaxAttempts`, `MaxGenerations`,
`MaxOrders`, `MaxCrashes`, `MaxEdits`, `MaxRows`, `MaxTries`, `MaxNow`,
`MaxRestarts`, `MaxChanges`, `MaxDesk`, `MaxBreath`), and safety at the bounds
does not depend on them. The safety theorems below hold whatever
values they have.

*Deadlock* is checked in `gamification` and `word_review`, whose lock waits are
the point. In the others the system may stop: every request has been made, or a
walk has reached its end.

*Fairness.* `gamification` assumes strong fairness of each transaction's next
statement: a statement waits only for rows of open transactions, and PostgreSQL
queues lock waiters in order. `subscriptions` and `chat_send` assume weak
fairness of each request's own steps: the event loop resumes a handler whose
database, Redis or HTTP call has returned, and each of these has a timeout.
Nothing else is fair: crashes, disconnects, lapses, deliveries and clocks may
happen or not. The other modules state safety only: nothing in those components
waits for another request, so all they promise is about what is left behind.

## Proofs

Eight modules, checked by TLAPS to the last leaf. Each component's invariant has
one name, is a conjunction of named parts, and is proved by one lemma per action
or group of actions. Where many actions write the same few variables, one lemma
says what a step owes to keep the invariant (`RunOwes`, `SessionsKept`,
`CallsOwe`, `CreditedSame` ...) and each action only has to pay that.

| theorem | says | argument |
|---|---|---|
| `GamificationProofs!TotalAlwaysLedgerSum` | `totalPoints` is the ledger's sum | `LedgerInv`: an open transaction owes the sum of the rows it landed; rows in doubt are nobody else's, so sums of disjoint sets add up |
| `HooksAlwaysOncePerDay` | hooks run once per activity day | `HooksInv`: the day row a transaction created is in doubt for the rest until it ends |
| `LevelNeverAheadAlways` | the stored level is at most that of the stored total | `AwardInv`: the total a transaction computes with is one the ledger had reached, totals only grow, the curve is monotone |
| `Xp500AlwaysEarned` | XP_500 only from 500 other XP | the total it was decided on is a lower bound of the other rows |
| `BadgesAlwaysMatchHistory` | first badges exactly for those who earned them, streak badges only from days in a row with activity | `BadgeInv`: a first badge is in hand together with the row that proves it; the streak a transaction has counted is of instants that are activity for good (`activeAt`), although day rows and step rows may not stay |
| `WordReviewProofs!ProgressAlwaysLastLog` | a word's row is the result of its last log | `Reviewing`: whoever has a row in hand read the row that is there (`HeldAsRead`), and its log was made from it (`LogMade`) |
| `RetriesAlwaysPaidOnce` | a review is logged and paid once, all its answers are alike | `IdFresh`: the id a transaction logs is recorded nowhere else while it is open |
| `ReviewsImplementHistory` | the handlers implement `ReviewHistory` | COMMIT is an `Accept`, every other step a stutter |
| `CardsAlwaysShaped` | a card keeps to the scheduler's rules, and a better answer never brings a word back sooner | `CardsScheduled`: the first two recalls leave at most 4 and 16 days, so the mastery floor of three recalls is met whenever the one of 21 days is; `Rounded` keeps the order of multiples (`RoundedGrows`), whichever way a half goes |
| `SubscriptionsProofs!OneLiveOrderAlways` | one live order per user and plan, unless a lock lapsed under its holder | `OrdersInv`: one holder per lock, and a holder past its read has seen no live order |
| `SettlementImplementsOrders` | every step of webhooks, rewards and administrator is an orders step or a stutter | `Rows`: a job that goes on to settle holds its order, which is PENDING |
| `OneLiveOrderThroughout` | the live-order theorem with all of them running | the refinement and the theorem of the orders |
| `EntitlementAlwaysAccounted` | every day a subscription holds was paid, earned or granted, and none of those is missing | `Books`: what a job claimed is unpaid until it commits, what it wrote and what it has still to write are together the subscriptions that row owes days to, and two jobs have no row in common; `Credited` then grows by just those days |
| `ChatSendProofs!OneOwnerAlways`, `OneReplyAlways` | one request works on a message, it has one reply, unless the claim ran out under its call | for every TTL and chain, with no assumption about them: while a request works on a message that is not `outlived`, the pending claim of that message is there and is its own, so nobody else can have set one |
| `QuotaAlwaysHolds` | a month's counter is the number of requests that paid, within the limit each was read | `Quota`: a request pays once, on its way out of "quota", where the upsert compares with its own limit |
| `ContentProofs!CacheAlwaysFromHistory`, `OneOutcomeAlways`, `PassAlwaysPaid`, `TrapsAlwaysPaid` | four of the safety properties of `tasks` | `Lesson`: a stale row stays true because the history only grows, so the invariant asks of the rows requests carry what it asks of the stored ones |
| `ExactAlwaysUnlessRaced` | unless a newer row was overwritten, the row is what the history adds up to | `Counted`: whoever creates a row is alone with it and its task has no attempt yet; every other write that is no race is made from the row that is there |
| `RoomAlwaysSound` | scrolling skips nothing, a listener misses nothing, an answered mark stays | `RoomInv`: times and ids order the rows totally, so a row that is not listed is either above all that are, or was heard, is on the air or died with the process; this survives one more page because the page ends at its oldest row. `MarksInv`: a mark that may still create the cursor either finds none or was overtaken |
| `BootstrapAlwaysSafe` | manifests tell what runs wrote, production is whole, migrations agree | `BootInv`: the rows a run writes were settled while it compared, and from its manifest on the domains still to come are pending and untouched; a row is written with its parent, or to it, and an editor removes only what has no children |
| `BootstrapOnlyCreates` | no run changes or removes a row | a domain is only written where all its rows are still missing |
| `AccountsProofs!MailTokensAlwaysSound` | an address is verified, Google linked, only with proof; no link a reset saw outlives it | `Mailed`: whoever has read the account has the proof of what it will write about the address; a reset at work has in hand every live token but those issued since it looked, which carry it in `past` |
| `SessionsAlwaysSound` | a secret is redeemed once; sessions are indexed and die with a sweep, unless issued under one | `Kept`: what a sweep may have to delete is in the set it read, and what is not was indexed during a sweep |
| `StreakTogetherProofs!StreakAlwaysBacked` | a streak counts consecutive days both opened | `Together`: the pair a request has read, and the one it has written, are backed by the days as it will leave them; days are only added |
| `AlwaysAnsweredOnce` | an invitation is answered once | one holder per invitation, and what it holds is still PENDING |
| `EveryDayAlwaysCounted` | without overlaps, a day both opened counts at once | `OneByOne`: nobody opened a day that is still to come, and the one open request knows the last day its user can have opened |
| `StudyProofs!SetBackAlwaysByStaleReport` | a step is only set back by a report that read an older row | `StepsInv`: `writes` is the version of a row; a report at the current version has the current row, and combining keeps what it says |
| `TurnsAlwaysCounted` | one conversation per attempt, and its completion counts the turns saved | `SpeakInv`: one connection at most gets past a ticket (`OneConversation`), what is saved was begun (`OnlyBegun`), what a completion counted and what came late is all there is (`Tallied`) |
| `RoadmapAlwaysSound` | the roadmap has the level of the attempt it names, a plan belongs to its generation | `PlaceInv`: level and roadmap are written together, a plan is written where the generation is still the one it was asked for (`PlanOfRoadmap`), and what a call read only ever grew (`CallsOwe`) |
| `DayAlwaysHoldsItsSeconds` | a day holds no more than its seconds and one flush of each other device | `ClockInv`: what is credited *and* what is on its way stay within that; a heartbeat asks for what the day misses, and the others were counted at one flush each |
| `GamificationProofs!LevelAlwaysTabled` | the level is the last one a total affords, its bar is never full and never negative | the thresholds in closed form (`Thresholds`), so what a total affords is an interval that ends before the least level it does not (`LevelIsLast`) |
| `LinksAlwaysLead` | a link leads to what it was made for, for ever; dead is only one that another first request overlapped | `LinksInv`: every link has the request that made it, and one is replaced only where two requests found none |
| `BoardAlwaysAgrees` | the board and the percentile tell one story, and a percentile beyond 100 needs a pair that came between the two counts | `BoardInv`: what a ranking has counted is the board's, or something `moved`; those with at least my streak are the fewer the longer it is, and a quotient keeps the order (`Divides`) |
| `RowsAlwaysOfToday` | what is shown of today is a row of today's label, and the last one | the window of 24 hours is the interval of instants with that label (`DayOfRow`, `IntervalOf`); a finite or infinite set of such rows has a last one (`Smallest`, of the time that is left) |
| `StudyProofs!ListeningAlwaysSound` | progress is what the submissions add up to, a document is one that was saved | `ListenInv`: a row is the best of the attempts that were committed, and exactly that unless a stale one was written over a newer; a save that overlaps no other leaves places that are those of its document |
| `LessonsAlwaysSound` | a student is never stuck (but by a task without questions, or a last video that cannot be completed), what he did keeps its task, places differ, the course adds up | `CatalogueInv`: a task has its lesson, a lesson its course, an attempt its task and a row that counts it (`KeptInv`), through every author who acts on what he read (`AuthorSound`) |
| `CompletionAlwaysKept` | a completed lesson stays completed under the student | completion is a function of rows that only improve, but for a retake that leaves mistakes |
| `ContentProofs!AlwaysPaidAsEarned` | XP is paid for passes and for corrected mistakes | `Lesson`, and that an award is in the transaction of the row that earns it |
| `PersonalAlwaysSound`, `DictionaryAlwaysSound`, `VocabularyAlwaysSound`, `WordsAlwaysSound` | the three parts of `WordsSound`, and that conjunction | `PersonalInv`: the schedule of a word that no PATCH has scheduled is that of its reviews, and whoever holds a row of the current version read the row that is there, if only reviews have written it; `DictionaryInv`: what is spent is the number of lookups let in, what is settled is cached; `DecksInv`: what an editor waits to write was right of the deck he read, which is the deck unless it is outdated |
| `ListsAlwaysAgree` | lists and numbers of saved words agree, for every set of texts and of words due later | the columns of a row have their types after any PATCH, so the states part the words; and by induction on its reviews (`ColumnsHold`), a word is NEW only before its first, due while it is NEW, and struggled only if it was known before |
| `StudyProofs!TopicsAlwaysSound` | published cards lead somewhere, nothing is orphaned, a bare error is only the answer to a late removal | `TopicsInv`: a request that waits to write has a reason why its row is there, or the row `went` |
| `ContentProofs!QuestionsAlwaysFair` | a question the rules accept has one right reply, and a hint neither excludes it nor leaves it alone | distinct options stand in distinct places, so a wrong choice is another place, two places swapped are another order, and half of the wrong options are not all of them |
| `BankAlwaysAnswerable` | a placement question in the bank satisfies the rules, unless it changed between check and write | `BankInv`: whoever waits to write was right of the row he read |
| `RecordingsAlwaysPlay` | no moment of a published recording belongs to two sentences | the least later sentence that starts too early has a neighbour that does not (`Smallest`) |
| `PagesAlwaysCover` | the announced pages hold every recording once, and nothing follows them | a place on a page is one row and every row has one (`RowUnique`, `RowOnAPage`), by division with remainder (`Parts`) |
| `WordReviewProofs!ImportAlwaysResumes` | a run that ends is complete, nothing is imported twice, media exist | `ImportInv`: what a run will create is not in the bank, but for words that came during it (`CreateInv`); each row is known, failed or still to do (`Covered`); and once its deck is built it is there, or the deck is full of words and of places lost to repeats (`Placed`), which is a count over the rows in order (`Listed`) |
| `AdminWorkAlwaysKept` | an import takes nothing from an editor | a text an editor wrote is protected, or late, from the moment it is there (`OwnText`), and what a run is about to rewrite was not, when it looked |
| `QueueAlwaysSound` | sessions, announcements and summaries of the review queue, for every arrangement of decks and cards | a list in an order numbers its members by rank (`RankedLists`), so picking, sorting and dealing lose and repeat nothing; the first word of a deck that waits is of a later round than the last word dealt of a deck two ahead (`NoDeckPassedOver`); a word has one card, so the states part the rated ones (`Summarized`) |
| `Typed` (six modules) | types | part of each invariant |

`LevelNeverAhead` is proved and not run: the proof covers what a run would.
`AdminWorkAlwaysKept`, `BootstrapOnlyCreates` and `CompletionAlwaysKept` are the
three conjuncts of `NothingTakenBack`; `LessonsAlwaysSound`,
`QuestionsAlwaysFair`, `BankAlwaysAnswerable`, `RecordingsAlwaysPlay`,
`PagesAlwaysCover`, `ListsAlwaysAgree` and `QueueAlwaysSound` are parts of
`ContentHolds`, and `LevelAlwaysTabled`, `CardsAlwaysShaped` (which says of the
cards that requests leave what the run asks of one word), `LinksAlwaysLead`,
`BoardAlwaysAgrees` and `RowsAlwaysOfToday` are all of `RulesAsTabled`; the
three components of `WordsAlwaysSound` are those of `WordsSound`. The other
theorems of the table state properties that the runs also check.

*Assumptions.* Each module names what it asks of its constants. Sets are finite
where they are counted (`Users`, `Codes`, `Posts`, and `Beats`, which is not
empty either: a study day needs a device); bounds are naturals; `None` is none
of the rows that stand beside it (`UserRows`, `SubType`, `StepRowType`,
`AttemptType`, `TestType`, `RoadmapType`, `ManifestType`), which TLC gets from a
model value; a past, a scene or a first database is one the program can have
left (`PastsAssumption`, `SceneAssumption`, `StreakAssumption`,
`WordReviewAssumption`, in whose past each card was scheduled from the one
before it, `BootstrapAssumption`). The same is asked of the components whose
data an operator or an author supplies: words, decks, topics, lessons and saved
words stand in their first rows as the program leaves them, with distinct places
and texts where an index or a guard sees to it (`PersonalAssumption`,
`DeckAssumption`, `TopicsAssumption`, `CatalogueAssumption`), and a call names
rows of the instance. `ListeningAssumption` keeps sentence numbers below the
offset at which they are parked, `DictionaryAssumption` and `BoardAssumption`
have limits that are naturals, and `ImportAssumption` a table that is a
sequence, of any rows. `ReviewQueueAssumption` has finitely many numbered words,
rows that hang only words that are there, and cards of words that were rated,
which are not NEW any more. `BankAssumption` starts the bank with a question
that was accepted, and gives a patch fields of the shapes the columns hold.
`GamificationAssumption` says that a call which touches a step counts as
activity, as each caller does. `BootstrapAssumption` adds what the registry of
models is: each comes up once, and production starts whole. TLC evaluates all of
them in the runs. `PersonalAssumption` also types the body of a PATCH, as Prisma
does. No theorem has a hypothesis of its own.

*What the proofs changed.* Some definitions could not be reasoned about because
they were not right. A revoke of a subscription that does not exist could also
be taken for an extension, so `NothingToRevoke` is now part of both guards. The streak
badge was stated over the day rows, which a zone that is learned later does not
follow; it is stated over the instants of activity. The best result of a task is
compared in percent, as the column holds it, and not in right answers. A Google
sign-in that creates its user had the program counter of a registration. The
branches after a find in the library had guards that overlapped. An import that
fills a deck was said to leave out only what the cap leaves out, but a row that
is there twice costs a place as well (see the observations). An upload that is
retried kept no place with the limiter.

*What a reading against the code changed.* Five definitions were narrower than
what they stand for, and the properties over them said too much. A claim was assumed
to outlast its call, which at the defaults it does not: the run now has the code's
proportions, and the chat theorems need no assumption. The transaction of a reset was
one step, so it saw every link: it now looks by statements. An answer to the
placement test could not land after its grading. A PATCH of a saved word wrote its text
only. Every video could be watched to its end. In each case the property now names
what it does not cover, and the excluded case occurs in its run.

*Only model-checked.* Liveness (`EveryCallEnds`, `EveryRequestAnswered`,
`EverySendEnds`), which needs ENABLED and is out of the prover's reach. What
recursive definitions compute for every input: the days of `StreakKeepsItsDays`,
the alignments, plans and papers of `AlgorithmsSound`, and the zones and the
entries of `ContentHolds` (`DayStartsOnce`, `ExtractionSound`). These would need
induction over data, or are functions that the run evaluates on every input of
the instance. The proofs of the composed runs are about the components' own
specifications: a run that joins `subject`s moves one of them and leaves the
others alone.

## Findings

Four sentences of the repository that a run refutes. `PROJECT.json` quotes them.

1. `missed_day` (`MissedDayBreaks`): "a fully-past day with no qualification
   breaks the streak" (`streak.service.ts:873`). The partner ahead breaks it
   over a day that is not over for the other.
2. `completed_race` (`CompletedStays`): completedAt is "never cleared on a later
   failed retry" (`quiz.service.ts:788`). A failing submit that read the row
   before a passing one committed clears it.
3. `logout_everywhere` (`SweepSeesAll`): `revokeAllForUser` "revokes every
   refresh-token family" (`refresh-token.service.ts:235`). A family indexed
   between its SMEMBERS and its last DEL keeps working, and no later sweep can
   find it.
4. `live_orphan` (`NobodyTalksAlone`): a client that disconnects has its session closed
   (`speaking-live-session.ts:155`). One that leaves while the handshake still
   awaits is not found by `handleDisconnect`; its conversation is opened
   afterwards and stays open.

Observations met on the way. Each follows from the code and was seen in a model
or while writing one; the properties of the runs are stated so that they exclude
these cases by name (`overrun`, `unwound`, `crossed`, ...) or do not speak of them.

- *Gamification.* "level == levelForXp(totalPoints)" (`schema.prisma:241`): two
  awards landing at once leave the level behind the total until the next award.
  The student who passes 500 XP should get the badge "in that same response",
  but the XP of badges unlocked by the same call is added after the badges were
  decided (`gamification.service.ts:260-285`). After a zone is learned, the hot
  path (191-198) may take a day row to exist that does not. Step rows overwrite
  `lastActivityAt`, so a past day can leave the streak scan.
- *Scheduler.* On the second recall EASY gives three days and GOOD six. With an
  ease below 1.5 an interval of one day never grows under GOOD. HARD in
  relearning never moves the interval off one day.
- *Learning.* A concurrent duplicate of a `clientReviewId` may end in an
  unhandled unique violation (500) instead of a replay; the client's retry is
  then replayed. The comment on `QUEUE_CANDIDATE_SCAN_MULTIPLIER`
  (`learning.service.ts:41-44`) says that a huge deck's backlog cannot crowd out
  a smaller deck, but only three times the limit of overdue rows is scanned
  before the deal. The quota of new words is enforced when a queue is loaded: one
  loaded before midnight, or in another tab, can exceed it. The progress pages
  use the request's zone where the queue uses the stored one. Where clocks go
  back over midnight, `startOfDayInTimeZone` returns the second midnight.
- *Payment.* The DEL of the create lock has no owner token, so a holder slower
  than the TTL drops its successor's lock: `OneLiveOrder` excludes those keys
  (`overrun`). A second transfer for one order is silently without effect. Users
  who invited each other can deadlock on their first active days; one
  transaction is rolled back with the learning action in it.
- *Chat.* The claim lives "comfortably longer than the Gemini call itself", but
  the call is a chain of four models by default (`gemini-models.ts:18`), each
  with the whole timeout, and a stream without any, under a claim of one timeout
  and a minute (`chat.service.ts:167-178`): 80 s for 80 s and a stream. When it
  runs out a duplicate calls Gemini too, and the message has two replies, in the
  session and to its senders. That happens in the run, and `OneOwner` and
  `OneReplyPerMessage` exclude those messages (`outlived`). A failing `getTurns`
  after the claim blocks the message until the TTL; a failing append drops a
  reply a duplicate may have been given (`unwound`); a replay consumes a unit of
  quota; a session cleared under a running send gets that turn back.
- *Lesson tasks.* A retried submit "replays the original graded result"; with a
  question left out it is refused (409) once another attempt came in between
  (`quiz.service.ts:653`). Two answers sent at once may lose one, or replace the
  first verdict of a question (461-507). Practice checks its prerequisites
  unlocked and may finish with traps outstanding. A retake of a completed quiz
  with mistakes opens the trap stage again.
- *Lesson steps and listening.* "Nothing may ever clear it"
  (`lesson-step.service.ts:229`), "monotonic" and "never cleared"
  (`dictation.service.ts:185`, `shadowing.service.ts:218`, `schema.prisma:1492`)
  do not hold of a writer that read before another wrote.
- *Catalogue.* The length of a video is written once
  (`lesson-step.service.ts:192-209`), so a lesson whose video is replaced by a
  shorter one may not be completed any more; neither can one whose video is under
  30 s without authored minutes (`MIN_COMPLETABLE_DURATION_SECONDS`, meant for
  dishonest reports), or whose author states more minutes than the file has. When
  nothing else is left the student is stuck; `NeverStuck` excludes it as
  `misauthored`. `upsertTask` accepts a PUBLISHED quiz without questions,
  which `publishTask` refuses. An update may clear video and audio of a
  published lesson. Two creates at once share an `orderIndex`, which makes one
  more lesson free.
- *Questions.* `validateQuestionContent` accepts the same option id twice for
  MULTIPLE_CHOICE. `upsertTask` refuses repeats itself (`quiz.service.ts:980-987`), so
  the questions that hints are about have distinct ids, as `HintsLeaveChoice` asks;
  the placement bank has no such check. The letter hint counts the characters of a
  text as it was saved, blanks around it included. Two patches of one placement
  question at once can leave an invalid one; `BankAnswerable` excludes them
  (`crossed`).
- *Topics.* Two creates at once share a position; a piece moved to another topic
  keeps its own. Publishing a recording while its category is being unpublished
  leaves it published under a draft. A row removed meanwhile makes a create,
  update or delete end in a raw 500. `findCatalog`'s three queries are not one
  snapshot. `assertNoLearnerData` decides nothing that the foreign keys do not.
  Vocabulary lists libraries with nothing in them; scenarios are hidden then.
- *Streak Together.* When both partners open a day at once neither transaction
  sees the other's row; unless somebody views the pair that day, the day goes
  uncounted and the next one breaks the streak. A stale `Advance` on a pair
  broken meanwhile leaves it BROKEN with a positive count. Accepting a leftover
  invitation, or a link read before the pair became active, resets a running
  streak. Concurrent views may announce one milestone twice. Two first requests
  for a share or invitation link at once: the second overwrites the token that
  the first was given, whose link is then dead, against "Never expires, never
  rotated". The percentile is two counts, so a pair that starts between them
  can put more pairs ahead than there are.
- *Auth.* `schema.prisma:213-217` says the JWT strategy reads no row;
  `jwt.strategy.ts:85-97` reads `isActive` each time. A reset token is called
  single-use, but `resetPassword` does not look at `consumedAt` again inside its
  transaction, so two resets may both go through. A reset consumes the tokens its
  statements find (`auth.service.ts:1072-1085`); a link that an issue commits while
  the reset is past them, or waits for the row that issue has locked
  (1171-1179), stays live, against "every remaining PasswordResetToken"
  (`past`). A reset answers 200 although Redis failed under its sweep
  (1101-1118); its sessions then live on, and `SessionsSound` speaks only of
  sweeps that ended (`closed`). A login that checked the old
  password before a reset can open its session after the sweep. `changePassword`
  may overwrite the password of a reset and leaves sessions and tokens alone
  (`user.service.ts:277-297`). `auth-rate-limit.guard.ts:38-44` says that every
  bucket counts every request; the code below it stops at the first full one.
- *Speaking.* A second completion running at once overwrites `turnCount`
  ("written EXACTLY ONCE" in the schema). The history keeps twelve exchanges, so
  the count stops at twelve. Turns may land after the completion.
- *Placement.* `finalizeNow` says both paths "compute the same deterministic
  score from the same persisted answers" (`placement.service.ts:664-670`): an
  answer between two gradings gives two levels. `answer` checks the attempt and
  writes later (`placement.service.ts:277-311`), so an answer may land after the
  only grading: the counts and the review of the result then show it, the stored
  score does not. `ReviewAgrees` excludes a section in which that, or an edit,
  happened. Two starts at once create two attempts, and the one nobody works at
  is graded when its time is up and overwrites the roadmap. An analysis that was
  bought for an older roadmap is written onto a retaken one. A deleted question
  is said to score as incorrect (`placement-question.service.ts:203-208`) and is
  left out of the divisor. The comments still say 12 questions and 5 minutes;
  the constants are 24 and 10. A stored roadmap is joined with the rows of today
  by their ids (`joinLiveResources`): a resource that was meant for another goal
  since, or a scenario that lost its exercises, is still shown, although neither
  would be offered to a new one.
- *Listening.* After two overlapping saves a leftover sentence stays parked at its
  offset, and a later save that keeps it may fail. A save after publishing can
  break the rules of publishing. Two requests for feedback at once buy two.
- *Vocabulary.* A PATCH of a saved word is spread into the update
  (`vocab-personal.service.ts:338`) under a pipe without a whitelist
  (`main.ts:81`), which `lesson.service.ts:159-162` and
  `vocab-deck.service.ts:296-299` warn of: a client that sends back the word it
  was shown puts its schedule, and its version, back to what they were.
  `ReviewsApplied` is about the words no PATCH has scheduled (`shapedBy`). Two
  `attachWords` at once can exceed 500 words or share a place; a detach during a
  publish leaves an empty published deck; `removeDeck` may delete one published
  meanwhile, and a deck with guess progress only fails (P2003). Publishing,
  unpublishing or reordering changes which two decks are free.
  `schema.prisma:2288` promises a retry that `submitReview` of personal words
  does not make; a replay there answers with the word as it is now. Tomorrow is
  now + 24 h, also on days of 25. The limit of `bulkCreate` counts lines it
  would skip.
- *Import.* An upsert five seconds after the creation bumps `updatedAt`, so the
  import protects its own words from its next run unless `--force` is given. A
  `media --limit N` run leaves a manifest with N entries only. The manifest is
  not written atomically. `attachWords` cuts to the cap before duplicates are
  skipped (`deck-builder.service.ts:148-177`), and rows that repeat a word of a deck
  are only warned about (`import-validator.service.ts:48`), so a repeat near the
  cap keeps a word out of a deck that is not full; `ImportComplete` counts the
  repeats. Library and deck names are not unique: one operator at
  a time is assumed.
- *Community chat.* `createdAt` is taken before the commit, so a message that
  commits late below a reader's cursor is never unread. Two first `markRead`s at
  once can lose the later mark. A broadcast lost in a restart is not repeated.
- *Bootstrap.* A lost COMMIT answer makes the manifest say "failed" of a domain
  that was written, a crash before it is recorded leaves "pending"; the rows are in the
  manifest's plan either way. The identity of source and destination ignores the port
  and tells localhost from 127.0.0.1. Two overlapping runs plan the same rows; the
  second fails at the first of them.
- *Dictionary.* Lookups at once may overwrite a translated entry by one without a
  translation, for 30 days; so may one whose read of the cache failed. An entry
  without a definition is answered 200 and cached, where a comment promises 404.
  An empty first definition hides the later ones. The quota is charged for a 404
  or 503 too.

## Not modelled, and known gaps

*Inside the modelled components:* signature checks and input validation, unless a
property is about them; formatting, prompts, slugs, thumbnails and search; DST in
Streak Together; several users in one `Gamification` scene (the module and its
theorems allow any number); the race of `getOrCreateCode`; the life of a chat
claim after its reply; the owner and the ids of a saved word in the body of a PATCH;
several pairs per user, zone changes of a pair, the
ceiling on active pairs; the sampling of placement
questions; reordering of lessons; meanings and media of a word; `suggest`; a chat
socket that closes during its handshake and stays in `clients`.

*Folded into one step:* a Redis script or pipeline; the write of a domain by the
bootstrap, which is one transaction; a query of several tables in a single
statement. Instants at which rows are written are distinct.

*Not modelled at all:* the access-token blacklist and the JWT guard, the rate
limits of REST routes, notifications (inserts and read flags), mail,
configuration, health, the Prisma wrapper and shared helpers, the seed scripts
and the static data they load (`prisma/seeds/`). None of them coordinates two
requests.

*Sharing one run.* The subjects of `content` do not run at the same time. Where
two components really meet in one row (authors and students in `Catalogue`,
import and editor in `VocabImport`, rewards and orders in `Subscriptions`, auth
rows and sessions in `Accounts`) they are in one module and do.

## What is left

1. An abstract ledger that `Gamification` implements (a key is paid in one
   step), so that the engines can be composed with it.
2. Several pairs per user in Streak Together, with the ceiling on active pairs
   and changes of a member's zone.
3. The narrative summary of a roadmap against a retake, for which no property
   stands yet.
