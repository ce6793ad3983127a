--------------------------- MODULE StreakTogether ---------------------------
(***************************************************************************)
(* Streak Together (src/streak): the streak one pair of users keeps, the   *)
(* invitations that start it, the hook that recordProgress runs when one   *)
(* of them opens a day, and the recompute and restart that every view of   *)
(* the pair runs.                                                          *)
(*                                                                         *)
(* A request is one transaction of single statements under READ COMMITTED: *)
(* it reads the pair without a lock, decides, and updates the row by id.   *)
(* An update waits for a rival that has the row in hand and then replaces  *)
(* its own columns of the row as it is by then.  What a request wrote is   *)
(* private until Commit.                                                   *)
(*                                                                         *)
(* Notifications are rows that no handler reads back; they, names and the  *)
(* limits on how many pairs a user has are left out.  The links that lead  *)
(* to a pair or a member, and what is shown of the streaks of all pairs,   *)
(* come last: they are reads and writes of their own.                      *)
(***************************************************************************)
EXTENDS DayWindow, Sequences

CONSTANTS Requests,     \* the requests that can be open at once
          Invites,      \* the invitations the two may send each other
          MaxInstant,   \* bound on the clock
          Pasts,        \* what the two may have done before: their zones, the
                        \* days they opened, the pair and the invitations
          BoardPairs,   \* the pairs that are compared with each other
          MaxStreak,    \* bound on their streaks
          MIN_PAIRS_FOR_PERCENTILE, LEADERBOARD_LIMIT

Members  == {"low", "high"}      \* canonicalPair
other(u) == IF u = "low" THEN "high" ELSE "low"

Never  == -1
NoPair == [status |-> "none", currentStreak |-> 0, longestStreak |-> 0,
           lastQualifiedDay |-> Never]
PairType ==
    [status : {"none", "ACTIVE", "BROKEN"}, currentStreak : Nat, longestStreak : Nat,
     lastQualifiedDay : Nat \cup {Never}]

(* A streak of n days that ends on its last qualified day has n days that  *)
(* both have opened.                                                       *)
Backed(row, days) ==
    /\ row.currentStreak <= row.longestStreak
    /\ row.currentStreak > 0 => row.lastQualifiedDay # Never
    /\ \A d \in row.lastQualifiedDay - row.currentStreak + 1 .. row.lastQualifiedDay :
          row.currentStreak > 0 => d \in days["low"] /\ d \in days["high"]

(* Every day that both have opened is counted, or behind one that is.      *)
Counted(row, days) ==
    row.status = "ACTIVE" /\ row.lastQualifiedDay # Never =>
        \A d \in days["low"] \cap days["high"] : d <= row.lastQualifiedDay

NoInvite   == [status |-> "none", by |-> "low", expired |-> FALSE, recent |-> FALSE]
InviteType ==
    [status : {"none", "PENDING", "ACCEPTED", "DECLINED", "CANCELLED"}, by : Members,
     expired : BOOLEAN, recent : BOOLEAN]

ASSUME StreakAssumption ==
    /\ MaxInstant \in Nat
    /\ Pasts \subseteq [now : Nat, zone : [Members -> Zones], days : [Members -> SUBSET Nat],
                       pair : PairType, invites : [Invites -> InviteType]]
    /\ \A past \in Pasts :
          /\ Backed(past.pair, past.days) /\ Counted(past.pair, past.days)
          /\ \A u \in Members : \A d \in past.days[u] :
                d <= formatDayInTimeZone(past.now, past.zone[u])
          /\ \A i \in Invites : past.invites[i].status \in {"none", "PENDING"}

ASSUME BoardAssumption ==
    /\ IsFiniteSet(BoardPairs) /\ MaxStreak \in Nat
    /\ MIN_PAIRS_FOR_PERCENTILE \in Nat \ {0} /\ LEADERBOARD_LIMIT \in Nat \ {0}

VARIABLES now, zone,
          dayRows,     \* UserDailyActivity: the days each has opened
          pair,        \* the StreakPair row
          invites,     \* the StreakInvitation rows
          request,     \* the requests
          answers,     \* history: how often an invitation was answered with 200
          overlapped   \* history: two requests were open at once

vars == <<now, zone, dayRows, pair, invites, request, answers, overlapped>>

Idle ==
    [pc |-> "idle", kind |-> "none", who |-> "low", label |-> Never,
     labels |-> [u \in Members |-> Never],
     seen |-> NoPair,        \* the pair as it was last read
     wrote |-> FALSE, row |-> NoPair,   \* the pair it will leave behind
     invite |-> "none",      \* the invitation it works on ...
     holds |-> FALSE,        \* ... and has updated
     asked |-> {}]

Open(r)   == request[r].pc # "idle"
Rivals(r) == {s \in Requests \ {r} : Open(s)}
labelOf(u) == formatDayInTimeZone(now, zone[u])

Init ==
    /\ \E past \in Pasts :
          /\ now = past.now /\ zone = past.zone /\ dayRows = past.days
          /\ pair = past.pair /\ invites = past.invites
    /\ request = [r \in Requests |-> Idle]
    /\ answers = [i \in Invites |-> 0]
    /\ overlapped = FALSE
-----------------------------------------------------------------------------
OnlyRequest == UNCHANGED <<now, zone, dayRows, pair, invites, answers, overlapped>>

Become(r, new) == request' = [request EXCEPT ![r] = new] /\ OnlyRequest

Begin(r, new) ==
    /\ ~Open(r)
    /\ request' = [request EXCEPT ![r] = new]
    /\ overlapped' = (overlapped \/ Rivals(r) # {})
    /\ UNCHANGED <<now, zone, dayRows, pair, invites, answers>>

(* The pair as a statement of r sees it, and the lock of its row.          *)
Visible(r) == IF request[r].wrote THEN request[r].row ELSE pair
RowFree(r) == \A s \in Rivals(r) : ~request[s].wrote

(* The update of some columns of the pair, by id. *)
WritePair(r, row, pc) ==
    /\ RowFree(r)
    /\ Become(r, [request[r] EXCEPT !.wrote = TRUE, !.row = row, !.pc = pc])

(* Where a request goes once a day has been dealt with. *)
afterDay(r) == IF request[r].kind = "study" THEN "commit" ELSE "refresh"

(* processPairActivity, up to its first query: a day at or behind the last *)
(* qualified one is done with, and a gap breaks the streak.                *)
verdict(row, label) ==
    IF row.lastQualifiedDay # Never /\ label <= row.lastQualifiedDay THEN "done"
    ELSE IF row.lastQualifiedDay # Never /\ label - row.lastQualifiedDay > 1 THEN "break"
    ELSE "partner"

processPairActivity(r, seen, label) ==
    LET v == verdict(seen, label)
    IN  [request[r] EXCEPT !.seen = seen, !.label = label,
                           !.pc = IF v = "done" THEN afterDay(r) ELSE v]

Break(r) ==
    /\ request[r].pc = "break"
    /\ WritePair(r, [Visible(r) EXCEPT !.status = "BROKEN", !.currentStreak = 0], afterDay(r))

(* Mutant: one partner's day is enough. *)
FindPartnerDayUnasked(r) ==
    /\ request[r].pc = "partner"
    /\ Become(r, [request[r] EXCEPT !.pc = "advance"])

(* Without the partner's row for the day there is nothing to count yet.    *)
FindPartnerDay(r) ==
    /\ request[r].pc = "partner"
    /\ Become(r, [request[r] EXCEPT !.pc =
          IF request[r].label \in dayRows[other(request[r].who)] THEN "advance" ELSE afterDay(r)])

larger(a, b) == IF a > b THEN a ELSE b

nextStreak(seen, label) ==
    IF seen.lastQualifiedDay # Never /\ label - seen.lastQualifiedDay = 1
    THEN seen.currentStreak + 1 ELSE 1

Advance(r) ==
    LET seen == request[r].seen  next == nextStreak(seen, request[r].label) IN
    /\ request[r].pc = "advance"
    /\ WritePair(r, [Visible(r) EXCEPT !.currentStreak = next,
                        !.longestStreak = larger(seen.longestStreak, next),
                        !.lastQualifiedDay = request[r].label],
                 afterDay(r))

-----------------------------------------------------------------------------
(* onUserActivityDay, in the transaction that opens a day                  *)

(* The insert of (user, day) waits for a rival that inserts the same row,  *)
(* and the hook runs only if it created it.                                *)
OpenDay(r, u) ==
    /\ \A s \in Rivals(r) : ~(request[s].kind = "study" /\ request[s].who = u
                              /\ request[s].label = labelOf(u))
    /\ labelOf(u) \notin dayRows[u]
    /\ Begin(r, [Idle EXCEPT !.pc = "find", !.kind = "study", !.who = u, !.label = labelOf(u)])

FindActive(r) ==
    /\ request[r].pc = "find"
    /\ Become(r, IF pair.status = "ACTIVE" THEN processPairActivity(r, pair, request[r].label)
                 ELSE [request[r] EXCEPT !.pc = "commit"])

-----------------------------------------------------------------------------
(* getStreakDetail and listMyStreaks                                       *)

(* The pair is read before the transaction begins. *)
View(r) ==
    /\ pair.status # "none"
    /\ Begin(r, [Idle EXCEPT !.kind = "view", !.seen = pair,
                    !.pc = IF pair.status = "ACTIVE" THEN "recompute" ELSE "restart"])

BothOpened(r) == \A u \in Members : labelOf(u) \in dayRows[u]

(* maybeAutoRestartPair: each on their own today. *)
CheckBoth(r) ==
    /\ request[r].pc = "restart"
    /\ Become(r, [request[r] EXCEPT !.pc = IF BothOpened(r) THEN "reset" ELSE "commit"])

(* Mutant: a restart keeps the last qualified day. *)
restartedFromDay(row) == [row EXCEPT !.status = "ACTIVE", !.currentStreak = 0]

restarted(row) ==
    [row EXCEPT !.status = "ACTIVE", !.currentStreak = 0, !.lastQualifiedDay = Never]

Reset(r) ==
    /\ request[r].pc = "reset"
    /\ RowFree(r)
    /\ Become(r, [request[r] EXCEPT !.wrote = TRUE, !.row = restarted(Visible(r)),
                                    !.seen = restarted(Visible(r)), !.pc = "recompute"])

(* recomputePairState tries each side's own today in turn. *)
Recompute(r) ==
    /\ request[r].pc = "recompute"
    /\ Become(r, [request[r] EXCEPT !.labels = [u \in Members |-> labelOf(u)],
                                    !.who = "low", !.pc = "attempt"])

(* The next side's turn, or the end. *)
afterTurn(r, seen) ==
    [request[r] EXCEPT !.seen = seen, !.who = "high",
                       !.pc = IF request[r].who = "low" THEN "attempt" ELSE "commit"]

Attempt(r) ==
    LET seen == request[r].seen  u == request[r].who  label == request[r].labels[u] IN
    /\ request[r].pc = "attempt"
    /\ Become(r, IF seen.status # "ACTIVE" THEN [request[r] EXCEPT !.pc = "commit"]
                 ELSE IF seen.lastQualifiedDay = label \/ label \notin dayRows[u]
                 THEN afterTurn(r, seen)
                 ELSE processPairActivity(r, seen, label))

Refresh(r) ==
    /\ request[r].pc = "refresh"
    /\ Become(r, afterTurn(r, Visible(r)))

-----------------------------------------------------------------------------
(* Invitations and invite links                                            *)

(* sendInvitation asks for a pending invitation and for a recent decline,  *)
(* in either direction, in two queries side by side.                       *)
Send(r, u) ==
    Begin(r, [Idle EXCEPT !.pc = "ask", !.kind = "send", !.who = u])

blocks(invite, question) ==
    IF question = "pending" THEN invite.status = "PENDING" /\ ~invite.expired
    ELSE invite.status = "DECLINED" /\ invite.recent

Ask(r, question) ==
    LET asked == request[r].asked \cup {question} IN
    /\ request[r].pc = "ask" /\ question \notin request[r].asked
    /\ Become(r, IF \E i \in Invites : blocks(invites[i], question) THEN Idle
                 ELSE [request[r] EXCEPT !.asked = asked,
                         !.pc = IF asked = {"pending", "declined"} THEN "invite" ELSE "ask"])

CreateInvite(r, i) ==
    /\ request[r].pc = "invite" /\ invites[i].status = "none"
    /\ invites' = [invites EXCEPT ![i] = [NoInvite EXCEPT !.status = "PENDING",
                                                          !.by = request[r].who]]
    /\ request' = [request EXCEPT ![r] = Idle]
    /\ UNCHANGED <<now, zone, dayRows, pair, answers, overlapped>>

(* acceptInvitation reads the invitation; an expired one is refused. *)
Accept(r, i) ==
    /\ invites[i].status # "none" /\ ~invites[i].expired
    /\ Begin(r, [Idle EXCEPT !.pc = "claim", !.kind = "accept",
                             !.who = other(invites[i].by), !.invite = i])

InviteFree(i) == \A s \in Requests : ~(request[s].holds /\ request[s].invite = i)

(* Mutant: the update does not look at the status again. *)
StillExists(i) == invites[i].status # "none"

StillPending(i) == invites[i].status = "PENDING"

(* updateMany where status = PENDING: the row is waited for and looked at  *)
(* again, and whoever comes second is refused.                             *)
Claim(r) ==
    /\ request[r].pc = "claim" /\ InviteFree(request[r].invite)
    /\ Become(r, IF StillPending(request[r].invite)
                 THEN [request[r] EXCEPT !.holds = TRUE, !.pc = "upsert"] ELSE Idle)

(* acceptInviteLink: an active pair is returned as it is. *)
JoinByLink(r, u) ==
    /\ pair.status # "ACTIVE"
    /\ Begin(r, [Idle EXCEPT !.pc = "upsert", !.kind = "link", !.who = u])

(* createOrRestartPair: the upsert returns relations, so it is a read and  *)
(* then an insert or an update, whatever the pair has become meanwhile.    *)
FindPair(r) ==
    /\ request[r].pc = "upsert"
    /\ Become(r, [request[r] EXCEPT !.pc = IF pair.status = "none" THEN "create" ELSE "update"])

CreatePair(r) ==
    /\ request[r].pc = "create" /\ pair.status = "none"
    /\ WritePair(r, [NoPair EXCEPT !.status = "ACTIVE"], "commit")

(* The unique (userLowId, userHighId): the transaction fails. *)
CreateTwice(r) ==
    /\ request[r].pc = "create" /\ pair.status # "none"
    /\ Become(r, Idle)

UpdatePair(r) ==
    /\ request[r].pc = "update"
    /\ WritePair(r, restarted(Visible(r)), "commit")

(* declineInvitation and cancelInvitation: one conditional update. *)
Answer(i, status) ==
    /\ status \in {"DECLINED", "CANCELLED"}
    /\ StillPending(i) /\ InviteFree(i)
    /\ invites' = [invites EXCEPT ![i].status = status, ![i].recent = TRUE]
    /\ answers' = [answers EXCEPT ![i] = @ + 1]
    /\ UNCHANGED <<now, zone, dayRows, pair, request, overlapped>>

(* Seven days and twenty-four hours. *)
InviteExpires(i) ==
    /\ invites[i].status = "PENDING" /\ ~invites[i].expired
    /\ invites' = [invites EXCEPT ![i].expired = TRUE]
    /\ UNCHANGED <<now, zone, dayRows, pair, request, answers, overlapped>>

CooldownEnds(i) ==
    /\ invites[i].status = "DECLINED" /\ invites[i].recent
    /\ invites' = [invites EXCEPT ![i].recent = FALSE]
    /\ UNCHANGED <<now, zone, dayRows, pair, request, answers, overlapped>>

-----------------------------------------------------------------------------
Commit(r) ==
    LET q == request[r] IN
    /\ q.pc = "commit"
    /\ pair' = Visible(r)
    /\ dayRows' = IF q.kind = "study" THEN [dayRows EXCEPT ![q.who] = @ \cup {q.label}] ELSE dayRows
    /\ invites' = IF q.holds THEN [invites EXCEPT ![q.invite].status = "ACCEPTED"] ELSE invites
    /\ answers' = IF q.holds THEN [answers EXCEPT ![q.invite] = @ + 1] ELSE answers
    /\ request' = [request EXCEPT ![r] = Idle]
    /\ UNCHANGED <<now, zone, overlapped>>

(* A failed statement, a timeout or a crash. *)
Rollback(r) == Open(r) /\ Become(r, Idle)

Tick ==
    /\ now < MaxInstant
    /\ now' = now + 1
    /\ UNCHANGED <<zone, dayRows, pair, invites, request, answers, overlapped>>

Run(r) ==
    \/ FindActive(r) \/ Break(r) \/ FindPartnerDay(r) \/ Advance(r)
    \/ CheckBoth(r) \/ Reset(r) \/ Recompute(r) \/ Attempt(r) \/ Refresh(r)
    \/ Ask(r, "pending") \/ Ask(r, "declined") \/ Claim(r)
    \/ FindPair(r) \/ CreatePair(r) \/ CreateTwice(r) \/ UpdatePair(r) \/ Commit(r)

Next ==
    \/ \E r \in Requests : Run(r) \/ Rollback(r) \/ View(r)
    \/ \E r \in Requests, u \in Members : OpenDay(r, u) \/ Send(r, u) \/ JoinByLink(r, u)
    \/ \E r \in Requests, i \in Invites : Accept(r, i) \/ CreateInvite(r, i)
    \/ \E i \in Invites : \/ Answer(i, "DECLINED") \/ Answer(i, "CANCELLED")
                          \/ InviteExpires(i) \/ CooldownEnds(i)
    \/ Tick

Spec == Init /\ [][Next]_vars
-----------------------------------------------------------------------------
(* Properties                                                              *)

RequestType ==
    [pc : {"idle", "find", "break", "partner", "advance", "restart", "reset", "recompute",
           "attempt", "refresh", "ask", "invite", "claim", "upsert", "create", "update",
           "commit"},
     kind : {"none", "study", "view", "send", "accept", "link"}, who : Members,
     label : Nat \cup {Never}, labels : [Members -> Nat \cup {Never}],
     seen : PairType, wrote : BOOLEAN, row : PairType, invite : Invites \cup {"none"},
     holds : BOOLEAN, asked : SUBSET {"pending", "declined"}]

(* Every variable has its type. *)
TypeOK ==
    /\ now \in Nat /\ zone \in [Members -> Zones]
    /\ dayRows \in [Members -> SUBSET Nat]
    /\ pair \in PairType
    /\ invites \in [Invites -> InviteType]
    /\ request \in [Requests -> RequestType]
    /\ answers \in [Invites -> Nat] /\ overlapped \in BOOLEAN

(* A streak is never longer than the partners' activity shows: the days it *)
(* counts are consecutive days that both opened, however the hooks, views  *)
(* and restarts that write it interleave (processPairActivity).            *)
StreakBacked == Backed(pair, dayRows)

(* Accept, decline and cancel, in any number of tabs: an invitation is     *)
(* answered once, and its status is the answer that was given.             *)
AnsweredOnce ==
    \A i \in Invites :
        answers[i] = IF invites[i].status \in {"none", "PENDING"} THEN 0 ELSE 1

(* As long as requests come one after the other, a day that both opened is *)
(* counted at once: an active streak never lags behind its days.           *)
EveryDayCounted ==
    ~overlapped /\ (\A r \in Requests : ~Open(r)) => Counted(pair, dayRows)

(* "A fully-past day with no qualification breaks the streak"              *)
(* (processPairActivity): between the last day that counted and the one    *)
(* being opened there is a day that some partner has let pass unused.      *)
MissedDayBreaks ==
    \A r \in Requests : request[r].pc = "break" =>
        \E d \in request[r].seen.lastQualifiedDay + 1 .. request[r].label - 1, u \in Members :
            d < labelOf(u) /\ d \notin dayRows[u]
-----------------------------------------------------------------------------
(* Links: the public page of the pair (generateShareLink) and the standing *)
(* invitation of a member (getOrCreateInviteLink).  Each is made when it   *)
(* is first asked for, by a read and an update that no transaction holds   *)
(* together.  A link is the request that made it; {} is no link.           *)

VARIABLES linkOf,      \* publicShareId of the pair, streakInviteToken of a member
          asker,       \* the requests for a link
          madeTwice    \* history: rows for which two requests found no link

linkVars == <<linkOf, asker, madeTwice>>
LinkRows == {"pair"} \cup Members
NewAsker == [pc |-> "new", row |-> "pair", got |-> {}]

LinksInit ==
    /\ linkOf = [x \in LinkRows |-> {}]
    /\ asker = [r \in Requests |-> NewAsker]
    /\ madeTwice = {}

AskLink(r, x) ==
    /\ asker[r].pc = "new"
    /\ asker' = [asker EXCEPT ![r] = [pc |-> IF linkOf[x] = {} THEN "make" ELSE "answered",
                                      row |-> x, got |-> linkOf[x]]]
    /\ madeTwice' = IF linkOf[x] = {} /\ \E s \in Requests : asker[s].pc = "make" /\ asker[s].row = x
                    THEN madeTwice \cup {x} ELSE madeTwice
    /\ UNCHANGED linkOf

\* A stranger asks for the page of a pair, or there is no such pair.
RefuseLink(r) ==
    /\ asker[r].pc = "new"
    /\ asker' = [asker EXCEPT ![r] = [pc |-> "refused", row |-> asker[r].row, got |-> {}]]
    /\ UNCHANGED <<linkOf, madeTwice>>

\* randomBytes, and the update by id
MakeLink(r) ==
    /\ asker[r].pc = "make"
    /\ linkOf' = [linkOf EXCEPT ![asker[r].row] = {r}]
    /\ asker' = [asker EXCEPT ![r] = [pc |-> "answered", row |-> asker[r].row, got |-> {r}]]
    /\ UNCHANGED madeTwice

LinksNext ==
    \E r \in Requests : RefuseLink(r) \/ MakeLink(r) \/ \E x \in LinkRows : AskLink(r, x)

LinksSpec == LinksInit /\ [][LinksNext]_linkVars

\* getPublicStreak, previewInviteLink: the rows that a link finds
OpenedBy(link) == {x \in LinkRows : linkOf[x] = link}

(* A link that was handed out leads to the row it was asked for and to no  *)
(* other, for ever ("Never expires, never rotated"): it is dead only when  *)
(* another first request overlapped the one that made it, and then the     *)
(* link of a rival works.                                                  *)
LinksLead ==
    \A r \in Requests : asker[r].pc = "answered" =>
        LET x == asker[r].row
        IN  /\ OpenedBy(asker[r].got) \subseteq {x}
            /\ x \notin madeTwice => OpenedBy(asker[r].got) = {x}
            /\ \E s \in Requests : /\ asker[s].pc = "answered" /\ asker[s].row = x
                                   /\ OpenedBy(asker[s].got) = {x}
-----------------------------------------------------------------------------
(* What is shown of the streaks of all pairs (getLeaderboard,              *)
(* percentileRank).  The percentile of a pair is two counts, one after the *)
(* other, while other pairs study, break and start.                        *)

VARIABLES board,      \* the StreakPair rows
          ranking     \* one request for the detail of a pair

boardVars  == <<board, ranking>>
NewRanking == [pc |-> "new", pair |-> {}, mine |-> 0, total |-> 0, percent |-> Never,
               joined |-> FALSE, moved |-> FALSE]

BoardInit ==
    /\ board = [p \in BoardPairs |-> NoPair]
    /\ ranking = NewRanking

Active == {p \in BoardPairs : board[p].status = "ACTIVE"}

SetRow(p, row) ==
    /\ board' = [board EXCEPT ![p] = row]
    /\ ranking' = [ranking EXCEPT !.joined = @ \/ p \notin Active, !.moved = TRUE]

\* createOrRestartPair, the day both have opened, and the day one has missed
BoardStarts(p)   == p \notin Active /\ SetRow(p, [board[p] EXCEPT !.status = "ACTIVE", !.currentStreak = 0])
BoardAdvances(p) ==
    LET n == board[p].currentStreak + 1
    IN  /\ p \in Active /\ n <= MaxStreak
        /\ SetRow(p, [board[p] EXCEPT !.currentStreak = n, !.longestStreak = larger(@, n)])
BoardBreaks(p) ==
    /\ p \in Active
    /\ board' = [board EXCEPT ![p].status = "BROKEN", ![p].currentStreak = 0]
    /\ ranking' = [ranking EXCEPT !.moved = TRUE]

AtLeast(streak) == {p \in Active : board[p].currentStreak >= streak}

\* Math.max(1, Math.round(100 * betterOrEqual / total))
percentOf(betterOrEqual, total) ==
    larger(1, (200 * betterOrEqual + total) \div (2 * total))

\* The pair as it was read, and the first count: too few pairs have no rank.
CountActive(p) ==
    LET total == Cardinality(Active)
    IN  /\ ranking.pc = "new" /\ board[p] # NoPair
        /\ ranking' = [NewRanking EXCEPT !.pc = IF total < MIN_PAIRS_FOR_PERCENTILE THEN "answered"
                                                ELSE "counted",
                                         !.pair = {p}, !.mine = board[p].currentStreak, !.total = total]
        /\ UNCHANGED board

CountBetter ==
    /\ ranking.pc = "counted"
    /\ ranking' = [ranking EXCEPT
           !.pc = "answered",
           !.percent = percentOf(Cardinality(AtLeast(ranking.mine)), ranking.total)]
    /\ UNCHANGED board

BoardNext ==
    \/ \E p \in BoardPairs : BoardStarts(p) \/ BoardAdvances(p) \/ BoardBreaks(p) \/ CountActive(p)
    \/ CountBetter

BoardSpec == BoardInit /\ [][BoardNext]_boardVars

above(p, q) ==
    \/ board[p].currentStreak > board[q].currentStreak
    \/ board[p].currentStreak = board[q].currentStreak /\ board[p].longestStreak > board[q].longestStreak

\* The rows of the board in an order the query may give them: ties are open.
Leaderboards ==
    LET S == AtLeast(1)
        n == IF Cardinality(S) < LEADERBOARD_LIMIT THEN Cardinality(S) ELSE LEADERBOARD_LIMIT
    IN  {b \in [1 .. n -> S] :
            /\ \A i, j \in 1 .. n : i < j => b[i] # b[j] /\ ~above(b[j], b[i])
            /\ \A p \in S : (\E i \in 1 .. n : b[i] = p) \/ \A i \in 1 .. n : ~above(p, b[i])}

(* The board and the percentile tell one story: whoever stands higher on   *)
(* the board is in no larger percentile, the pair in place i is among the  *)
(* best i at the earliest, a pair that is not shown is not better than one *)
(* that is.  A percentile beyond 100 needs a pair that became active       *)
(* between the two counts, and a broken pair is never told more than that  *)
(* it is among all of them.                                                *)
BoardAgrees ==
    LET total    == Cardinality(Active)
        share(p) == percentOf(Cardinality(AtLeast(board[p].currentStreak)), total)
    IN  /\ \A b \in Leaderboards :
              /\ \A i, j \in DOMAIN b : i < j => share(b[i]) <= share(b[j])
              /\ \A i \in DOMAIN b : /\ Cardinality(AtLeast(board[b[i]].currentStreak)) >= i
                                     /\ share(b[i]) \in 1 .. 100
              /\ \A p \in Active : (\A i \in DOMAIN b : b[i] # p) =>
                    \A i \in DOMAIN b : share(b[i]) <= share(p)
        /\ ranking.percent # Never =>
              /\ ranking.percent >= 1
              /\ ranking.percent > 100 => ranking.joined
              /\ ~ranking.moved => \A p \in ranking.pair :
                    IF p \in Active THEN ranking.percent = share(p) ELSE ranking.percent = 100
-----------------------------------------------------------------------------
(* describeActivity: which of the five tables that make a day qualify has  *)
(* the latest row of a user's own today.  A row is [table, at].            *)
ActivityTables == <<"lesson", "practice", "vocab", "listening", "listening">>

startOfDay(instant, z) ==
    formatDayInTimeZone(instant, z) * SlotsPerDay - (IF z = "local" THEN ZoneShift ELSE 0)

\* Two rows of one instant: the earlier table, by the stable sort.
describeActivity(rows, instant, z) ==
    LET start == startOfDay(instant, z)
        ofDay == {x \in rows : start <= x.at /\ x.at < start + SlotsPerDay}
        best  == CHOOSE x \in ofDay : \A y \in ofDay :
                    x.at > y.at \/ (x.at = y.at /\ x.table <= y.table)
    IN  IF ofDay = {} THEN [qualified |-> FALSE, label |-> "none", at |-> Never]
        ELSE [qualified |-> TRUE, label |-> ActivityTables[best.table], at |-> best.at]

(* What is shown of today is a row of today's label and none is later; and *)
(* nothing is shown only when there is none: the window of 24 hours is the *)
(* day of the label that decides whether the day counts.                   *)
ActivityIsOfToday(rows, instant, z) ==
    LET told == describeActivity(rows, instant, z)
        own  == {x \in rows : isSameActivityDay(x.at, instant, z)}
    IN  /\ told.qualified <=> own # {}
        /\ told.qualified => /\ \E x \in own : x.at = told.at /\ ActivityTables[x.table] = told.label
                             /\ \A x \in own : x.at <= told.at
=============================================================================
