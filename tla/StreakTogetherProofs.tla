------------------------ MODULE StreakTogetherProofs ------------------------
(***************************************************************************)
(* A streak is never longer than the partners' days show, and an           *)
(* invitation is answered once, for any number of requests, invitations    *)
(* and days.                                                               *)
(*                                                                         *)
(* A request writes a streak it computed from a pair it read some time     *)
(* ago.  What keeps it honest is that days are only ever added: a pair     *)
(* that was backed by the days when it was read is backed by them for      *)
(* ever.  So the invariant asks of the pair that a request has read, and   *)
(* of the one it has written, what it asks of the stored one, on the days  *)
(* as the request will leave them.                                         *)
(*                                                                         *)
(* Links, the board of all pairs and the rows of a day follow, each with   *)
(* an invariant or an argument of its own.                                 *)
(***************************************************************************)
EXTENDS StreakTogether, FiniteSetTheorems, WellFoundedInduction, TLAPS

\* The days once the request has committed.
DaysOf(q, days) ==
    IF q.kind = "study" THEN [days EXCEPT ![q.who] = @ \cup {q.label}] ELSE days

RequestInv(q, days, sent) ==
    /\ q \in RequestType
    /\ Backed(q.seen, DaysOf(q, days))
    /\ q.wrote => Backed(q.row, DaysOf(q, days))
    /\ q.kind = "study" => /\ q.label \in Nat
                           /\ q.pc \in {"find", "break", "partner", "advance", "commit"}
    /\ q.pc \in {"partner", "advance"} =>
          verdict(q.seen, q.label) = "partner" /\ q.label \in DaysOf(q, days)[q.who]
    /\ q.pc = "advance" => q.label \in DaysOf(q, days)[other(q.who)]
    /\ q.pc = "find" => q.kind = "study"
    /\ q.pc = "claim" => q.invite \in Invites
    /\ q.holds => q.invite \in Invites /\ sent[q.invite].status = "PENDING"

\* No two requests have updated the same invitation.
OneHolder ==
    \A r, s \in Requests :
        request[r].holds /\ request[s].holds /\ request[r].invite = request[s].invite => r = s

Together ==
    /\ TypeOK /\ StreakBacked /\ AnsweredOnce /\ OneHolder
    /\ \A r \in Requests : RequestInv(request[r], dayRows, invites)

(* Requests one after the other: nobody has opened a day that is still to  *)
(* come, the pair is counted, and the one request that is open knows the   *)
(* last day its user can have opened.                                      *)
Ahead(u, day) == \A d \in dayRows[u] : d <= day
SeenBy(q)     == IF q.wrote THEN q.row ELSE pair
InTime(q)     == q.kind = "study" => q.label <= labelOf(q.who)

CountsOn(q) ==
    /\ q.kind = "study" /\ q.pc # "commit" => ~q.wrote
    /\ q.kind # "study" => Counted(SeenBy(q), dayRows)
    /\ q.pc \in {"find", "break", "partner", "advance"} => Ahead(q.who, q.label)
    /\ q.pc \in {"attempt", "refresh", "break", "partner", "advance"} /\ q.kind # "study" =>
          \A u \in Members : Ahead(u, q.labels[u])
    /\ q.pc = "commit" => Counted(SeenBy(q), DaysOf(q, dayRows))

OneByOne ==
    /\ \A u \in Members : Ahead(u, labelOf(u))
    /\ \A r \in Requests : InTime(request[r])
    /\ ~overlapped => /\ \A r, s \in Requests : Open(r) /\ Open(s) => r = s
                      /\ Counted(pair, dayRows)
                      /\ \A r \in Requests : Open(r) => CountsOn(request[r])

-----------------------------------------------------------------------------
(* Streaks and the days behind them                                        *)

\* A label is a day.
LEMMA LabelType ==
    ASSUME NEW i \in Nat, NEW z PROVE formatDayInTimeZone(i, z) \in Nat
<1>1. SlotsPerDay \in Nat /\ SlotsPerDay > 0 /\ ZoneShift \in Nat  BY DayWindowAssumption
<1>2. \A n \in Nat : n \div SlotsPerDay \in Nat  BY <1>1
<1>3. i + (IF z = "local" THEN ZoneShift ELSE 0) \in Nat  BY <1>1
<1>4. QED  BY <1>2, <1>3 DEF formatDayInTimeZone

\* Days are only added, and that never hurts a streak.
LEMMA BackedGrows ==
    ASSUME NEW row, NEW old, NEW new, Backed(row, old),
           old["low"] \subseteq new["low"], old["high"] \subseteq new["high"]
    PROVE  Backed(row, new)
BY DEF Backed

\* A pair without a streak asks nothing of the days.
LEMMA NoStreakBacked ==
    ASSUME NEW row \in PairType, row.currentStreak = 0, NEW days
    PROVE  Backed(row, days)
BY DEF Backed, PairType

\* What a restart leaves behind.
LEMMA RestartedBacked ==
    ASSUME NEW row \in PairType, NEW days
    PROVE  restarted(row) \in PairType /\ Backed(restarted(row), days)
<1>1. restarted(row) \in PairType /\ restarted(row).currentStreak = 0
  BY DEF restarted, PairType, Never
<1>2. QED  BY <1>1, NoStreakBacked

\* The longer of two streaks.
LEMMA LargerBounds ==
    ASSUME NEW a \in Nat, NEW b \in Nat
    PROVE  larger(a, b) \in Nat /\ larger(a, b) >= b
BY DEF larger

\* One more day: the streak written is backed by the days of the pair that
\* was read and by the day both have opened now, whatever row it lands on.
LEMMA AdvancedBacked ==
    ASSUME NEW seen \in PairType, NEW row \in PairType, NEW days, NEW label \in Nat,
           Backed(seen, days), verdict(seen, label) = "partner",
           label \in days["low"], label \in days["high"],
           NEW new,
           new = [row EXCEPT !.currentStreak = nextStreak(seen, label),
                             !.longestStreak = larger(seen.longestStreak, nextStreak(seen, label)),
                             !.lastQualifiedDay = label]
    PROVE  new \in PairType /\ Backed(new, days)
<1> DEFINE next == nextStreak(seen, label)
<1>1. /\ seen.currentStreak \in Nat /\ seen.longestStreak \in Nat
      /\ seen.lastQualifiedDay \in Nat \cup {-1}
  BY DEF PairType, Never
<1>2. next \in Nat /\ next > 0  BY <1>1 DEF nextStreak
<1>3. larger(seen.longestStreak, next) \in Nat /\ larger(seen.longestStreak, next) >= next
  BY <1>1, <1>2, LargerBounds
<1>4. /\ new \in PairType
      /\ new.currentStreak = next /\ new.lastQualifiedDay = label
      /\ new.longestStreak = larger(seen.longestStreak, next)
  BY <1>2, <1>3 DEF PairType
<1>5. ASSUME NEW d \in label - next + 1 .. label
      PROVE  d \in days["low"] /\ d \in days["high"]
  <2>1. CASE d = label  BY <2>1
  <2>2. CASE d # label
    <3>1. d \in Int /\ d < label /\ d >= label - next + 1  BY <1>2, <1>5, <2>2
    <3>2. /\ seen.lastQualifiedDay # -1 /\ label - seen.lastQualifiedDay = 1
          /\ next = seen.currentStreak + 1
      BY <1>1, <1>2, <3>1 DEF nextStreak, Never
    <3>3. /\ d \in seen.lastQualifiedDay - seen.currentStreak + 1 .. seen.lastQualifiedDay
          /\ seen.currentStreak > 0
      BY <1>1, <3>1, <3>2
    <3>4. QED  BY <3>3 DEF Backed
  <2>3. QED  BY <2>1, <2>2
<1>6. label # Never  BY DEF Never
<1>7. QED  BY <1>2, <1>3, <1>4, <1>5, <1>6 DEF Backed

\* The days a request leaves behind are days, and contain the stored ones.
LEMMA DaysGrow ==
    ASSUME NEW q \in RequestType, NEW days \in [Members -> SUBSET Nat],
           q.kind = "study" => q.label \in Nat
    PROVE  /\ DaysOf(q, days) \in [Members -> SUBSET Nat]
           /\ days["low"] \subseteq DaysOf(q, days)["low"]
           /\ days["high"] \subseteq DaysOf(q, days)["high"]
<1>1. q.who \in Members  BY DEF RequestType
<1>2. CASE q.kind = "study"
  <2>1. DaysOf(q, days) = [days EXCEPT ![q.who] = @ \cup {q.label}]  BY <1>2 DEF DaysOf
  <2>2. QED  BY <1>1, <1>2, <2>1 DEF Members
<1>3. CASE q.kind # "study"
  <2>1. DaysOf(q, days) = days  BY <1>3 DEF DaysOf
  <2>2. QED  BY <2>1
<1>4. QED  BY <1>2, <1>3

\* A request survives what others do to the days and the invitations, as
\* long as the one it has updated stays as it is.
LEMMA RequestKeeps ==
    ASSUME NEW q, NEW old \in [Members -> SUBSET Nat], NEW new \in [Members -> SUBSET Nat],
           NEW sent, NEW resent, RequestInv(q, old, sent),
           \A u \in Members : old[u] \subseteq new[u],
           q.holds => resent[q.invite].status = "PENDING"
    PROVE  RequestInv(q, new, resent)
<1>1. q \in RequestType /\ q.who \in Members /\ (q.kind = "study" => q.label \in Nat)
  BY DEF RequestInv, RequestType
<1>2. \A u \in Members : DaysOf(q, old)[u] \subseteq DaysOf(q, new)[u]
  <2>1. CASE q.kind = "study"
    <3>1. /\ DaysOf(q, old) = [old EXCEPT ![q.who] = @ \cup {q.label}]
          /\ DaysOf(q, new) = [new EXCEPT ![q.who] = @ \cup {q.label}]
      BY <2>1 DEF DaysOf
    <3>2. QED  BY <1>1, <3>1
  <2>2. CASE q.kind # "study"  BY <2>2 DEF DaysOf
  <2>3. QED  BY <2>1, <2>2
<1>3. DaysOf(q, old)["low"] \subseteq DaysOf(q, new)["low"]
      /\ DaysOf(q, old)["high"] \subseteq DaysOf(q, new)["high"]
  BY <1>2 DEF Members
<1>4. Backed(q.seen, DaysOf(q, new)) /\ (q.wrote => Backed(q.row, DaysOf(q, new)))
  BY <1>3, BackedGrows DEF RequestInv
<1>5. other(q.who) \in Members  BY DEF other, Members
<1>6. QED  BY <1>1, <1>2, <1>4, <1>5 DEF RequestInv

-----------------------------------------------------------------------------
(* Steps of a request                                                      *)

\* A step that moves one request and nothing else.
LEMMA OneRequestMoves ==
    ASSUME Together, NEW r \in Requests, NEW new, RequestInv(new, dayRows, invites),
           request' = [request EXCEPT ![r] = new],
           UNCHANGED <<now, zone, dayRows, pair, invites, answers>>, overlapped' \in BOOLEAN,
           \/ ~new.holds
           \/ new.holds = request[r].holds /\ new.invite = request[r].invite
           \/ InviteFree(new.invite)
    PROVE  Together'
<1>1. new \in RequestType  BY DEF RequestInv
<1>2. request \in [Requests -> RequestType]  BY DEF Together, TypeOK
<1>3. request' \in [Requests -> RequestType]  BY <1>1, <1>2
<1>4. TypeOK'  BY <1>3 DEF Together, TypeOK
<1>5. StreakBacked' /\ AnsweredOnce'  BY DEF Together, StreakBacked, AnsweredOnce
<1>6. \A s \in Requests : request'[s] = IF s = r THEN new ELSE request[s]  BY <1>2
<1>7. \A s \in Requests : RequestInv(request'[s], dayRows', invites')  BY <1>6 DEF Together
<1>8. OneHolder'  BY <1>6 DEF Together, OneHolder, InviteFree
<1>9. QED  BY <1>4, <1>5, <1>7, <1>8 DEF Together

\* A request that is done or has not begun.
LEMMA IdleFine == ASSUME Together PROVE RequestInv(Idle, dayRows, invites) /\ ~Idle.holds
<1>1. NoPair \in PairType  BY DEF NoPair, PairType, Never
<1>2. Idle \in RequestType  BY <1>1 DEF Idle, RequestType, Members, Never
<1>3. Backed(NoPair, dayRows)  BY <1>1, NoStreakBacked DEF NoPair
<1>4. QED  BY <1>2, <1>3 DEF RequestInv, Idle, DaysOf

\* The pair as a request sees it.
LEMMA VisibleBacked ==
    ASSUME Together, NEW r \in Requests
    PROVE  Visible(r) \in PairType /\ Backed(Visible(r), DaysOf(request[r], dayRows))
<1>1. RequestInv(request[r], dayRows, invites)  BY DEF Together
<1>2. /\ request[r] \in RequestType /\ (request[r].kind = "study" => request[r].label \in Nat)
  BY <1>1 DEF RequestInv
<1>3. pair \in PairType /\ dayRows \in [Members -> SUBSET Nat] /\ Backed(pair, dayRows)
  BY DEF Together, TypeOK, StreakBacked
<1>4. Backed(pair, DaysOf(request[r], dayRows))  BY <1>2, <1>3, DaysGrow, BackedGrows
<1>5. QED  BY <1>1, <1>2, <1>3, <1>4 DEF Visible, RequestInv, RequestType

\* A request that only goes on, to a place that asks nothing of it.
LEMMA GoesOn ==
    ASSUME Together, NEW r \in Requests, request[r].pc # "idle",
           NEW pc \in {"commit", "reset", "upsert", "create", "update"},
           request[r].kind = "study" => pc = "commit"
    PROVE  RequestInv([request[r] EXCEPT !.pc = pc], dayRows, invites)
<1> DEFINE q == request[r]  new == [q EXCEPT !.pc = pc]
<1>1. RequestInv(q, dayRows, invites)  BY DEF Together
<1>2. q \in RequestType  BY <1>1 DEF RequestInv
<1>3. new \in RequestType  BY <1>2 DEF RequestType
<1>4. /\ new.seen = q.seen /\ new.wrote = q.wrote /\ new.row = q.row /\ new.kind = q.kind
      /\ new.label = q.label /\ new.who = q.who /\ new.holds = q.holds /\ new.invite = q.invite
      /\ new.pc = pc
  BY <1>2 DEF RequestType
<1>5. DaysOf(new, dayRows) = DaysOf(q, dayRows)  BY <1>4 DEF DaysOf
<1>6. QED  BY <1>1, <1>3, <1>4, <1>5 DEF RequestInv

\* Where a day leads to.
LEMMA AfterDayFine ==
    ASSUME NEW r PROVE afterDay(r) \in {"commit", "refresh"}
                       /\ (request[r].kind = "study" => afterDay(r) = "commit")
BY DEF afterDay

\* The first half of processPairActivity.
LEMMA ActivityFine ==
    ASSUME Together, NEW r \in Requests, NEW seen \in PairType, NEW label \in Nat,
           Backed(seen, DaysOf(request[r], dayRows)),
           label \in DaysOf(request[r], dayRows)[request[r].who],
           request[r].kind = "study" => label = request[r].label
    PROVE  LET new == processPairActivity(r, seen, label)
           IN  /\ RequestInv(new, dayRows, invites)
               /\ new.holds = request[r].holds /\ new.invite = request[r].invite
<1> DEFINE q == request[r]
           v == verdict(seen, label)
           new == [q EXCEPT !.seen = seen, !.label = label,
                            !.pc = IF v = "done" THEN afterDay(r) ELSE v]
<1>1. RequestInv(q, dayRows, invites)  BY DEF Together
<1>2. q \in RequestType  BY <1>1 DEF RequestInv
<1>3. v \in {"done", "break", "partner"}  BY DEF verdict
<1>4. new \in RequestType  BY <1>2, <1>3, AfterDayFine, ZenonT(60) DEF RequestType
<1>5. /\ new.seen = seen /\ new.wrote = q.wrote /\ new.row = q.row /\ new.kind = q.kind
      /\ new.label = label /\ new.who = q.who /\ new.holds = q.holds /\ new.invite = q.invite
      /\ new.pc = IF v = "done" THEN afterDay(r) ELSE v
  BY <1>2 DEF RequestType
<1>6. DaysOf(new, dayRows) = DaysOf(q, dayRows)  BY <1>5 DEF DaysOf
<1>7. new.pc \in {"commit", "refresh", "break", "partner"}
      /\ (new.pc = "partner" => v = "partner") /\ (q.kind = "study" => new.pc # "refresh")
  BY <1>3, <1>5, AfterDayFine
<1>8. RequestInv(new, dayRows, invites)  BY <1>1, <1>4, <1>5, <1>6, <1>7 DEF RequestInv
<1>9. QED  BY <1>5, <1>8 DEF processPairActivity

\* A request that has written a pair its days back, and goes on.
LEMMA WrittenFine ==
    ASSUME Together, NEW r \in Requests, NEW row \in PairType,
           Backed(row, DaysOf(request[r], dayRows)),
           NEW pc \in {"commit", "refresh"}, request[r].kind = "study" => pc = "commit"
    PROVE  LET new == [request[r] EXCEPT !.wrote = TRUE, !.row = row, !.pc = pc]
           IN  /\ RequestInv(new, dayRows, invites)
               /\ new.holds = request[r].holds /\ new.invite = request[r].invite
<1> DEFINE q == request[r]
           new == [q EXCEPT !.wrote = TRUE, !.row = row, !.pc = pc]
<1>1. RequestInv(q, dayRows, invites)  BY DEF Together
<1>2. q \in RequestType  BY <1>1 DEF RequestInv
<1>3. new \in RequestType  BY <1>2 DEF RequestType
<1>4. /\ new.seen = q.seen /\ new.wrote /\ new.row = row /\ new.kind = q.kind
      /\ new.label = q.label /\ new.who = q.who /\ new.holds = q.holds /\ new.invite = q.invite
      /\ new.pc = pc
  BY <1>2 DEF RequestType
<1>5. DaysOf(new, dayRows) = DaysOf(q, dayRows)  BY <1>4 DEF DaysOf
<1>6. RequestInv(new, dayRows, invites)  BY <1>1, <1>3, <1>4, <1>5 DEF RequestInv
<1>7. QED  BY <1>4, <1>6

\* The same for Become, which most steps are.
LEMMA Becomes ==
    ASSUME Together, NEW r \in Requests, NEW new, Become(r, new),
           RequestInv(new, dayRows, invites),
           \/ ~new.holds
           \/ new.holds = request[r].holds /\ new.invite = request[r].invite
           \/ InviteFree(new.invite)
    PROVE  Together'
<1>1. /\ request' = [request EXCEPT ![r] = new]
      /\ UNCHANGED <<now, zone, dayRows, pair, invites, answers>> /\ overlapped' \in BOOLEAN
  BY DEF Become, OnlyRequest, Together, TypeOK
<1>2. QED  BY <1>1, OneRequestMoves

\* The hook, a view or a request gives up, and goes on with nothing to do.
LEMMA GivesUp == ASSUME Together, NEW r \in Requests, Become(r, Idle) PROVE Together'
BY IdleFine, Becomes

LEMMA GoesOnThen ==
    ASSUME Together, NEW r \in Requests, request[r].pc # "idle",
           NEW pc \in {"commit", "reset", "upsert", "create", "update"},
           request[r].kind = "study" => pc = "commit",
           Become(r, [request[r] EXCEPT !.pc = pc])
    PROVE  Together'
<1> DEFINE new == [request[r] EXCEPT !.pc = pc]
<1>1. request[r] \in RequestType  BY DEF Together, RequestInv
<1>2. new.holds = request[r].holds /\ new.invite = request[r].invite  BY <1>1 DEF RequestType
<1>3. RequestInv(new, dayRows, invites)  BY GoesOn
<1>4. QED  BY <1>2, <1>3, Becomes

\* The steps that count a day.
LEMMA DaySteps ==
    ASSUME Together, NEW r \in Requests,
           FindActive(r) \/ Break(r) \/ FindPartnerDay(r) \/ Advance(r)
    PROVE  Together'
<1> DEFINE q == request[r]
           days == DaysOf(q, dayRows)
<1>1. RequestInv(q, dayRows, invites)  BY DEF Together
<1>2. q \in RequestType /\ (q.kind = "study" => q.label \in Nat)  BY <1>1 DEF RequestInv
<1>3. /\ pair \in PairType /\ dayRows \in [Members -> SUBSET Nat] /\ Backed(pair, dayRows)
      /\ Backed(pair, days)
  BY <1>2, DaysGrow, BackedGrows DEF Together, TypeOK, StreakBacked
<1>4. days \in [Members -> SUBSET Nat]  BY <1>2, <1>3, DaysGrow
<1>5. /\ q.seen \in PairType /\ q.who \in Members /\ other(q.who) \in Members
  BY <1>2 DEF RequestType, other, Members
<1>6. afterDay(r) \in {"commit", "refresh"} /\ (q.kind = "study" => afterDay(r) = "commit")
  BY AfterDayFine
<1>7. CASE FindActive(r)
  <2>1. q.pc = "find"  BY <1>7 DEF FindActive
  <2>2. CASE pair.status = "ACTIVE" /\ q.kind = "study"
    <3>1. q.label \in days[q.who]  BY <1>2, <1>3, <1>5, <2>2 DEF DaysOf
    <3>2. RequestInv(processPairActivity(r, pair, q.label), dayRows, invites)
          /\ processPairActivity(r, pair, q.label).holds = q.holds
          /\ processPairActivity(r, pair, q.label).invite = q.invite
      BY <1>2, <1>3, <2>2, <3>1, ActivityFine
    <3>3. Become(r, processPairActivity(r, pair, q.label))  BY <1>7, <2>2 DEF FindActive
    <3>4. QED  BY <3>2, <3>3, Becomes
  <2>3. CASE pair.status # "ACTIVE"
    <3>1. Become(r, [q EXCEPT !.pc = "commit"])  BY <1>7, <2>3 DEF FindActive
    <3>2. QED  BY <2>1, <3>1, GoesOnThen
  <2>4. q.kind = "study"  BY <1>1, <2>1 DEF RequestInv
  <2>5. QED  BY <2>2, <2>3, <2>4
<1>8. CASE Break(r)
  <2> DEFINE row == [Visible(r) EXCEPT !.status = "BROKEN", !.currentStreak = 0]
             new == [q EXCEPT !.wrote = TRUE, !.row = row, !.pc = afterDay(r)]
  <2>1. Visible(r) \in PairType  BY VisibleBacked
  <2>2. row \in PairType /\ row.currentStreak = 0  BY <2>1 DEF PairType
  <2>3. Backed(row, days)  BY <2>2, NoStreakBacked
  <2>4. RequestInv(new, dayRows, invites) /\ new.holds = q.holds /\ new.invite = q.invite
    BY <1>6, <2>2, <2>3, WrittenFine
  <2>5. Become(r, new)  BY <1>8 DEF Break, WritePair
  <2>6. QED  BY <2>4, <2>5, Becomes
<1>9. CASE FindPartnerDay(r)
  <2> DEFINE there == q.label \in dayRows[other(q.who)]
             new == [q EXCEPT !.pc = IF there THEN "advance" ELSE afterDay(r)]
  <2>1. Become(r, new) /\ q.pc = "partner"  BY <1>9 DEF FindPartnerDay
  <2>2. new \in RequestType  BY <1>2, <1>6 DEF RequestType
  <2>3. /\ new.seen = q.seen /\ new.wrote = q.wrote /\ new.row = q.row /\ new.kind = q.kind
        /\ new.label = q.label /\ new.who = q.who /\ new.holds = q.holds /\ new.invite = q.invite
        /\ new.pc = IF there THEN "advance" ELSE afterDay(r)
    BY <1>2 DEF RequestType
  <2>4. DaysOf(new, dayRows) = days  BY <2>3 DEF DaysOf
  <2>5. dayRows[other(q.who)] \subseteq days[other(q.who)]
    BY <1>2, <1>3, <1>5, DaysGrow DEF Members
  <2>6. RequestInv(new, dayRows, invites)
    BY <1>1, <1>6, <2>1, <2>2, <2>3, <2>4, <2>5 DEF RequestInv
  <2>7. QED  BY <2>1, <2>3, <2>6, Becomes
<1>10. CASE Advance(r)
  <2> DEFINE next == nextStreak(q.seen, q.label)
             row == [Visible(r) EXCEPT !.currentStreak = next,
                        !.longestStreak = larger(q.seen.longestStreak, next),
                        !.lastQualifiedDay = q.label]
             new == [q EXCEPT !.wrote = TRUE, !.row = row, !.pc = afterDay(r)]
  <2>1. Become(r, new) /\ q.pc = "advance"  BY <1>10 DEF Advance, WritePair
  <2>2. /\ Backed(q.seen, days) /\ verdict(q.seen, q.label) = "partner"
        /\ q.label \in days[q.who] /\ q.label \in days[other(q.who)]
    BY <1>1, <2>1 DEF RequestInv
  <2>3. q.label \in Nat  BY <1>4, <1>5, <2>2
  <2>4. q.label \in days["low"] /\ q.label \in days["high"]
    BY <1>5, <2>2 DEF other, Members
  <2>5. Visible(r) \in PairType  BY VisibleBacked
  <2>6. row \in PairType /\ Backed(row, days)
    BY <1>5, <2>2, <2>3, <2>4, <2>5, AdvancedBacked
  <2>7. RequestInv(new, dayRows, invites) /\ new.holds = q.holds /\ new.invite = q.invite
    BY <1>6, <2>6, WrittenFine
  <2>8. QED  BY <2>1, <2>7, Becomes
<1>11. QED  BY <1>7, <1>8, <1>9, <1>10

\* The steps of a view.
LEMMA ViewSteps ==
    ASSUME Together, NEW r \in Requests,
           CheckBoth(r) \/ Reset(r) \/ Recompute(r) \/ Attempt(r) \/ Refresh(r)
    PROVE  Together'
<1> DEFINE q == request[r]
           days == DaysOf(q, dayRows)
<1>1. RequestInv(q, dayRows, invites)  BY DEF Together
<1>2. q \in RequestType  BY <1>1 DEF RequestInv
<1>3. q.pc \in {"restart", "reset", "recompute", "attempt", "refresh"}
  BY DEF CheckBoth, Reset, Recompute, Attempt, Refresh
<1>4. q.kind # "study" /\ days = dayRows  BY <1>1, <1>3 DEF RequestInv, DaysOf
<1>5. dayRows \in [Members -> SUBSET Nat] /\ now \in Nat  BY DEF Together, TypeOK
<1>6. Visible(r) \in PairType /\ Backed(Visible(r), dayRows)  BY <1>4, VisibleBacked
<1>7. q.seen \in PairType /\ Backed(q.seen, dayRows)  BY <1>1, <1>2, <1>4 DEF RequestInv, RequestType
\* The next side's turn, on a pair that its days back.
<1>8. ASSUME NEW seen \in PairType, Backed(seen, dayRows), Become(r, afterTurn(r, seen))
      PROVE  Together'
  <2> DEFINE new == [q EXCEPT !.seen = seen, !.who = "high",
                              !.pc = IF q.who = "low" THEN "attempt" ELSE "commit"]
  <2>1. new \in RequestType  BY <1>2 DEF RequestType, Members
  <2>2. /\ new.seen = seen /\ new.wrote = q.wrote /\ new.row = q.row /\ new.kind = q.kind
        /\ new.holds = q.holds /\ new.invite = q.invite /\ new.pc \in {"attempt", "commit"}
    BY <1>2 DEF RequestType
  <2>3. DaysOf(new, dayRows) = dayRows  BY <1>4, <2>2 DEF DaysOf
  <2>4. RequestInv(new, dayRows, invites)
    BY <1>1, <1>4, <1>8, <2>1, <2>2, <2>3 DEF RequestInv
  <2>5. Become(r, new)  BY <1>8 DEF afterTurn
  <2>6. QED  BY <2>2, <2>4, <2>5, Becomes
<1>9. CASE CheckBoth(r)
  <2>1. PICK pc \in {"reset", "commit"} : Become(r, [q EXCEPT !.pc = pc])
    BY <1>9 DEF CheckBoth
  <2>2. QED  BY <1>3, <1>4, <2>1, GoesOnThen
<1>10. CASE Reset(r)
  <2> DEFINE row == restarted(Visible(r))
             new == [q EXCEPT !.wrote = TRUE, !.row = row, !.seen = row, !.pc = "recompute"]
  <2>1. row \in PairType /\ Backed(row, dayRows)  BY <1>6, RestartedBacked
  <2>2. new \in RequestType  BY <1>2, <2>1 DEF RequestType
  <2>3. /\ new.seen = row /\ new.row = row /\ new.kind = q.kind
        /\ new.holds = q.holds /\ new.invite = q.invite /\ new.pc = "recompute"
    BY <1>2 DEF RequestType
  <2>4. DaysOf(new, dayRows) = dayRows  BY <1>4, <2>3 DEF DaysOf
  <2>5. RequestInv(new, dayRows, invites)
    BY <1>1, <1>4, <2>1, <2>2, <2>3, <2>4 DEF RequestInv
  <2>6. Become(r, new)  BY <1>10 DEF Reset
  <2>7. QED  BY <2>3, <2>5, <2>6, Becomes
<1>11. CASE Recompute(r)
  <2> DEFINE labels == [u \in Members |-> labelOf(u)]
             new == [q EXCEPT !.labels = labels, !.who = "low", !.pc = "attempt"]
  <2>1. labels \in [Members -> Nat]  BY <1>5, LabelType DEF labelOf
  <2>2. new \in RequestType  BY <1>2, <2>1 DEF RequestType, Members
  <2>3. /\ new.seen = q.seen /\ new.wrote = q.wrote /\ new.row = q.row /\ new.kind = q.kind
        /\ new.holds = q.holds /\ new.invite = q.invite /\ new.pc = "attempt"
    BY <1>2 DEF RequestType
  <2>4. DaysOf(new, dayRows) = dayRows  BY <1>4, <2>3 DEF DaysOf
  <2>5. RequestInv(new, dayRows, invites)
    BY <1>1, <1>4, <2>2, <2>3, <2>4 DEF RequestInv
  <2>6. Become(r, new)  BY <1>11 DEF Recompute
  <2>7. QED  BY <2>3, <2>5, <2>6, Becomes
<1>12. CASE Attempt(r)
  <2> DEFINE u == q.who  label == q.labels[u]
  <2>1. u \in Members  BY <1>2 DEF RequestType
  <2>2. CASE q.seen.status # "ACTIVE"
    <3>1. Become(r, [q EXCEPT !.pc = "commit"])  BY <1>12, <2>2 DEF Attempt
    <3>2. QED  BY <1>3, <3>1, GoesOnThen
  <2>3. CASE /\ q.seen.status = "ACTIVE"
             /\ q.seen.lastQualifiedDay = label \/ label \notin dayRows[u]
    <3>1. Become(r, afterTurn(r, q.seen))  BY <1>12, <2>3 DEF Attempt
    <3>2. QED  BY <1>7, <1>8, <3>1
  <2>4. CASE /\ q.seen.status = "ACTIVE"
             /\ ~(q.seen.lastQualifiedDay = label \/ label \notin dayRows[u])
    <3>1. Become(r, processPairActivity(r, q.seen, label))  BY <1>12, <2>4 DEF Attempt
    <3>2. label \in dayRows[u] /\ label \in Nat  BY <1>5, <2>1, <2>4
    <3>3. /\ RequestInv(processPairActivity(r, q.seen, label), dayRows, invites)
          /\ processPairActivity(r, q.seen, label).holds = q.holds
          /\ processPairActivity(r, q.seen, label).invite = q.invite
      BY <1>4, <1>7, <3>2, ActivityFine
    <3>4. QED  BY <3>1, <3>3, Becomes
  <2>5. QED  BY <2>2, <2>3, <2>4
<1>13. CASE Refresh(r)
  <2>1. Become(r, afterTurn(r, Visible(r)))  BY <1>13 DEF Refresh
  <2>2. QED  BY <1>6, <1>8, <2>1
<1>14. QED  BY <1>9, <1>10, <1>11, <1>12, <1>13

\* The steps that make or restart a pair.
LEMMA PairSteps ==
    ASSUME Together, NEW r \in Requests,
           FindPair(r) \/ CreatePair(r) \/ CreateTwice(r) \/ UpdatePair(r)
    PROVE  Together'
<1> DEFINE q == request[r]
           days == DaysOf(q, dayRows)
<1>1. RequestInv(q, dayRows, invites)  BY DEF Together
<1>2. q.pc \in {"upsert", "create", "update"}
  BY DEF FindPair, CreatePair, CreateTwice, UpdatePair
<1>3. q.kind # "study"  BY <1>1, <1>2 DEF RequestInv
<1>4. CASE FindPair(r)
  <2>1. PICK pc \in {"create", "update"} : Become(r, [q EXCEPT !.pc = pc])
    BY <1>4 DEF FindPair
  <2>2. QED  BY <1>2, <1>3, <2>1, GoesOnThen
<1>5. CASE CreateTwice(r)  BY <1>5, GivesUp DEF CreateTwice
\* Either way the row that is written counts no day.
<1>6. ASSUME NEW row \in PairType, row.currentStreak = 0, WritePair(r, row, "commit")
      PROVE  Together'
  <2> DEFINE new == [q EXCEPT !.wrote = TRUE, !.row = row, !.pc = "commit"]
  <2>1. Backed(row, days)  BY <1>6, NoStreakBacked
  <2>2. RequestInv(new, dayRows, invites) /\ new.holds = q.holds /\ new.invite = q.invite
    BY <2>1, WrittenFine
  <2>3. Become(r, new)  BY <1>6 DEF WritePair
  <2>4. QED  BY <2>2, <2>3, Becomes
<1>7. CASE CreatePair(r)
  <2>1. /\ [NoPair EXCEPT !.status = "ACTIVE"] \in PairType
        /\ [NoPair EXCEPT !.status = "ACTIVE"].currentStreak = 0
    BY DEF NoPair, PairType, Never
  <2>2. QED  BY <1>6, <1>7, <2>1 DEF CreatePair
<1>8. CASE UpdatePair(r)
  <2>1. Visible(r) \in PairType  BY VisibleBacked
  <2>2. restarted(Visible(r)) \in PairType /\ restarted(Visible(r)).currentStreak = 0
    BY <2>1 DEF restarted, PairType, Never
  <2>3. QED  BY <1>6, <1>8, <2>2 DEF UpdatePair
<1>9. QED  BY <1>4, <1>5, <1>7, <1>8

\* A request that begins, as a view, with an invitation or without one.
LEMMA Begins ==
    ASSUME Together, NEW r \in Requests, NEW new, Begin(r, new),
           RequestInv(new, dayRows, invites), ~new.holds
    PROVE  Together'
<1>1. /\ request' = [request EXCEPT ![r] = new]
      /\ UNCHANGED <<now, zone, dayRows, pair, invites, answers>> /\ overlapped' \in BOOLEAN
  BY DEF Begin, Together, TypeOK
<1>2. QED  BY <1>1, OneRequestMoves

\* A new request.
LEMMA NewRequest ==
    ASSUME Together, NEW new \in RequestType, ~new.holds, ~new.wrote, Backed(new.seen, dayRows),
           new.pc \in {"find", "recompute", "restart", "ask", "claim", "upsert"},
           new.kind = "study" <=> new.pc = "find", new.kind = "study" => new.label \in Nat,
           new.pc = "claim" => new.invite \in Invites
    PROVE  RequestInv(new, dayRows, invites)
<1>1. dayRows \in [Members -> SUBSET Nat]  BY DEF Together, TypeOK
<1>2. Backed(new.seen, DaysOf(new, dayRows))  BY <1>1, DaysGrow, BackedGrows
<1>3. QED  BY <1>2 DEF RequestInv

\* Every request begins well.
LEMMA Beginnings ==
    ASSUME Together, NEW r \in Requests, NEW u \in Members,
           \/ OpenDay(r, u) \/ View(r) \/ Send(r, u) \/ JoinByLink(r, u)
           \/ \E i \in Invites : Accept(r, i)
    PROVE  Together'
<1>1. pair \in PairType /\ Backed(pair, dayRows) /\ now \in Nat
  BY DEF Together, TypeOK, StreakBacked
<1>2. Idle \in RequestType /\ Backed(Idle.seen, dayRows)
  BY IdleFine DEF RequestInv, Idle, DaysOf
<1>3. ~Idle.holds /\ ~Idle.wrote /\ Idle.kind # "study"  BY DEF Idle
<1>4. CASE OpenDay(r, u)
  <2> DEFINE new == [Idle EXCEPT !.pc = "find", !.kind = "study", !.who = u, !.label = labelOf(u)]
  <2>1. labelOf(u) \in Nat  BY <1>1, LabelType DEF labelOf
  <2>2. /\ new \in RequestType /\ new.pc = "find" /\ new.kind = "study" /\ new.label \in Nat
        /\ new.seen = Idle.seen /\ new.holds = Idle.holds /\ new.wrote = Idle.wrote
    BY <1>2, <2>1 DEF RequestType
  <2>3. RequestInv(new, dayRows, invites)  BY <1>2, <1>3, <2>2, NewRequest
  <2>4. Begin(r, new)  BY <1>4 DEF OpenDay
  <2>5. QED  BY <1>3, <2>2, <2>3, <2>4, Begins
<1>5. CASE View(r)
  <2>1. PICK pc \in {"recompute", "restart"} :
           Begin(r, [Idle EXCEPT !.kind = "view", !.seen = pair, !.pc = pc])
    BY <1>5 DEF View
  <2> DEFINE new == [Idle EXCEPT !.kind = "view", !.seen = pair, !.pc = pc]
  <2>2. /\ new \in RequestType /\ new.pc = pc /\ new.kind = "view" /\ new.seen = pair
        /\ new.holds = Idle.holds /\ new.wrote = Idle.wrote
    BY <1>1, <1>2 DEF RequestType
  <2>3. RequestInv(new, dayRows, invites)  BY <1>1, <1>3, <2>2, NewRequest
  <2>4. QED  BY <1>3, <2>1, <2>2, <2>3, Begins
<1>6. CASE Send(r, u)
  <2> DEFINE new == [Idle EXCEPT !.pc = "ask", !.kind = "send", !.who = u]
  <2>1. /\ new \in RequestType /\ new.pc = "ask" /\ new.kind = "send" /\ new.seen = Idle.seen
        /\ new.holds = Idle.holds /\ new.wrote = Idle.wrote
    BY <1>2 DEF RequestType
  <2>2. RequestInv(new, dayRows, invites)  BY <1>2, <1>3, <2>1, NewRequest
  <2>3. Begin(r, new)  BY <1>6 DEF Send
  <2>4. QED  BY <1>3, <2>1, <2>2, <2>3, Begins
<1>7. CASE JoinByLink(r, u)
  <2> DEFINE new == [Idle EXCEPT !.pc = "upsert", !.kind = "link", !.who = u]
  <2>1. /\ new \in RequestType /\ new.pc = "upsert" /\ new.kind = "link" /\ new.seen = Idle.seen
        /\ new.holds = Idle.holds /\ new.wrote = Idle.wrote
    BY <1>2 DEF RequestType
  <2>2. RequestInv(new, dayRows, invites)  BY <1>2, <1>3, <2>1, NewRequest
  <2>3. Begin(r, new)  BY <1>7 DEF JoinByLink
  <2>4. QED  BY <1>3, <2>1, <2>2, <2>3, Begins
<1>8. CASE \E i \in Invites : Accept(r, i)
  <2>1. PICK i \in Invites : Accept(r, i)  BY <1>8
  <2> DEFINE new == [Idle EXCEPT !.pc = "claim", !.kind = "accept",
                                 !.who = other(invites[i].by), !.invite = i]
  <2>2. other(invites[i].by) \in Members  BY DEF other, Members
  <2>3. /\ new \in RequestType /\ new.pc = "claim" /\ new.kind = "accept" /\ new.invite = i
        /\ new.seen = Idle.seen /\ new.holds = Idle.holds /\ new.wrote = Idle.wrote
    BY <1>2, <2>2 DEF RequestType
  <2>4. RequestInv(new, dayRows, invites)  BY <1>2, <1>3, <2>3, NewRequest
  <2>5. Begin(r, new)  BY <2>1 DEF Accept
  <2>6. QED  BY <1>3, <2>3, <2>4, <2>5, Begins
<1>9. QED  BY <1>4, <1>5, <1>6, <1>7, <1>8

\* The questions of sendInvitation, and the claim of acceptInvitation.
LEMMA InviteSteps ==
    ASSUME Together, NEW r \in Requests,
           Ask(r, "pending") \/ Ask(r, "declined") \/ Claim(r)
    PROVE  Together'
<1> DEFINE q == request[r]
<1>1. RequestInv(q, dayRows, invites)  BY DEF Together
<1>2. q \in RequestType  BY <1>1 DEF RequestInv
<1>3. q.kind # "study"  BY <1>1 DEF Ask, Claim, RequestInv
<1>4. ASSUME NEW question \in {"pending", "declined"}, Ask(r, question) PROVE Together'
  <2> DEFINE asked == q.asked \cup {question}
             new == [q EXCEPT !.asked = asked,
                        !.pc = IF asked = {"pending", "declined"} THEN "invite" ELSE "ask"]
  <2>1. Become(r, Idle) \/ Become(r, new)  BY <1>4 DEF Ask
  <2>2. new \in RequestType  BY <1>2 DEF RequestType
  <2>3. /\ new.seen = q.seen /\ new.wrote = q.wrote /\ new.row = q.row /\ new.kind = q.kind
        /\ new.holds = q.holds /\ new.invite = q.invite /\ new.pc \in {"invite", "ask"}
    BY <1>2 DEF RequestType
  <2>4. DaysOf(new, dayRows) = DaysOf(q, dayRows)  BY <1>3, <2>3 DEF DaysOf
  <2>5. RequestInv(new, dayRows, invites)
    BY <1>1, <1>3, <2>2, <2>3, <2>4 DEF RequestInv
  <2>6. QED  BY <2>1, <2>3, <2>5, Becomes, GivesUp
<1>5. CASE Claim(r)
  <2> DEFINE new == [q EXCEPT !.holds = TRUE, !.pc = "upsert"]
  <2>1. /\ q.pc = "claim" /\ InviteFree(q.invite)
        /\ Become(r, Idle) \/ (StillPending(q.invite) /\ Become(r, new))
    BY <1>5 DEF Claim
  <2>2. new \in RequestType  BY <1>2 DEF RequestType
  <2>3. /\ new.seen = q.seen /\ new.wrote = q.wrote /\ new.row = q.row /\ new.kind = q.kind
        /\ new.invite = q.invite /\ new.pc = "upsert"
    BY <1>2 DEF RequestType
  <2>4. DaysOf(new, dayRows) = DaysOf(q, dayRows)  BY <1>3, <2>3 DEF DaysOf
  <2>5. CASE StillPending(q.invite) /\ Become(r, new)
    <3>1. RequestInv(new, dayRows, invites)
      BY <1>1, <1>3, <2>1, <2>2, <2>3, <2>4, <2>5 DEF RequestInv, StillPending
    <3>2. QED  BY <2>1, <2>3, <2>5, <3>1, Becomes
  <2>6. QED  BY <2>1, <2>5, GivesUp
<1>6. QED  BY <1>4, <1>5

-----------------------------------------------------------------------------
(* Steps that the others see                                               *)

\* The days, the pair and the invitation of a transaction become visible.
LEMMA CommitStep == ASSUME Together, NEW r \in Requests, Commit(r) PROVE Together'
<1> DEFINE q == request[r]
<1>1. RequestInv(q, dayRows, invites)  BY DEF Together
<1>2. q \in RequestType /\ (q.kind = "study" => q.label \in Nat) /\ q.who \in Members
  BY <1>1 DEF RequestInv, RequestType
<1>3. /\ dayRows \in [Members -> SUBSET Nat] /\ invites \in [Invites -> InviteType]
      /\ answers \in [Invites -> Nat] /\ request \in [Requests -> RequestType]
  BY DEF Together, TypeOK
<1>4. /\ pair' = Visible(r) /\ request' = [request EXCEPT ![r] = Idle]
      /\ invites' = IF q.holds THEN [invites EXCEPT ![q.invite].status = "ACCEPTED"] ELSE invites
      /\ answers' = IF q.holds THEN [answers EXCEPT ![q.invite] = @ + 1] ELSE answers
      /\ UNCHANGED <<now, zone, overlapped>>
  BY DEF Commit
<1>5. dayRows' = DaysOf(q, dayRows)  BY DEF Commit, DaysOf
<1>6. dayRows' \in [Members -> SUBSET Nat] /\ \A u \in Members : dayRows[u] \subseteq dayRows'[u]
  BY <1>2, <1>3, <1>5, DaysGrow DEF Members
<1>7. pair' \in PairType /\ Backed(pair', dayRows')  BY <1>4, <1>5, VisibleBacked
<1>8. invites' \in [Invites -> InviteType] /\ answers' \in [Invites -> Nat]
  <2>1. CASE ~q.holds  BY <1>3, <1>4, <2>1
  <2>2. CASE q.holds
    <3>1. q.invite \in Invites  BY <1>1, <2>2 DEF RequestInv
    <3>2. [invites[q.invite] EXCEPT !.status = "ACCEPTED"] \in InviteType
      BY <1>3, <3>1 DEF InviteType
    <3>3. invites' \in [Invites -> InviteType]  BY <1>3, <1>4, <2>2, <3>2
    <3>4. answers' \in [Invites -> Nat]  BY <1>3, <1>4, <2>2, <3>1
    <3>5. QED  BY <3>3, <3>4
  <2>3. QED  BY <2>1, <2>2
<1>9. Idle \in RequestType /\ ~Idle.holds  BY IdleFine DEF RequestInv
<1>10. TypeOK'  BY <1>3, <1>4, <1>6, <1>7, <1>8, <1>9 DEF Together, TypeOK
<1>11. StreakBacked'  BY <1>7 DEF StreakBacked
<1>12. AnsweredOnce'
  <2>1. AnsweredOnce  BY DEF Together
  <2>2. CASE ~q.holds  BY <1>4, <2>1, <2>2 DEF AnsweredOnce
  <2>3. CASE q.holds
    <3>1. q.invite \in Invites /\ invites[q.invite].status = "PENDING"
      BY <1>1, <2>3 DEF RequestInv
    <3>2. answers[q.invite] = 0  BY <2>1, <3>1 DEF AnsweredOnce
    <3>3. /\ invites'[q.invite].status = "ACCEPTED" /\ answers'[q.invite] = 1
          /\ \A i \in Invites \ {q.invite} : invites'[i] = invites[i] /\ answers'[i] = answers[i]
      BY <1>3, <1>4, <2>3, <3>1, <3>2 DEF InviteType
    <3>4. QED  BY <2>1, <3>3 DEF AnsweredOnce
  <2>4. QED  BY <2>2, <2>3
<1>13. \A s \in Requests : request'[s] = IF s = r THEN Idle ELSE request[s]  BY <1>3, <1>4
<1>14. OneHolder'  BY <1>9, <1>13 DEF Together, OneHolder
<1>15. ASSUME NEW s \in Requests PROVE RequestInv(request'[s], dayRows', invites')
  <2>1. RequestInv(request[s], dayRows, invites)  BY DEF Together
  <2>2. CASE s # r
    <3>1. request[s].holds => invites'[request[s].invite].status = "PENDING"
      <4>1. SUFFICES ASSUME request[s].holds
                     PROVE  invites'[request[s].invite].status = "PENDING"
        OBVIOUS
      <4>2. /\ request[s].invite \in Invites /\ invites[request[s].invite].status = "PENDING"
        BY <2>1, <4>1 DEF RequestInv
      <4>3. q.holds => request[s].invite # q.invite
        BY <2>2, <4>1 DEF Together, OneHolder
      <4>4. QED  BY <1>3, <1>4, <4>2, <4>3
    <3>2. RequestInv(request[s], dayRows', invites')
      BY <1>3, <1>6, <2>1, <3>1, RequestKeeps
    <3>3. QED  BY <1>13, <2>2, <3>2
  <2>3. CASE s = r
    <3>1. RequestInv(Idle, dayRows, invites) /\ ~Idle.holds  BY IdleFine
    <3>2. RequestInv(Idle, dayRows', invites')  BY <1>3, <1>6, <3>1, RequestKeeps
    <3>3. QED  BY <1>13, <2>3, <3>2
  <2>4. QED  BY <2>2, <2>3
<1>16. QED  BY <1>10, <1>11, <1>12, <1>14, <1>15 DEF Together

\* An invitation changes in one statement, in the hands of nobody else.
LEMMA OneInvitation ==
    ASSUME Together, NEW i \in Invites, InviteFree(i),
           NEW new \in InviteType, NEW n \in Nat,
           invites' = [invites EXCEPT ![i] = new], answers' = [answers EXCEPT ![i] = n],
           n = IF new.status \in {"none", "PENDING"} THEN 0 ELSE 1,
           UNCHANGED <<now, zone, dayRows, pair, request, overlapped>>
    PROVE  Together'
<1>1. /\ invites \in [Invites -> InviteType] /\ answers \in [Invites -> Nat]
      /\ dayRows \in [Members -> SUBSET Nat]
  BY DEF Together, TypeOK
<1>2. \A j \in Invites : /\ invites'[j] = IF j = i THEN new ELSE invites[j]
                         /\ answers'[j] = IF j = i THEN n ELSE answers[j]
  BY <1>1
<1>3. TypeOK'  BY <1>1 DEF Together, TypeOK
<1>4. StreakBacked' /\ OneHolder'  BY DEF Together, StreakBacked, OneHolder
<1>5. AnsweredOnce'  BY <1>2 DEF Together, AnsweredOnce
<1>6. ASSUME NEW s \in Requests PROVE RequestInv(request'[s], dayRows', invites')
  <2>1. RequestInv(request[s], dayRows, invites)  BY DEF Together
  <2>2. request[s].holds => invites'[request[s].invite].status = "PENDING"
    BY <1>2, <2>1 DEF RequestInv, InviteFree
  <2>3. RequestInv(request[s], dayRows, invites')  BY <1>1, <2>1, <2>2, RequestKeeps
  <2>4. QED  BY <2>3
<1>7. QED  BY <1>3, <1>4, <1>5, <1>6 DEF Together

\* Answers, and the passing of time on an invitation.
LEMMA InvitationSteps ==
    ASSUME Together, NEW i \in Invites,
           Answer(i, "DECLINED") \/ Answer(i, "CANCELLED") \/ CooldownEnds(i)
    PROVE  Together'
<1>1. invites \in [Invites -> InviteType] /\ answers \in [Invites -> Nat]
  BY DEF Together, TypeOK
<1>2. AnsweredOnce  BY DEF Together
<1>3. ASSUME NEW status \in {"DECLINED", "CANCELLED"}, Answer(i, status) PROVE Together'
  <2> DEFINE new == [invites[i] EXCEPT !.status = status, !.recent = TRUE]
  <2>1. /\ InviteFree(i) /\ invites[i].status = "PENDING"
        /\ invites' = [invites EXCEPT ![i].status = status, ![i].recent = TRUE]
        /\ answers' = [answers EXCEPT ![i] = @ + 1]
        /\ UNCHANGED <<now, zone, dayRows, pair, request, overlapped>>
    BY <1>3 DEF Answer, StillPending
  <2>2. invites' = [invites EXCEPT ![i] = new]  BY <1>1, <2>1
  <2>3. answers[i] = 0  BY <1>2, <2>1 DEF AnsweredOnce
  <2>4. answers' = [answers EXCEPT ![i] = 1]  BY <1>1, <2>1, <2>3
  <2>5. new \in InviteType /\ new.status = status  BY <1>1 DEF InviteType
  <2>6. 1 = IF new.status \in {"none", "PENDING"} THEN 0 ELSE 1  BY <1>3, <2>5
  <2>7. QED  BY ZenonT(60), <2>1, <2>2, <2>4, <2>5, <2>6, OneInvitation
<1>4. CASE CooldownEnds(i)
  <2> DEFINE new == [invites[i] EXCEPT !.recent = FALSE]
  <2>1. /\ invites[i].status = "DECLINED"
        /\ invites' = [invites EXCEPT ![i] = new] /\ answers' = [answers EXCEPT ![i] = answers[i]]
        /\ UNCHANGED <<now, zone, dayRows, pair, request, overlapped>>
    BY <1>1, <1>4 DEF CooldownEnds
  <2>2. InviteFree(i)  BY <2>1 DEF InviteFree, Together, RequestInv
  <2>3. new \in InviteType /\ new.status = "DECLINED"  BY <1>1, <2>1 DEF InviteType
  <2>4. answers[i] = 1 /\ answers[i] \in Nat  BY <1>1, <1>2, <2>1 DEF AnsweredOnce
  <2>5. QED  BY <2>1, <2>2, <2>3, <2>4, OneInvitation
<1>5. QED  BY <1>3, <1>4

\* A pending invitation expires under whoever is answering it.
LEMMA ExpiryStep == ASSUME Together, NEW i \in Invites, InviteExpires(i) PROVE Together'
<1>1. /\ invites \in [Invites -> InviteType] /\ dayRows \in [Members -> SUBSET Nat]
      /\ invites' = [invites EXCEPT ![i].expired = TRUE]
      /\ UNCHANGED <<now, zone, dayRows, pair, request, answers, overlapped>>
  BY DEF Together, TypeOK, InviteExpires
<1>2. invites' \in [Invites -> InviteType] /\ \A j \in Invites : invites'[j].status = invites[j].status
  BY <1>1 DEF InviteType
<1>3. TypeOK'  BY <1>1, <1>2 DEF Together, TypeOK
<1>4. StreakBacked' /\ OneHolder'  BY <1>1 DEF Together, StreakBacked, OneHolder
<1>5. AnsweredOnce'  BY <1>1, <1>2 DEF Together, AnsweredOnce
<1>6. ASSUME NEW s \in Requests PROVE RequestInv(request'[s], dayRows', invites')
  <2>1. RequestInv(request[s], dayRows, invites)  BY DEF Together
  <2>2. request[s].holds => invites'[request[s].invite].status = "PENDING"
    BY <1>2, <2>1 DEF RequestInv
  <2>3. RequestInv(request[s], dayRows, invites')  BY <1>1, <2>1, <2>2, RequestKeeps
  <2>4. QED  BY <1>1, <2>3
<1>7. QED  BY <1>3, <1>4, <1>5, <1>6 DEF Together

\* sendInvitation creates its row.
LEMMA CreateStep ==
    ASSUME Together, NEW r \in Requests, NEW i \in Invites, CreateInvite(r, i)
    PROVE  Together'
<1> DEFINE new == [NoInvite EXCEPT !.status = "PENDING", !.by = request[r].who]
<1>1. /\ invites \in [Invites -> InviteType] /\ dayRows \in [Members -> SUBSET Nat]
      /\ request \in [Requests -> RequestType]
      /\ invites[i].status = "none" /\ invites' = [invites EXCEPT ![i] = new]
      /\ request' = [request EXCEPT ![r] = Idle]
      /\ UNCHANGED <<now, zone, dayRows, pair, answers, overlapped>>
  BY DEF Together, TypeOK, CreateInvite
<1>2. new \in InviteType /\ new.status = "PENDING"
  <2>1. request[r].who \in Members  BY <1>1 DEF RequestType
  <2>2. QED  BY <2>1 DEF NoInvite, InviteType, Members
<1>3. \A j \in Invites : invites'[j] = IF j = i THEN new ELSE invites[j]  BY <1>1
<1>4. Idle \in RequestType /\ ~Idle.holds /\ RequestInv(Idle, dayRows, invites)
  BY IdleFine DEF RequestInv
<1>5. \A s \in Requests : request'[s] = IF s = r THEN Idle ELSE request[s]  BY <1>1
<1>6. TypeOK'  BY <1>1, <1>2, <1>4 DEF Together, TypeOK
<1>7. StreakBacked'  BY <1>1 DEF Together, StreakBacked
<1>8. OneHolder'  BY <1>4, <1>5 DEF Together, OneHolder
<1>9. AnsweredOnce'  BY <1>1, <1>2, <1>3 DEF Together, AnsweredOnce
<1>10. ASSUME NEW s \in Requests PROVE RequestInv(request'[s], dayRows', invites')
  <2>1. RequestInv(request'[s], dayRows, invites)  BY <1>4, <1>5 DEF Together
  <2>2. request'[s].holds => invites'[request'[s].invite].status = "PENDING"
    BY <1>2, <1>3, <2>1 DEF RequestInv
  <2>3. RequestInv(request'[s], dayRows, invites')  BY <1>1, <2>1, <2>2, RequestKeeps
  <2>4. QED  BY <1>1, <2>3
<1>11. QED  BY <1>6, <1>7, <1>8, <1>9, <1>10 DEF Together

\* The clock.
LEMMA TickStep == ASSUME Together, Tick PROVE Together'
<1>1. now \in Nat /\ now' = now + 1 /\ UNCHANGED <<zone, dayRows, pair, invites, request, answers, overlapped>>
  BY DEF Together, TypeOK, Tick
<1>2. TypeOK'  BY <1>1 DEF Together, TypeOK
<1>3. QED  BY <1>1, <1>2 DEF Together, StreakBacked, AnsweredOnce, OneHolder

-----------------------------------------------------------------------------
(* The theorems                                                            *)

\* Any past that the assumption allows is a good start.
LEMMA Start == Init => Together
<1> SUFFICES ASSUME Init PROVE Together  OBVIOUS
<1>1. PICK past \in Pasts :
         /\ now = past.now /\ zone = past.zone /\ dayRows = past.days
         /\ pair = past.pair /\ invites = past.invites
  BY DEF Init
<1>2. /\ past \in [now : Nat, zone : [Members -> Zones], days : [Members -> SUBSET Nat],
                   pair : PairType, invites : [Invites -> InviteType]]
      /\ Backed(past.pair, past.days)
      /\ \A i \in Invites : past.invites[i].status \in {"none", "PENDING"}
  BY <1>1, StreakAssumption
<1>3. /\ request = [r \in Requests |-> Idle] /\ answers = [i \in Invites |-> 0]
      /\ overlapped = FALSE
  BY DEF Init
<1>4. NoPair \in PairType  BY DEF NoPair, PairType, Never
<1>5. Idle \in RequestType  BY <1>4 DEF Idle, RequestType, Members, Never
<1>6. TypeOK  BY <1>1, <1>2, <1>3, <1>5 DEF TypeOK
<1>7. StreakBacked  BY <1>1, <1>2 DEF StreakBacked
<1>8. AnsweredOnce  BY <1>1, <1>2, <1>3 DEF AnsweredOnce
<1>9. \A r \in Requests : request[r] = Idle /\ ~request[r].holds  BY <1>3 DEF Idle
<1>10. OneHolder  BY <1>9 DEF OneHolder
<1>11. Backed(NoPair, dayRows)  BY <1>4, NoStreakBacked DEF NoPair
<1>12. RequestInv(Idle, dayRows, invites)  BY <1>5, <1>11 DEF RequestInv, Idle, DaysOf
<1>13. QED  BY <1>6, <1>7, <1>8, <1>9, <1>10, <1>12 DEF Together

\* One step of anything.
LEMMA Kept == Together /\ [Next]_vars => Together'
<1> SUFFICES ASSUME Together, [Next]_vars PROVE Together'  OBVIOUS
<1>1. ASSUME NEW r \in Requests, Run(r) PROVE Together'
  <2>1. CASE FindActive(r) \/ Break(r) \/ FindPartnerDay(r) \/ Advance(r)  BY <2>1, DaySteps
  <2>2. CASE CheckBoth(r) \/ Reset(r) \/ Recompute(r) \/ Attempt(r) \/ Refresh(r)
    BY <2>2, ViewSteps
  <2>3. CASE FindPair(r) \/ CreatePair(r) \/ CreateTwice(r) \/ UpdatePair(r)  BY <2>3, PairSteps
  <2>4. CASE Ask(r, "pending") \/ Ask(r, "declined") \/ Claim(r)  BY <2>4, InviteSteps
  <2>5. CASE Commit(r)  BY <2>5, CommitStep
  <2>6. QED  BY <1>1, <2>1, <2>2, <2>3, <2>4, <2>5 DEF Run
<1>2. ASSUME NEW r \in Requests, Rollback(r) PROVE Together'  BY <1>2, GivesUp DEF Rollback
<1>3. ASSUME NEW r \in Requests, View(r) PROVE Together'  BY <1>3, Beginnings DEF Members
<1>4. ASSUME NEW r \in Requests, NEW u \in Members,
             OpenDay(r, u) \/ Send(r, u) \/ JoinByLink(r, u)
      PROVE  Together'
  BY <1>4, Beginnings
<1>5. ASSUME NEW r \in Requests, NEW i \in Invites, Accept(r, i) PROVE Together'
  BY <1>5, Beginnings DEF Members
<1>6. ASSUME NEW r \in Requests, NEW i \in Invites, CreateInvite(r, i) PROVE Together'
  BY <1>6, CreateStep
<1>7. ASSUME NEW i \in Invites,
             Answer(i, "DECLINED") \/ Answer(i, "CANCELLED") \/ InviteExpires(i) \/ CooldownEnds(i)
      PROVE  Together'
  BY <1>7, InvitationSteps, ExpiryStep
<1>8. CASE Tick  BY <1>8, TickStep
<1>9. CASE UNCHANGED vars
  BY <1>9 DEF vars, Together, TypeOK, StreakBacked, AnsweredOnce, OneHolder
<1>10. QED  BY <1>1, <1>2, <1>3, <1>4, <1>5, <1>6, <1>7, <1>8, <1>9 DEF Next

\* The invariant, in every behaviour.
THEOREM Inductive == Spec => []Together
BY Start, Kept, PTL DEF Spec

\* Every variable keeps its type, whatever requests and invitations there are.
THEOREM Typed == Spec => []TypeOK
<1>1. Together => TypeOK  BY DEF Together
<1>2. QED  BY <1>1, Inductive, PTL

\* processPairActivity, views and restarts may interleave as they like: the
\* days a streak counts are days that both partners opened.
THEOREM StreakAlwaysBacked == Spec => []StreakBacked
<1>1. Together => StreakBacked  BY DEF Together
<1>2. QED  BY <1>1, Inductive, PTL

\* Of accept, decline and cancel, in any number of tabs, one is answered with
\* success, and the status of the invitation is that answer.
THEOREM AlwaysAnsweredOnce == Spec => []AnsweredOnce
<1>1. Together => AnsweredOnce  BY DEF Together
<1>2. QED  BY <1>1, Inductive, PTL

-----------------------------------------------------------------------------
(* One request after the other                                             *)

LEMMA DaysInOrder ==
    ASSUME NEW i \in Nat, NEW j \in Nat, i <= j, NEW z
    PROVE  formatDayInTimeZone(i, z) <= formatDayInTimeZone(j, z)
<1>1. SlotsPerDay \in Nat /\ SlotsPerDay > 0 /\ ZoneShift \in Nat  BY DayWindowAssumption
<1> DEFINE shift == IF z = "local" THEN ZoneShift ELSE 0
<1>2. shift \in Nat  BY <1>1
<1> HIDE DEF shift
<1>3. ASSUME NEW a \in Nat, NEW b \in Nat, a <= b
      PROVE  a \div SlotsPerDay <= b \div SlotsPerDay
  BY <1>1, <1>3
<1>4. (i + shift) \div SlotsPerDay <= (j + shift) \div SlotsPerDay  BY <1>2, <1>3
<1> QED  BY <1>4 DEF formatDayInTimeZone, shift

LEMMA FreshStartCounted ==
    ASSUME NEW row \in PairType, NEW days
    PROVE  /\ Counted(restarted(row), days)
           /\ Counted([NoPair EXCEPT !.status = "ACTIVE"], days)
           /\ Counted([row EXCEPT !.status = "BROKEN", !.currentStreak = 0], days)
BY DEF Counted, restarted, NoPair, PairType

(* One request moves on, alone or not.                                     *)
LEMMA MovesOn ==
    ASSUME Together, OneByOne, NEW r \in Requests, Open(r), NEW new, Become(r, new),
           InTime(new), ~overlapped /\ CountsOn(request[r]) => CountsOn(new)
    PROVE  OneByOne'
<1>1. /\ request' = [request EXCEPT ![r] = new] /\ request \in [Requests -> RequestType]
      /\ UNCHANGED <<now, zone, dayRows, pair, overlapped>>
  BY DEF Become, OnlyRequest, Together, TypeOK
<1>2. request'[r] = new /\ \A s \in Requests : s # r => request'[s] = request[s]
  BY <1>1
<1>3. \A u \in Members : Ahead(u, labelOf(u))'
  BY <1>1 DEF OneByOne, Ahead, labelOf
<1>4. \A s \in Requests : InTime(request'[s])
  BY <1>2 DEF OneByOne
<1>5. \A s \in Requests : InTime(request[s])'
  BY <1>1, <1>4 DEF InTime, labelOf
<1>6. ASSUME ~overlapped
      PROVE  /\ \A p, s \in Requests : Open(p)' /\ Open(s)' => p = s
             /\ Counted(pair, dayRows)
             /\ \A s \in Requests : Open(s)' => CountsOn(request'[s])
  <2>1. \A s \in Requests : Open(s)' => s = r
    BY <1>2, <1>6 DEF OneByOne, Open
  <2>2. CountsOn(request'[r])  BY <1>2, <1>6 DEF OneByOne
  <2> QED  BY <1>6, <2>1, <2>2 DEF OneByOne
<1>7. \A s \in Requests : CountsOn(request'[s]) => CountsOn(request[s])'
  BY <1>1 DEF CountsOn, SeenBy, Ahead
<1> QED  BY <1>1, <1>3, <1>5, <1>6, <1>7 DEF OneByOne

(* The days a request leaves behind it.                                    *)
LEMMA DaysLeft ==
    ASSUME Together, NEW q \in RequestType, q.kind = "study" => q.label \in Nat
    PROVE  /\ \A u \in Members : \A d \in DaysOf(q, dayRows)[u] :
                 d \in dayRows[u] \/ (q.kind = "study" /\ u = q.who /\ d = q.label)
           /\ q.kind # "study" => DaysOf(q, dayRows) = dayRows
           /\ \A u \in Members : dayRows[u] \subseteq Nat
<1>1. q.who \in Members /\ dayRows \in [Members -> SUBSET Nat]
  BY DEF RequestType, Together, TypeOK
<1> QED  BY <1>1 DEF DaysOf

LEMMA DayStepsCount ==
    ASSUME Together, OneByOne, NEW r \in Requests,
           FindActive(r) \/ Break(r) \/ FindPartnerDay(r) \/ Advance(r)
    PROVE  OneByOne'
<1> DEFINE q == request[r]
           days == DaysOf(q, dayRows)
<1>1. /\ q \in RequestType /\ RequestInv(q, dayRows, invites) /\ InTime(q)
      /\ (q.kind = "study" => q.label \in Nat) /\ q.who \in Members
      /\ pair \in PairType /\ Visible(r) \in PairType /\ Visible(r) = SeenBy(q)
  BY VisibleBacked DEF Together, RequestInv, OneByOne, TypeOK, RequestType, Visible, SeenBy
<1>2. /\ \A u \in Members : \A d \in days[u] :
            d \in dayRows[u] \/ (q.kind = "study" /\ u = q.who /\ d = q.label)
      /\ q.kind # "study" => days = dayRows
      /\ \A u \in Members : dayRows[u] \subseteq Nat
  BY <1>1, DaysLeft
<1>3. Open(r)
  BY DEF FindActive, Break, FindPartnerDay, Advance, Open
<1>4. afterDay(r) \in {"commit", "refresh"} /\ (q.kind = "study" => afterDay(r) = "commit")
  BY AfterDayFine
<1>5. ~overlapped => Counted(pair, dayRows)  BY DEF OneByOne
<1>6. CASE FindActive(r)
  <2>1. q.pc = "find" /\ q.kind = "study"  BY <1>1, <1>6 DEF FindActive, RequestInv
  <2>2. CASE pair.status # "ACTIVE"
    <3> DEFINE new == [q EXCEPT !.pc = "commit"]
    <3>1. Become(r, new)  BY <1>6, <2>2 DEF FindActive
    <3>2. /\ new.kind = q.kind /\ new.label = q.label /\ new.who = q.who
          /\ new.wrote = q.wrote /\ new.pc = "commit"
      BY <1>1 DEF RequestType
    <3> HIDE DEF new
    <3>3. CountsOn(q) => CountsOn(new)
      BY <2>1, <2>2, <3>2 DEF CountsOn, SeenBy, Counted
    <3> QED  BY <1>1, <1>3, <3>1, <3>2, <3>3, MovesOn DEF InTime
  <2>3. CASE pair.status = "ACTIVE"
    <3> DEFINE v   == verdict(pair, q.label)
               new == [q EXCEPT !.seen = pair, !.label = q.label,
                                !.pc = IF v = "done" THEN afterDay(r) ELSE v]
    <3>1. Become(r, new)  BY <1>6, <2>3 DEF FindActive, processPairActivity
    <3>2. /\ new.kind = q.kind /\ new.label = q.label /\ new.who = q.who
          /\ new.wrote = q.wrote /\ new.pc = IF v = "done" THEN "commit" ELSE v
      BY <1>1, <1>4, <2>1 DEF RequestType
    <3>3. v \in {"done", "break", "partner"}  BY DEF verdict
    <3>4. v = "done" => q.label <= pair.lastQualifiedDay  BY DEF verdict
    <3>5. DaysOf(new, dayRows) = days  BY <3>2 DEF DaysOf
    <3> HIDE DEF new, v, days
    <3>6. ASSUME CountsOn(q), ~overlapped PROVE CountsOn(new)
      <4>1. ~q.wrote /\ Ahead(q.who, q.label) /\ Counted(pair, dayRows)
        BY <1>5, <2>1, <3>6 DEF CountsOn
      <4>2. CASE v = "done"
        <5>1. Counted(pair, days)
          BY <1>2, <3>4, <4>1, <4>2 DEF Counted, Members
        <5>2. new.pc = "commit" /\ SeenBy(new) = pair  BY <3>2, <4>1, <4>2 DEF SeenBy
        <5> QED  BY <2>1, <3>2, <3>5, <5>1, <5>2 DEF CountsOn
      <4>3. CASE v \in {"break", "partner"}
        BY <2>1, <3>2, <4>1, <4>3 DEF CountsOn
      <4> QED  BY <3>3, <4>2, <4>3
    <3> QED  BY <1>1, <1>3, <3>1, <3>2, <3>6, MovesOn DEF InTime
  <2> QED  BY <2>2, <2>3
<1>7. ASSUME NEW row \in PairType, WritePair(r, row, afterDay(r)), Counted(row, days) \/ overlapped,
             q.pc \in {"break", "advance"}
      PROVE  OneByOne'
  <2> DEFINE new == [q EXCEPT !.wrote = TRUE, !.row = row, !.pc = afterDay(r)]
  <2>1. Become(r, new)  BY <1>7 DEF WritePair
  <2>2. /\ new.kind = q.kind /\ new.label = q.label /\ new.who = q.who /\ new.wrote
        /\ new.row = row /\ new.pc = afterDay(r) /\ new.labels = q.labels
    BY <1>1 DEF RequestType
  <2>3. DaysOf(new, dayRows) = days  BY <2>2 DEF DaysOf
  <2> HIDE DEF new, days
  <2>4. ASSUME CountsOn(q), ~overlapped PROVE CountsOn(new)
    BY <1>2, <1>4, <1>7, <2>2, <2>3, <2>4 DEF CountsOn, SeenBy
  <2> QED  BY <1>1, <1>3, <2>1, <2>2, <2>4, MovesOn DEF InTime
<1>8. CASE Break(r)
  <2> DEFINE row == [Visible(r) EXCEPT !.status = "BROKEN", !.currentStreak = 0]
  <2>1. row \in PairType  BY <1>1 DEF PairType
  <2>2. Counted(row, days)  BY <1>1, FreshStartCounted
  <2>3. WritePair(r, row, afterDay(r)) /\ q.pc = "break"  BY <1>8 DEF Break
  <2> HIDE DEF row, days
  <2> QED  BY <1>7, <2>1, <2>2, <2>3
<1>9. CASE Advance(r)
  <2> DEFINE next == nextStreak(q.seen, q.label)
             row  == [Visible(r) EXCEPT !.currentStreak = next,
                        !.longestStreak = larger(q.seen.longestStreak, next),
                        !.lastQualifiedDay = q.label]
  <2>1. WritePair(r, row, afterDay(r)) /\ q.pc = "advance"  BY <1>9 DEF Advance
  <2>2. /\ Backed(q.seen, days) /\ verdict(q.seen, q.label) = "partner"
        /\ q.label \in days[q.who] /\ q.label \in days[other(q.who)]
        /\ q.seen \in PairType
    BY <1>1, <2>1 DEF RequestInv, RequestType
  <2>3. q.label \in days["low"] /\ q.label \in days["high"]
    BY <1>1, <2>2 DEF Members, other
  <2>4. q.label \in Nat  BY <1>1, <1>2, <2>3 DEF Members
  <2>5. row \in PairType
    BY <1>1, <2>2, <2>3, <2>4, AdvancedBacked
  <2>6. row.lastQualifiedDay = q.label  BY <1>1 DEF PairType
  <2>7. ASSUME ~overlapped PROVE Counted(row, days)
    <3>1. Ahead(q.who, q.label)  BY <1>3, <2>1, <2>7 DEF OneByOne, CountsOn
    <3>2. \A d \in days[q.who] : d <= q.label
      BY <1>1, <1>2, <2>4, <3>1 DEF Ahead
    <3>3. q.who = "low" \/ q.who = "high"  BY <1>1 DEF Members
    <3> HIDE DEF row, days
    <3> QED  BY <2>6, <3>2, <3>3 DEF Counted
  <2> HIDE DEF row, days
  <2> QED  BY <1>7, <2>1, <2>5, <2>7
<1>10. CASE FindPartnerDay(r)
  <2> DEFINE found == q.label \in dayRows[other(q.who)]
             new   == [q EXCEPT !.pc = IF found THEN "advance" ELSE afterDay(r)]
  <2>1. Become(r, new) /\ q.pc = "partner"  BY <1>10 DEF FindPartnerDay
  <2>2. /\ new.kind = q.kind /\ new.label = q.label /\ new.who = q.who /\ new.wrote = q.wrote
        /\ new.row = q.row /\ new.pc = (IF found THEN "advance" ELSE afterDay(r))
        /\ new.labels = q.labels
    BY <1>1 DEF RequestType
  <2>3. DaysOf(new, dayRows) = days /\ SeenBy(new) = SeenBy(q)  BY <2>2 DEF DaysOf, SeenBy
  <2> HIDE DEF new
  <2>4. ASSUME CountsOn(q), ~overlapped PROVE CountsOn(new)
    <3>1. CASE found  BY <2>1, <2>2, <2>3, <2>4, <3>1 DEF CountsOn
    <3>2. CASE ~found /\ q.kind = "study"
      <4>1. ~q.wrote /\ Counted(pair, dayRows)  BY <1>5, <2>1, <2>4, <3>2 DEF CountsOn
      <4>2. \A d \in days["low"] \cap days["high"] : d \in dayRows["low"] \cap dayRows["high"]
        BY <1>1, <1>2, <3>2 DEF Members, other
      <4>3. Counted(pair, days)  BY <4>1, <4>2 DEF Counted
      <4>4. SeenBy(new) = pair /\ new.pc = "commit"
        BY <1>4, <2>2, <3>2, <4>1 DEF SeenBy
      <4> HIDE DEF days
      <4> QED  BY <2>2, <2>3, <3>2, <4>3, <4>4 DEF CountsOn
    <3>3. CASE ~found /\ q.kind # "study"
      BY <1>2, <1>4, <2>1, <2>2, <2>3, <2>4, <3>3 DEF CountsOn
    <3> QED  BY <3>1, <3>2, <3>3
  <2> QED  BY <1>1, <1>3, <2>1, <2>2, <2>4, MovesOn DEF InTime
<1> QED  BY <1>6, <1>8, <1>9, <1>10

(* A request that is no study and goes on with the pair it sees.           *)
LEMMA SeesTheSame ==
    ASSUME Together, OneByOne, NEW r \in Requests, Open(r), NEW new, Become(r, new),
           request[r].kind # "study", new.kind = request[r].kind,
           \/ SeenBy(new) = SeenBy(request[r])
           \/ Counted(SeenBy(new), dayRows),
           ~overlapped /\ CountsOn(request[r]) =>
               /\ new.pc \in {"find", "break", "partner", "advance"} => Ahead(new.who, new.label)
               /\ new.pc \in {"attempt", "refresh", "break", "partner", "advance"} =>
                     \A u \in Members : Ahead(u, new.labels[u])
    PROVE  OneByOne'
<1>1. InTime(new) /\ DaysOf(new, dayRows) = dayRows  BY DEF InTime, DaysOf
<1>2. ASSUME ~overlapped, CountsOn(request[r]) PROVE CountsOn(new)
  <2>1. Counted(SeenBy(new), dayRows)  BY <1>2 DEF CountsOn
  <2> QED  BY <1>1, <1>2, <2>1 DEF CountsOn
<1> QED  BY <1>1, <1>2, MovesOn

LEMMA ViewStepsCount ==
    ASSUME Together, OneByOne, NEW r \in Requests,
           CheckBoth(r) \/ Reset(r) \/ Recompute(r) \/ Attempt(r) \/ Refresh(r)
    PROVE  OneByOne'
<1> DEFINE q == request[r]
<1>1. /\ q \in RequestType /\ RequestInv(q, dayRows, invites) /\ q.who \in Members
      /\ Visible(r) \in PairType /\ Visible(r) = SeenBy(q)
  BY VisibleBacked DEF Together, RequestInv, RequestType, Visible, SeenBy
<1>2. Open(r) /\ q.kind # "study"
  BY <1>1 DEF CheckBoth, Reset, Recompute, Attempt, Refresh, Open, RequestInv
<1>3. CASE CheckBoth(r)
  <2> DEFINE new == [q EXCEPT !.pc = IF BothOpened(r) THEN "reset" ELSE "commit"]
  <2>1. Become(r, new)  BY <1>3 DEF CheckBoth
  <2>2. /\ new.kind = q.kind /\ new.wrote = q.wrote /\ new.row = q.row
        /\ new.pc \in {"reset", "commit"}
    BY <1>1 DEF RequestType
  <2> HIDE DEF new
  <2>3. SeenBy(new) = SeenBy(q)  BY <2>2 DEF SeenBy
  <2> QED  BY <1>2, <2>1, <2>2, <2>3, SeesTheSame
<1>4. CASE Reset(r)
  <2> DEFINE new == [q EXCEPT !.wrote = TRUE, !.row = restarted(Visible(r)),
                              !.seen = restarted(Visible(r)), !.pc = "recompute"]
  <2>1. Become(r, new)  BY <1>4 DEF Reset
  <2>2. /\ new.kind = q.kind /\ new.wrote /\ new.row = restarted(Visible(r))
        /\ new.pc = "recompute"
    BY <1>1 DEF RequestType
  <2> HIDE DEF new
  <2>3. Counted(SeenBy(new), dayRows)
    BY <1>1, <2>2, FreshStartCounted DEF SeenBy
  <2> QED  BY <1>2, <2>1, <2>2, <2>3, SeesTheSame
<1>5. CASE Recompute(r)
  <2> DEFINE ls  == [u \in Members |-> labelOf(u)]
             new == [q EXCEPT !.labels = ls, !.who = "low", !.pc = "attempt"]
  <2>1. Become(r, new)  BY <1>5 DEF Recompute
  <2>2. /\ new.kind = q.kind /\ new.wrote = q.wrote /\ new.row = q.row
        /\ new.pc = "attempt" /\ new.labels = ls
    BY <1>1 DEF RequestType
  <2>3. \A u \in Members : Ahead(u, ls[u])  BY DEF OneByOne
  <2> HIDE DEF new, ls
  <2>4. SeenBy(new) = SeenBy(q)  BY <2>2 DEF SeenBy
  <2> QED  BY <1>2, <2>1, <2>2, <2>3, <2>4, SeesTheSame
<1>6. ASSUME NEW seen, Become(r, afterTurn(r, seen)), q.pc \in {"attempt", "refresh"}
      PROVE  OneByOne'
  <2> DEFINE new == [q EXCEPT !.seen = seen, !.who = "high",
                              !.pc = IF q.who = "low" THEN "attempt" ELSE "commit"]
  <2>1. Become(r, new)  BY <1>6 DEF afterTurn
  <2>2. /\ new.kind = q.kind /\ new.wrote = q.wrote /\ new.row = q.row
        /\ new.pc \in {"attempt", "commit"} /\ new.labels = q.labels
    BY <1>1 DEF RequestType
  <2> HIDE DEF new
  <2>3. SeenBy(new) = SeenBy(q)  BY <2>2 DEF SeenBy
  <2>4. CountsOn(q) => \A u \in Members : Ahead(u, new.labels[u])
    BY <1>2, <1>6, <2>2 DEF CountsOn
  <2> QED  BY <1>2, <2>1, <2>2, <2>3, <2>4, SeesTheSame
<1>7. CASE Refresh(r)  BY <1>6, <1>7 DEF Refresh
<1>8. CASE Attempt(r)
  <2>1. q.pc = "attempt"  BY <1>8 DEF Attempt
  <2>2. CASE Become(r, [q EXCEPT !.pc = "commit"])
    <3> DEFINE new == [q EXCEPT !.pc = "commit"]
    <3>1. /\ new.kind = q.kind /\ new.wrote = q.wrote /\ new.row = q.row
          /\ new.pc = "commit"
      BY <1>1 DEF RequestType
    <3>2. Become(r, new)  BY <2>2
    <3> HIDE DEF new
    <3>3. SeenBy(new) = SeenBy(q)  BY <3>1 DEF SeenBy
    <3> QED  BY <1>2, <3>1, <3>2, <3>3, SeesTheSame
  <2>3. CASE Become(r, afterTurn(r, q.seen))  BY <1>6, <2>1, <2>3
  <2>4. CASE Become(r, processPairActivity(r, q.seen, q.labels[q.who]))
    <3> DEFINE v   == verdict(q.seen, q.labels[q.who])
               new == [q EXCEPT !.seen = q.seen, !.label = q.labels[q.who],
                                !.pc = IF v = "done" THEN afterDay(r) ELSE v]
    <3>1. Become(r, new)  BY <2>4 DEF processPairActivity
    <3>2. /\ new.kind = q.kind /\ new.wrote = q.wrote /\ new.row = q.row
          /\ new.who = q.who /\ new.label = q.labels[q.who] /\ new.labels = q.labels
      BY <1>1 DEF RequestType
    <3> HIDE DEF new
    <3>3. SeenBy(new) = SeenBy(q)  BY <3>2 DEF SeenBy
    <3>4. CountsOn(q) => /\ \A u \in Members : Ahead(u, new.labels[u])
                         /\ Ahead(new.who, new.label)
      BY <1>1, <1>2, <2>1, <3>2 DEF CountsOn
    <3> QED  BY <1>2, <3>1, <3>2, <3>3, <3>4, SeesTheSame
  <2> QED  BY <1>8, <2>2, <2>3, <2>4 DEF Attempt
<1> QED  BY <1>3, <1>4, <1>5, <1>7, <1>8

LEMMA IdleCounts == CountsOn(Idle) <=> Counted(pair, dayRows)
BY DEF CountsOn, Idle, SeenBy

LEMMA OtherStepsCount ==
    ASSUME Together, OneByOne, NEW r \in Requests,
           \/ Ask(r, "pending") \/ Ask(r, "declined") \/ Claim(r)
           \/ FindPair(r) \/ CreatePair(r) \/ CreateTwice(r) \/ UpdatePair(r) \/ Rollback(r)
    PROVE  OneByOne'
<1> DEFINE q == request[r]
<1>1. /\ q \in RequestType /\ RequestInv(q, dayRows, invites)
      /\ Visible(r) \in PairType /\ Visible(r) = SeenBy(q)
  BY VisibleBacked DEF Together, RequestInv, RequestType, Visible, SeenBy
<1>2. Open(r)
  BY DEF Ask, Claim, FindPair, CreatePair, CreateTwice, UpdatePair, Rollback, Open
<1>3. ASSUME Become(r, Idle) PROVE OneByOne'
  <2>1. InTime(Idle)  BY DEF InTime, Idle
  <2>2. ~overlapped => CountsOn(Idle)  BY IdleCounts DEF OneByOne
  <2> QED  BY <1>2, <1>3, <2>1, <2>2, MovesOn
<1>4. CASE Rollback(r) \/ CreateTwice(r)
  BY <1>3, <1>4 DEF Rollback, CreateTwice
<1>5. ASSUME NEW new, Become(r, new), new.kind = q.kind, new.wrote = q.wrote,
             new.row = q.row, q.kind # "study",
             new.pc \in {"ask", "invite", "upsert", "create", "update"}
      PROVE  OneByOne'
  <2>1. SeenBy(new) = SeenBy(q)  BY <1>5 DEF SeenBy
  <2> QED  BY <1>2, <1>5, <2>1, SeesTheSame
<1>6. ASSUME NEW question, Ask(r, question) PROVE OneByOne'
  <2> DEFINE asked == q.asked \cup {question}
             new == [q EXCEPT !.asked = asked,
                        !.pc = IF asked = {"pending", "declined"} THEN "invite" ELSE "ask"]
  <2>1. Become(r, Idle) \/ Become(r, new)  BY <1>6 DEF Ask
  <2>2. /\ new.kind = q.kind /\ new.wrote = q.wrote /\ new.row = q.row
        /\ new.pc \in {"ask", "invite"}
    BY <1>1 DEF RequestType
  <2>3. q.kind # "study"  BY <1>1, <1>6 DEF Ask, RequestInv
  <2> HIDE DEF new
  <2> QED  BY <1>3, <1>5, <2>1, <2>2, <2>3
<1>7. CASE Claim(r)
  <2> DEFINE new == [q EXCEPT !.holds = TRUE, !.pc = "upsert"]
  <2>1. Become(r, Idle) \/ Become(r, new)  BY <1>7 DEF Claim
  <2>2. /\ new.kind = q.kind /\ new.wrote = q.wrote /\ new.row = q.row
        /\ new.pc = "upsert"
    BY <1>1 DEF RequestType
  <2>3. q.kind # "study"  BY <1>1, <1>7 DEF Claim, RequestInv
  <2> HIDE DEF new
  <2> QED  BY <1>3, <1>5, <2>1, <2>2, <2>3
<1>8. CASE FindPair(r)
  <2> DEFINE new == [q EXCEPT !.pc = IF pair.status = "none" THEN "create" ELSE "update"]
  <2>1. Become(r, new)  BY <1>8 DEF FindPair
  <2>2. /\ new.kind = q.kind /\ new.wrote = q.wrote /\ new.row = q.row
        /\ new.pc \in {"create", "update"}
    BY <1>1 DEF RequestType
  <2>3. q.kind # "study"  BY <1>1, <1>8 DEF FindPair, RequestInv
  <2> HIDE DEF new
  <2> QED  BY <1>5, <2>1, <2>2, <2>3
<1>9. ASSUME NEW row, WritePair(r, row, "commit"), Counted(row, dayRows),
             q.kind # "study"
      PROVE  OneByOne'
  <2> DEFINE new == [q EXCEPT !.wrote = TRUE, !.row = row, !.pc = "commit"]
  <2>1. Become(r, new)  BY <1>9 DEF WritePair
  <2>2. new.kind = q.kind /\ new.wrote /\ new.row = row /\ new.pc = "commit"
    BY <1>1 DEF RequestType
  <2> HIDE DEF new
  <2>3. Counted(SeenBy(new), dayRows)  BY <1>9, <2>2 DEF SeenBy
  <2> QED  BY <1>2, <1>9, <2>1, <2>2, <2>3, SeesTheSame
<1>10. CASE CreatePair(r)
  <2>1. q.kind # "study"  BY <1>1, <1>10 DEF CreatePair, RequestInv
  <2>2. Counted([NoPair EXCEPT !.status = "ACTIVE"], dayRows)  BY <1>1, FreshStartCounted
  <2> QED  BY <1>9, <1>10, <2>1, <2>2 DEF CreatePair
<1>11. CASE UpdatePair(r)
  <2>1. q.kind # "study"  BY <1>1, <1>11 DEF UpdatePair, RequestInv
  <2>2. Counted(restarted(Visible(r)), dayRows)  BY <1>1, FreshStartCounted
  <2> QED  BY <1>9, <1>11, <2>1, <2>2 DEF UpdatePair
<1> QED  BY <1>4, <1>6, <1>7, <1>8, <1>10, <1>11

LEMMA Begun ==
    ASSUME Together, OneByOne, NEW r \in Requests, NEW new, Begin(r, new),
           InTime(new), Counted(pair, dayRows) => CountsOn(new)
    PROVE  OneByOne'
<1>1. /\ request' = [request EXCEPT ![r] = new] /\ request \in [Requests -> RequestType]
      /\ UNCHANGED <<now, zone, dayRows, pair>>
      /\ overlapped' = (overlapped \/ Rivals(r) # {})
  BY DEF Begin, Together, TypeOK
<1>2. request'[r] = new /\ \A s \in Requests : s # r => request'[s] = request[s]
  BY <1>1
<1>3. \A u \in Members : Ahead(u, labelOf(u))'
  BY <1>1 DEF OneByOne, Ahead, labelOf
<1>4. \A s \in Requests : InTime(request'[s])  BY <1>2 DEF OneByOne
<1>5. \A s \in Requests : InTime(request[s])'  BY <1>1, <1>4 DEF InTime, labelOf
<1>6. ASSUME ~overlapped'
      PROVE  /\ \A p, s \in Requests : Open(p)' /\ Open(s)' => p = s
             /\ Counted(pair, dayRows)
             /\ \A s \in Requests : Open(s)' => CountsOn(request'[s])
  <2>1. ~overlapped /\ Rivals(r) = {}  BY <1>1, <1>6 DEF Together, TypeOK
  <2>2. \A s \in Requests : Open(s)' => s = r  BY <1>2, <2>1 DEF Open, Rivals
  <2>3. Counted(pair, dayRows)  BY <2>1 DEF OneByOne
  <2>4. CountsOn(request'[r])  BY <1>2, <2>3
  <2> QED  BY <2>2, <2>3, <2>4
<1>7. \A s \in Requests : CountsOn(request'[s]) => CountsOn(request[s])'
  BY <1>1 DEF CountsOn, SeenBy, Ahead
<1> QED  BY <1>1, <1>3, <1>5, <1>6, <1>7 DEF OneByOne

LEMMA BeginningsCount ==
    ASSUME Together, OneByOne, NEW r \in Requests, NEW u \in Members, NEW i,
           OpenDay(r, u) \/ View(r) \/ Send(r, u) \/ JoinByLink(r, u) \/ Accept(r, i)
    PROVE  OneByOne'
<1>1. CASE OpenDay(r, u)
  <2> DEFINE l == labelOf(u)
             new == [Idle EXCEPT !.pc = "find", !.kind = "study", !.who = u, !.label = l]
  <2>1. Begin(r, new)  BY <1>1 DEF OpenDay
  <2>2. /\ new.pc = "find" /\ new.kind = "study" /\ new.who = u /\ new.label = l
        /\ ~new.wrote
    BY DEF Idle
  <2>3. Ahead(u, l)  BY DEF OneByOne
  <2>4. l <= labelOf(u)
    <3>1. now \in Nat  BY DEF Together, TypeOK
    <3>2. l \in Nat  BY <3>1, LabelType DEF labelOf
    <3> QED  BY <3>2
  <2> HIDE DEF new, l
  <2>5. InTime(new) /\ CountsOn(new)  BY <2>2, <2>3, <2>4 DEF InTime, CountsOn
  <2> QED  BY <2>1, <2>5, Begun
<1>2. ASSUME NEW new, Begin(r, new), new.kind # "study", ~new.wrote,
             new.pc \in {"recompute", "restart", "ask", "claim", "upsert"}
      PROVE  OneByOne'
  <2>1. InTime(new) /\ (Counted(pair, dayRows) => CountsOn(new))
    BY <1>2 DEF InTime, CountsOn, SeenBy
  <2> QED  BY <1>2, <2>1, Begun
<1>3. CASE View(r)
  <2> DEFINE new == [Idle EXCEPT !.kind = "view", !.seen = pair,
                        !.pc = IF pair.status = "ACTIVE" THEN "recompute" ELSE "restart"]
  <2>1. Begin(r, new)  BY <1>3 DEF View
  <2>2. new.kind = "view" /\ ~new.wrote /\ new.pc \in {"recompute", "restart"}
    BY DEF Idle
  <2> HIDE DEF new
  <2> QED  BY <1>2, <2>1, <2>2
<1>4. CASE Send(r, u)
  <2> DEFINE new == [Idle EXCEPT !.pc = "ask", !.kind = "send", !.who = u]
  <2>1. Begin(r, new) /\ new.kind = "send" /\ ~new.wrote /\ new.pc = "ask"
    BY <1>4 DEF Send, Idle
  <2> HIDE DEF new
  <2> QED  BY <1>2, <2>1
<1>5. CASE JoinByLink(r, u)
  <2> DEFINE new == [Idle EXCEPT !.pc = "upsert", !.kind = "link", !.who = u]
  <2>1. Begin(r, new) /\ new.kind = "link" /\ ~new.wrote /\ new.pc = "upsert"
    BY <1>5 DEF JoinByLink, Idle
  <2> HIDE DEF new
  <2> QED  BY <1>2, <2>1
<1>6. CASE Accept(r, i)
  <2> DEFINE new == [Idle EXCEPT !.pc = "claim", !.kind = "accept",
                                 !.who = other(invites[i].by), !.invite = i]
  <2>1. Begin(r, new) /\ new.kind = "accept" /\ ~new.wrote /\ new.pc = "claim"
    BY <1>6 DEF Accept, Idle
  <2> HIDE DEF new
  <2> QED  BY <1>2, <2>1
<1> QED  BY <1>1, <1>3, <1>4, <1>5, <1>6

LEMMA CommitCounts ==
    ASSUME Together, Together', OneByOne, NEW r \in Requests, Commit(r)
    PROVE  OneByOne'
<1> DEFINE q == request[r]
           days == DaysOf(q, dayRows)
<1>1. /\ q.pc = "commit" /\ pair' = Visible(r) /\ dayRows' = days
      /\ request' = [request EXCEPT ![r] = Idle]
      /\ UNCHANGED <<now, zone, overlapped>>
  BY DEF Commit, DaysOf
<1>2. /\ q \in RequestType /\ InTime(q) /\ Open(r) /\ Visible(r) = SeenBy(q)
      /\ (q.kind = "study" => q.label \in Nat)
      /\ request \in [Requests -> RequestType]
  BY <1>1 DEF Together, RequestInv, OneByOne, Open, Visible, SeenBy, TypeOK
<1>3. request'[r] = Idle /\ \A s \in Requests : s # r => request'[s] = request[s]
  BY <1>1, <1>2
<1>4. \A u \in Members : \A d \in days[u] :
          d \in dayRows[u] \/ (q.kind = "study" /\ u = q.who /\ d = q.label)
  BY <1>2, DaysLeft
<1>5. \A u \in Members : Ahead(u, labelOf(u))'
  <2> SUFFICES ASSUME NEW u \in Members, NEW d \in days[u] PROVE d <= labelOf(u)
    BY <1>1 DEF Ahead, labelOf
  <2> QED  BY <1>2, <1>4 DEF OneByOne, Ahead, InTime
<1>6. \A s \in Requests : InTime(request'[s])  BY <1>3 DEF OneByOne, InTime, Idle
<1>7. \A s \in Requests : InTime(request[s])'  BY <1>1, <1>6 DEF InTime, labelOf
<1>8. ASSUME ~overlapped
      PROVE  Counted(pair, dayRows)' /\ \A s \in Requests : ~Open(s)'
  <2>1. \A s \in Requests : s # r => ~Open(s)  BY <1>2, <1>8 DEF OneByOne
  <2>2. \A s \in Requests : ~Open(s)'  BY <1>3, <2>1 DEF Open, Idle
  <2>3. Counted(Visible(r), days)  BY <1>1, <1>2, <1>8 DEF OneByOne, CountsOn
  <2> HIDE DEF days
  <2>4. Counted(pair', dayRows')  BY <1>1, <2>3
  <2> QED  BY <2>2, <2>4 DEF Counted
<1> QED  BY <1>1, <1>5, <1>7, <1>8 DEF OneByOne

LEMMA TickCounts == ASSUME Together, OneByOne, Tick PROVE OneByOne'
<1>1. now \in Nat /\ now' = now + 1
      /\ UNCHANGED <<zone, dayRows, pair, request, overlapped>>
  BY DEF Tick, Together, TypeOK
<1>2. ASSUME NEW u \in Members
      PROVE  labelOf(u) \in Nat /\ labelOf(u)' \in Nat /\ labelOf(u) <= labelOf(u)'
  <2>1. now' \in Nat /\ now <= now'  BY <1>1
  <2> QED  BY <1>1, <2>1, LabelType, DaysInOrder DEF labelOf
<1>3. \A u \in Members : dayRows[u] \subseteq Nat  BY DEF Together, TypeOK
<1>4. \A u \in Members : Ahead(u, labelOf(u))'
  <2> SUFFICES ASSUME NEW u \in Members, NEW d \in dayRows[u] PROVE d <= labelOf(u)'
    BY <1>1 DEF Ahead
  <2> QED  BY <1>2, <1>3 DEF OneByOne, Ahead
<1>5. \A r \in Requests : InTime(request[r])'
  <2> SUFFICES ASSUME NEW r \in Requests, request[r].kind = "study"
               PROVE  request[r].label <= labelOf(request[r].who)'
    BY <1>1 DEF InTime
  <2>1. request[r].who \in Members /\ request[r].label \in Nat
    BY DEF Together, RequestInv, RequestType
  <2>2. request[r].label <= labelOf(request[r].who)  BY DEF OneByOne, InTime
  <2> DEFINE u == request[r].who
  <2>3. labelOf(u) \in Nat /\ labelOf(u)' \in Nat /\ labelOf(u) <= labelOf(u)'
    BY <1>1, <1>2, <2>1
  <2>4. labelOf(u)' = labelOf(request[r].who)'  OBVIOUS
  <2> QED  BY <2>1, <2>2, <2>3
<1>6. \A r \in Requests : (Open(r)' <=> Open(r)) /\ (CountsOn(request[r]) => CountsOn(request[r])')
  BY <1>1 DEF Open, CountsOn, SeenBy, Ahead
<1> QED  BY <1>1, <1>4, <1>5, <1>6 DEF OneByOne

(* The invitations' own steps leave all of it alone.                       *)
LEMMA InvitationsCount ==
    ASSUME Together, OneByOne, UNCHANGED <<now, zone, dayRows, pair, overlapped>>,
           UNCHANGED request \/ \E r \in Requests : request' = [request EXCEPT ![r] = Idle]
    PROVE  OneByOne'
<1>0. request \in [Requests -> RequestType]  BY DEF Together, TypeOK
<1>1. \A s \in Requests : request'[s] = request[s] \/ request'[s] = Idle  BY <1>0
<1>2. \A u \in Members : Ahead(u, labelOf(u))'  BY DEF OneByOne, Ahead, labelOf
<1>3. \A s \in Requests : InTime(request'[s])  BY <1>1 DEF OneByOne, InTime, Idle
<1>4. \A s \in Requests : InTime(request[s])'  BY <1>3 DEF InTime, labelOf
<1>5. \A s \in Requests : Open(s)' => Open(s) /\ request'[s] = request[s]
  BY <1>1 DEF Open, Idle
<1>6. \A s \in Requests : CountsOn(request'[s]) => CountsOn(request[s])'
  BY DEF CountsOn, SeenBy, Ahead
<1> QED  BY <1>2, <1>4, <1>5, <1>6 DEF OneByOne

LEMMA OneByOneStarts == Init => OneByOne
<1> SUFFICES ASSUME Init PROVE OneByOne  OBVIOUS
<1>1. PICK past \in Pasts :
         now = past.now /\ zone = past.zone /\ dayRows = past.days /\ pair = past.pair
  BY DEF Init
<1>2. /\ Counted(past.pair, past.days)
      /\ \A u \in Members : \A d \in past.days[u] :
            d <= formatDayInTimeZone(past.now, past.zone[u])
  BY <1>1, StreakAssumption
<1>3. request = [r \in Requests |-> Idle]  BY DEF Init
<1> QED  BY <1>1, <1>2, <1>3 DEF OneByOne, Ahead, labelOf, InTime, Open, Idle

LEMMA OneByOneKept == Together /\ OneByOne /\ [Next]_vars => OneByOne'
<1> SUFFICES ASSUME Together, OneByOne, [Next]_vars PROVE OneByOne'  OBVIOUS
<1>1. Together'  BY Kept
<1>2. ASSUME NEW r \in Requests, Run(r) \/ Rollback(r) PROVE OneByOne'
  BY <1>1, <1>2, DayStepsCount, ViewStepsCount, OtherStepsCount, CommitCounts DEF Run
<1>3. ASSUME NEW r \in Requests, View(r) PROVE OneByOne'
  BY <1>3, BeginningsCount DEF Members
<1>4. ASSUME NEW r \in Requests, NEW u \in Members,
             OpenDay(r, u) \/ Send(r, u) \/ JoinByLink(r, u)
      PROVE  OneByOne'
  BY <1>4, BeginningsCount
<1>5. ASSUME NEW r \in Requests, NEW i \in Invites, Accept(r, i) PROVE OneByOne'
  BY <1>5, BeginningsCount DEF Members
<1>6. ASSUME NEW r \in Requests, NEW i \in Invites, CreateInvite(r, i) PROVE OneByOne'
  BY <1>6, InvitationsCount DEF CreateInvite
<1>7. ASSUME NEW i \in Invites,
             Answer(i, "DECLINED") \/ Answer(i, "CANCELLED") \/ InviteExpires(i) \/ CooldownEnds(i)
      PROVE  OneByOne'
  BY <1>7, InvitationsCount DEF Answer, InviteExpires, CooldownEnds
<1>8. CASE Tick  BY <1>8, TickCounts
<1>9. CASE UNCHANGED vars  BY <1>9, InvitationsCount DEF vars
<1> QED  BY <1>2, <1>3, <1>4, <1>5, <1>6, <1>7, <1>8, <1>9 DEF Next

(* As long as requests come one after the other, whichever they are and    *)
(* wherever the two live, a day that both opened is counted at once        *)
(* (processPairActivity, recomputePairState).                              *)
THEOREM EveryDayAlwaysCounted == Spec => []EveryDayCounted
<1>1. Init => Together /\ OneByOne  BY Start, OneByOneStarts
<1>2. Together /\ OneByOne /\ [Next]_vars => (Together /\ OneByOne)'
  BY Kept, OneByOneKept
<1>3. OneByOne => EveryDayCounted  BY DEF OneByOne, EveryDayCounted
<1> QED  BY <1>1, <1>2, <1>3, PTL DEF Spec
-----------------------------------------------------------------------------
(***************************************************************************)
(* Links.  Whoever made a link that stands is the request it is named      *)
(* after, so that no two rows share one; and a link is only replaced by a  *)
(* request that found none, which means that two did.                      *)
(***************************************************************************)
AskerType == [pc : {"new", "make", "answered", "refused"}, row : LinkRows, got : SUBSET Requests]

\* The maker of the link `l` of row x.
Made(a, l, x) ==
    \E s \in Requests : l = {s} /\ a[s].pc = "answered" /\ a[s].row = x /\ a[s].got = l
Making(a, r, x) == a[r].pc = "make" /\ a[r].row = x

LinksInv ==
    /\ linkOf \in [LinkRows -> SUBSET Requests]
    /\ asker \in [Requests -> AskerType]
    /\ \A x \in LinkRows : linkOf[x] # {} => Made(asker, linkOf[x], x)
    /\ \A r \in Requests : asker[r].pc = "answered" =>
          /\ linkOf[asker[r].row] # {} /\ Made(asker, asker[r].got, asker[r].row)
          /\ asker[r].row \notin madeTwice => asker[r].got = linkOf[asker[r].row]
    /\ \A r \in Requests : asker[r].pc = "make" /\ asker[r].row \notin madeTwice =>
          /\ linkOf[asker[r].row] = {}
          /\ \A s \in Requests : Making(asker, s, asker[r].row) => s = r

LEMMA LinksStart == LinksInit => LinksInv
<1> SUFFICES ASSUME LinksInit PROVE LinksInv  OBVIOUS
<1>1. NewAsker \in AskerType /\ NewAsker.pc = "new"  BY DEF NewAsker, AskerType, LinkRows
<1> QED  BY <1>1 DEF LinksInit, LinksInv

\* A request that has not answered or been answered is the maker of nothing.
LEMMA MadeStays ==
    ASSUME NEW r \in Requests, asker[r].pc # "answered",
           \A s \in Requests : s # r => asker'[s] = asker[s]
    PROVE  \A l, x : Made(asker, l, x) => Made(asker', l, x)
  BY DEF Made

LEMMA LinksKept == LinksInv /\ [LinksNext]_linkVars => LinksInv'
<1> SUFFICES ASSUME LinksInv, [LinksNext]_linkVars PROVE LinksInv'  OBVIOUS
<1>1. CASE UNCHANGED linkVars  BY <1>1 DEF linkVars, LinksInv, Made, Making
<1>2. ASSUME NEW r \in Requests, RefuseLink(r) PROVE LinksInv'
  <2>1. /\ asker' \in [Requests -> AskerType] /\ asker'[r].pc = "refused"
        /\ \A s \in Requests : s # r => asker'[s] = asker[s]
        /\ UNCHANGED <<linkOf, madeTwice>> /\ asker[r].pc = "new"
    BY <1>2 DEF RefuseLink, LinksInv, AskerType
  <2>2. \A l, x : Made(asker, l, x) => Made(asker', l, x)  BY <2>1, MadeStays
  <2> QED  BY <2>1, <2>2 DEF LinksInv, Making
<1>3. ASSUME NEW r \in Requests, NEW x \in LinkRows, AskLink(r, x) PROVE LinksInv'
  <2> DEFINE pc == IF linkOf[x] = {} THEN "make" ELSE "answered"
             new == [pc |-> pc, row |-> x, got |-> linkOf[x]]
  <2>1. /\ asker[r].pc = "new" /\ asker' = [asker EXCEPT ![r] = new] /\ UNCHANGED linkOf
        /\ madeTwice' = IF linkOf[x] = {} /\ \E s \in Requests : Making(asker, s, x)
                        THEN madeTwice \cup {x} ELSE madeTwice
    BY <1>3 DEF AskLink, Making
  <2>2. new \in AskerType /\ new.pc = pc /\ new.row = x /\ new.got = linkOf[x]
    BY DEF AskerType, LinksInv
  <2>3. pc \in {"make", "answered"} /\ (pc = "make" <=> linkOf[x] = {})  OBVIOUS
  <2> HIDE DEF new, pc
  <2>4. /\ asker' \in [Requests -> AskerType] /\ asker'[r] = new
        /\ \A s \in Requests : s # r => asker'[s] = asker[s]
    BY <2>1, <2>2 DEF LinksInv
  <2>5. \A l, y : Made(asker, l, y) => Made(asker', l, y)  BY <2>1, <2>4, MadeStays
  <2>6. ASSUME NEW s \in Requests, asker'[s].pc = "answered"
        PROVE  /\ linkOf'[asker'[s].row] # {} /\ Made(asker', asker'[s].got, asker'[s].row)
               /\ asker'[s].row \notin madeTwice' => asker'[s].got = linkOf'[asker'[s].row]
    <3>1. CASE s = r
      <4>1. linkOf[x] # {} /\ Made(asker, linkOf[x], x)  BY <2>2, <2>3, <2>4, <2>6, <3>1 DEF LinksInv
      <4> QED  BY <4>1, <2>1, <2>2, <2>4, <2>5, <3>1
    <3>2. CASE s # r
      <4>1. asker'[s] = asker[s] /\ asker[s].pc = "answered"  BY <2>4, <2>6, <3>2
      <4> QED  BY <4>1, <2>1, <2>5 DEF LinksInv
    <3> QED  BY <3>1, <3>2
  <2>7. ASSUME NEW s \in Requests, asker'[s].pc = "make", asker'[s].row \notin madeTwice'
        PROVE  /\ linkOf'[asker'[s].row] = {}
               /\ \A t \in Requests : Making(asker', t, asker'[s].row) => t = s
    <3>1. CASE s = r
      <4>1. linkOf[x] = {} /\ asker'[s].row = x /\ \A t \in Requests : ~Making(asker, t, x)
        BY <2>1, <2>2, <2>3, <2>4, <2>7, <3>1
      <4> QED  BY <4>1, <2>1, <2>4, <3>1 DEF Making
    <3>2. CASE s # r
      <4>1. asker'[s] = asker[s] /\ asker[s].row \notin madeTwice  BY <2>1, <2>4, <2>7, <3>2
      <4>2. linkOf[asker[s].row] = {} /\ \A t \in Requests : Making(asker, t, asker[s].row) => t = s
        BY <4>1, <2>7 DEF LinksInv
      <4>3. ~Making(asker', r, asker[s].row)
        <5>1. CASE asker[s].row = x
          <6>1. Making(asker, s, x)  BY <4>1, <2>7, <5>1 DEF Making
          <6>2. x \in madeTwice'  BY <6>1, <4>2, <5>1, <2>1
          <6> QED  BY <6>2, <4>1, <2>7, <5>1
        <5>2. CASE asker[s].row # x  BY <5>2, <2>2, <2>4 DEF Making
        <5> QED  BY <5>1, <5>2
      <4> QED  BY <4>1, <4>2, <4>3, <2>1, <2>4 DEF Making
    <3> QED  BY <3>1, <3>2
  <2> QED  BY <2>1, <2>4, <2>5, <2>6, <2>7 DEF LinksInv
<1>4. ASSUME NEW r \in Requests, MakeLink(r) PROVE LinksInv'
  <2> DEFINE x == asker[r].row
             new == [pc |-> "answered", row |-> x, got |-> {r}]
  <2>1. asker[r].pc = "make" /\ linkOf' = [linkOf EXCEPT ![x] = {r}] /\ UNCHANGED madeTwice
    BY <1>4 DEF MakeLink
  <2>2. x \in LinkRows /\ asker[r] \in AskerType  BY DEF LinksInv, AskerType
  <2>3. asker' = [asker EXCEPT ![r] = new]
    BY <1>4, <2>2 DEF MakeLink, LinksInv, AskerType
  <2>4. new \in AskerType /\ new.pc = "answered" /\ new.row = x /\ new.got = {r}
    BY <2>2 DEF AskerType
  <2> HIDE DEF new, x
  <2>5. /\ asker' \in [Requests -> AskerType] /\ asker'[r] = new
        /\ \A s \in Requests : s # r => asker'[s] = asker[s]
        /\ linkOf' \in [LinkRows -> SUBSET Requests] /\ linkOf'[x] = {r}
        /\ \A y \in LinkRows : y # x => linkOf'[y] = linkOf[y]
    BY <2>1, <2>2, <2>3, <2>4 DEF LinksInv
  <2>6. \A l, y : Made(asker, l, y) => Made(asker', l, y)  BY <2>1, <2>5, MadeStays
  <2>7. Made(asker', {r}, x)  BY <2>4, <2>5 DEF Made
  <2>8. \A y \in LinkRows : linkOf'[y] # {} => Made(asker', linkOf'[y], y)
    BY <2>5, <2>6, <2>7 DEF LinksInv
  <2>9. x \notin madeTwice => linkOf[x] = {} /\ \A t \in Requests : Making(asker, t, x) => t = r
    BY <2>1 DEF LinksInv, x
  <2>10. ASSUME NEW s \in Requests, asker'[s].pc = "answered"
         PROVE  /\ linkOf'[asker'[s].row] # {} /\ Made(asker', asker'[s].got, asker'[s].row)
                /\ asker'[s].row \notin madeTwice' => asker'[s].got = linkOf'[asker'[s].row]
    <3>1. CASE s = r  BY <3>1, <2>4, <2>5, <2>7
    <3>2. CASE s # r
      <4>1. /\ asker'[s] = asker[s] /\ asker[s].pc = "answered"
            /\ asker[s].row \in LinkRows
        BY <2>5, <2>10, <3>2 DEF LinksInv, AskerType
      <4>2. /\ linkOf[asker[s].row] # {} /\ Made(asker, asker[s].got, asker[s].row)
            /\ asker[s].row \notin madeTwice => asker[s].got = linkOf[asker[s].row]
        BY <4>1 DEF LinksInv
      <4>3. CASE asker[s].row = x  BY <4>1, <4>2, <4>3, <2>1, <2>5, <2>6, <2>9
      <4>4. CASE asker[s].row # x  BY <4>1, <4>2, <4>4, <2>1, <2>5, <2>6
      <4> QED  BY <4>3, <4>4
    <3> QED  BY <3>1, <3>2
  <2>11. ASSUME NEW s \in Requests, asker'[s].pc = "make", asker'[s].row \notin madeTwice'
         PROVE  /\ linkOf'[asker'[s].row] = {}
                /\ \A t \in Requests : Making(asker', t, asker'[s].row) => t = s
    <3>1. s # r /\ asker'[s] = asker[s] /\ asker[s].row \notin madeTwice
      BY <2>1, <2>4, <2>5, <2>11
    <3>2. /\ linkOf[asker[s].row] = {} /\ \A t \in Requests : Making(asker, t, asker[s].row) => t = s
          /\ asker[s].row \in LinkRows
      BY <3>1, <2>11 DEF LinksInv, AskerType
    <3>3. asker[s].row # x  BY <3>1, <3>2, <2>1 DEF Making, x
    <3>4. ~Making(asker', r, asker[s].row)  BY <2>4, <2>5 DEF Making
    <3> QED  BY <3>1, <3>2, <3>3, <3>4, <2>5 DEF Making
  <2> QED  BY <2>5, <2>8, <2>10, <2>11 DEF LinksInv
<1> QED  BY <1>1, <1>2, <1>3, <1>4 DEF LinksNext

(* A link that was handed out leads to the row it was asked for and to no  *)
(* other; dead is only one that another first request overlapped, and then *)
(* a rival's link works (generateShareLink, getOrCreateInviteLink).        *)
THEOREM LinksAlwaysLead == LinksSpec => []LinksLead
<1>1. LinksInv => LinksLead
  <2> SUFFICES ASSUME LinksInv, NEW r \in Requests, asker[r].pc = "answered"
               PROVE  /\ OpenedBy(asker[r].got) \subseteq {asker[r].row}
                      /\ asker[r].row \notin madeTwice => OpenedBy(asker[r].got) = {asker[r].row}
                      /\ \E s \in Requests : /\ asker[s].pc = "answered" /\ asker[s].row = asker[r].row
                                             /\ OpenedBy(asker[s].got) = {asker[r].row}
    BY DEF LinksLead
  <2> DEFINE x == asker[r].row
  <2>1. x \in LinkRows  BY DEF LinksInv, AskerType
  <2>2. linkOf[x] # {} /\ Made(asker, asker[r].got, x) /\ Made(asker, linkOf[x], x)
    BY <2>1 DEF LinksInv
  <2> HIDE DEF x
  <2>3. ASSUME NEW l, NEW y, NEW z, Made(asker, l, y), Made(asker, l, z) PROVE y = z
    BY <2>3 DEF Made
  <2>4. ASSUME NEW l, Made(asker, l, x) PROVE OpenedBy(l) \subseteq {x}
    <3>1. l # {}  BY <2>4 DEF Made
    <3>2. ASSUME NEW y \in OpenedBy(l) PROVE y = x
      <4>1. y \in LinkRows /\ linkOf[y] = l  BY DEF OpenedBy
      <4>2. Made(asker, l, y)  BY <3>1, <4>1 DEF LinksInv
      <4> QED  BY <4>2, <2>3, <2>4
    <3> QED  BY <3>2
  <2>5. x \in OpenedBy(linkOf[x])  BY <2>1 DEF OpenedBy
  <2>6. OpenedBy(linkOf[x]) = {x}  BY <2>2, <2>4, <2>5
  <2>7. x \notin madeTwice => asker[r].got = linkOf[x]  BY DEF LinksInv, x
  <2>8. \E s \in Requests : asker[s].pc = "answered" /\ asker[s].row = x /\ OpenedBy(asker[s].got) = {x}
    BY <2>2, <2>6 DEF Made
  <2> QED  BY <2>2, <2>4, <2>6, <2>7, <2>8 DEF x
<1> QED  BY <1>1, LinksStart, LinksKept, PTL DEF LinksSpec
-----------------------------------------------------------------------------
(* The share of some among all, in percent.                                *)
LEMMA Products ==
    ASSUME NEW d \in Nat, NEW a \in Int, NEW b \in Int, a <= b
    PROVE  a * d \in Int /\ a * d <= b * d
<1>1. b = a + (b - a) /\ b - a \in Nat  OBVIOUS
<1>2. (b - a) * d \in Nat /\ b * d = a * d + (b - a) * d  BY <1>1
<1>3. a * d \in Int  OBVIOUS
<1> QED  BY <1>2, <1>3

LEMMA Quotient ==
    ASSUME NEW x \in Nat, NEW d \in Nat \ {0}
    PROVE  /\ x \div d \in Nat
           /\ (x \div d) * d <= x /\ x < (x \div d + 1) * d
<1>1. x \div d \in Int /\ x \div d >= 0  BY SMTT(30)
<1>2. d * (x \div d) <= x  BY SMTT(30)
<1>3. x < d * (x \div d) + d  BY SMTT(30)
<1> DEFINE q == x \div d
<1>4. q \in Nat /\ d * q <= x /\ x < d * q + d  BY <1>1, <1>2, <1>3
<1> HIDE DEF q
<1>5. (q + 1) * d = q * d + d /\ q * d = d * q  BY <1>4
<1>6. q \in Nat /\ q * d <= x /\ x < (q + 1) * d  BY <1>4, <1>5
<1> QED  BY <1>6 DEF q

LEMMA Divides ==
    ASSUME NEW x \in Nat, NEW y \in Nat, NEW d \in Nat \ {0}, x <= y
    PROVE  x \div d <= y \div d
<1> DEFINE p == x \div d  q == y \div d
<1>1. p \in Nat /\ p * d <= x  BY Quotient
<1>2. q \in Nat /\ y < (q + 1) * d  BY Quotient
<1> HIDE DEF p, q
<1>3. CASE q + 1 <= p
  <2>1. (q + 1) * d \in Int /\ (q + 1) * d <= p * d /\ p * d \in Int  BY <1>1, <1>2, <1>3, Products
  <2> QED  BY <1>1, <1>2, <2>1
<1>4. CASE ~(q + 1 <= p)  BY <1>1, <1>2, <1>4
<1>5. p <= q  BY <1>1, <1>2, <1>3, <1>4
<1> QED  BY <1>5 DEF p, q

LEMMA Percent ==
    ASSUME NEW total \in Nat \ {0}, NEW a \in Nat, NEW b \in Nat, a <= b
    PROVE  /\ percentOf(a, total) \in Nat /\ percentOf(a, total) >= 1
           /\ percentOf(a, total) <= percentOf(b, total)
           /\ a <= total => percentOf(a, total) <= 100
           /\ a = total => percentOf(a, total) = 100
<1> DEFINE d == 2 * total  f(n) == (200 * n + total) \div d
<1>1. d \in Nat \ {0} /\ \A n \in Nat : 200 * n + total \in Nat  OBVIOUS
<1>2. \A n \in Nat : f(n) \in Nat
  <2> SUFFICES ASSUME NEW n \in Nat PROVE f(n) \in Nat  OBVIOUS
  <2> DEFINE x == 200 * n + total
  <2>1. x \in Nat  BY <1>1
  <2> HIDE DEF x, d
  <2>2. x \div d \in Nat  BY <1>1, <2>1, Quotient
  <2> QED  BY <2>2 DEF x
<1>3. ASSUME NEW m \in Nat, NEW n \in Nat, m <= n PROVE f(m) <= f(n)
  <2> DEFINE x == 200 * m + total  y == 200 * n + total
  <2>1. x \in Nat /\ y \in Nat /\ x <= y  BY <1>3
  <2> HIDE DEF x, y, d
  <2>2. x \div d <= y \div d  BY <1>1, <2>1, Divides
  <2> QED  BY <2>2 DEF x, y
<1>4. f(total) = 100
  <2> DEFINE x == 201 * total
  <2>1. x \in Nat /\ x = 200 * total + total  OBVIOUS
  <2>2. x \div d \in Nat /\ (x \div d) * d <= x /\ x < (x \div d + 1) * d
    <3> HIDE DEF x, d
    <3> QED  BY <1>1, <2>1, Quotient
  <2> DEFINE q == x \div d
  <2>a. q \in Nat /\ q * d <= x /\ x < (q + 1) * d  BY <2>2
  <2>b. x = 100 * d + total  OBVIOUS
  <2>d. 101 * d = 100 * d + d /\ total < d /\ 100 * d \in Int /\ total < d  OBVIOUS
  <2> HIDE DEF q, d, x
  <2>3. ASSUME q >= 101 PROVE FALSE
    <3>1. 101 * d <= q * d  BY <1>1, <2>a, <2>3, Products
    <3> QED  BY <1>1, <2>a, <2>b, <2>d, <3>1
  <2>4. ASSUME q <= 99 PROVE FALSE
    <3>1. (q + 1) * d <= 100 * d  BY <1>1, <2>a, <2>4, Products
    <3> QED  BY <1>1, <2>a, <2>b, <2>d, <3>1
  <2>5. q = 100  BY <2>3, <2>4, <2>a
  <2> QED  BY <2>1, <2>5 DEF q
<1>5. percentOf(a, total) = larger(1, f(a)) /\ percentOf(b, total) = larger(1, f(b))
  BY DEF percentOf
<1> HIDE DEF f
<1>6. f(a) \in Nat /\ f(b) \in Nat /\ f(a) <= f(b) /\ (a <= total => f(a) <= 100)
      /\ (a = total => f(a) = 100)
  BY <1>2, <1>3, <1>4
<1> QED  BY <1>5, <1>6 DEF larger

PairNumbers ==
    /\ DOMAIN board = BoardPairs
    /\ \A p \in BoardPairs : /\ board[p] \in PairType
                             /\ p \notin Active => board[p].currentStreak = 0

(* Of the request: its second count is of pairs that were counted first,   *)
(* unless one has become active; and nothing has changed, unless it says.  *)
RankingSound ==
    /\ ranking.pc \in {"new", "counted", "answered"}
    /\ ranking.pc = "counted" =>
          /\ ranking.mine \in Nat /\ ranking.total \in Nat \ {0}
          /\ ~ranking.joined => Cardinality(Active) <= ranking.total
          /\ ~ranking.moved => /\ ranking.total = Cardinality(Active)
                               /\ \A p \in ranking.pair : p \in BoardPairs /\ board[p].currentStreak = ranking.mine
    /\ ranking.percent # Never =>
          /\ ranking.pc = "answered" /\ ranking.percent \in Nat /\ ranking.percent >= 1
          /\ ranking.percent > 100 => ranking.joined
          /\ ~ranking.moved => \A p \in ranking.pair :
                IF p \in Active
                THEN ranking.percent = percentOf(Cardinality(AtLeast(board[p].currentStreak)),
                                                 Cardinality(Active))
                ELSE ranking.percent = 100
    /\ ranking.joined \in BOOLEAN /\ ranking.moved \in BOOLEAN
    /\ ranking = [pc |-> ranking.pc, pair |-> ranking.pair, mine |-> ranking.mine,
                  total |-> ranking.total, percent |-> ranking.percent,
                  joined |-> ranking.joined, moved |-> ranking.moved]
    /\ ranking.joined => ranking.moved

BoardInv == PairNumbers /\ RankingSound

LEMMA ActiveFinite ==
    ASSUME NEW S \in SUBSET BoardPairs
    PROVE  /\ IsFiniteSet(S) /\ Cardinality(S) \in Nat
           /\ \A T \in SUBSET S : Cardinality(T) \in Nat /\ Cardinality(T) <= Cardinality(S)
<1>1. IsFiniteSet(S)  BY BoardAssumption, FS_Subset
<1>2. \A T \in SUBSET S : IsFiniteSet(T) /\ Cardinality(T) <= Cardinality(S)  BY <1>1, FS_Subset
<1> QED  BY <1>1, <1>2, FS_CardinalityType

LEMMA BoardBegins == BoardInit => BoardInv
BY DEF BoardInit, BoardInv, PairNumbers, RankingSound, NewRanking, NoPair, PairType, Never, Active

(* A row is written over.                                                  *)
LEMMA RowSet ==
    ASSUME BoardInv, NEW p \in BoardPairs, NEW row \in PairType,
           board' = [board EXCEPT ![p] = row],
           row.status = "ACTIVE" \/ row.currentStreak = 0,
           NEW j \in BOOLEAN,
           ranking' = [ranking EXCEPT !.joined = j, !.moved = TRUE],
           ranking.joined => j,
           p \notin Active /\ row.status = "ACTIVE" => j
    PROVE  BoardInv'
<1>1. DOMAIN board' = BoardPairs /\ board'[p] = row /\ \A q \in BoardPairs \ {p} : board'[q] = board[q]
  BY DEF BoardInv, PairNumbers
<1>2. PairNumbers'  BY <1>1 DEF BoardInv, PairNumbers, Active
<1>3. /\ ranking'.pc = ranking.pc /\ ranking'.pair = ranking.pair /\ ranking'.mine = ranking.mine
      /\ ranking'.total = ranking.total /\ ranking'.percent = ranking.percent
      /\ ranking'.joined = j /\ ranking'.moved = TRUE
      /\ ranking' = [pc |-> ranking.pc, pair |-> ranking.pair, mine |-> ranking.mine,
                     total |-> ranking.total, percent |-> ranking.percent,
                     joined |-> j, moved |-> TRUE]
  <2>1. ranking = [pc |-> ranking.pc, pair |-> ranking.pair, mine |-> ranking.mine,
                  total |-> ranking.total, percent |-> ranking.percent,
                  joined |-> ranking.joined, moved |-> ranking.moved]
    BY DEF BoardInv, RankingSound
  <2>2. ranking' = [pc |-> ranking.pc, pair |-> ranking.pair, mine |-> ranking.mine,
                    total |-> ranking.total, percent |-> ranking.percent,
                    joined |-> j, moved |-> TRUE]
    BY <2>1
  <2>3. QED  BY <2>2
<1>4. Active \subseteq BoardPairs /\ (~j => Active' \subseteq Active)
  BY <1>1 DEF Active
<1>5. ~j => Cardinality(Active') \in Nat /\ Cardinality(Active') <= Cardinality(Active)
            /\ Cardinality(Active) \in Nat
  BY <1>4, ActiveFinite
<1>6. RankingSound'
  <2>1. /\ ranking'.pc \in {"new", "counted", "answered"}
        /\ ranking'.joined \in BOOLEAN /\ ranking'.moved
    BY <1>3 DEF BoardInv, RankingSound
  <2>2. ranking'.pc = "counted" =>
          /\ ranking'.mine \in Nat /\ ranking'.total \in Nat \ {0}
          /\ ~ranking'.joined => Cardinality(Active') <= ranking'.total
    <3>1. ranking.pc = "counted" =>
            /\ ranking.mine \in Nat /\ ranking.total \in Nat \ {0}
            /\ ~ranking.joined => Cardinality(Active) <= ranking.total
      BY DEF BoardInv, RankingSound
    <3>2. ~ranking'.joined => ~j /\ ~ranking.joined  BY <1>3, Zenon
    <3>3. ranking'.pc = ranking.pc /\ ranking'.mine = ranking.mine /\ ranking'.total = ranking.total
      BY <1>3, Zenon
    <3>4. ASSUME ranking.pc = "counted", ~j, ~ranking.joined
          PROVE  Cardinality(Active') <= ranking.total
      <4>1. ranking.total \in Nat /\ Cardinality(Active) <= ranking.total  BY <3>1, <3>4
      <4>2. Cardinality(Active') \in Nat /\ Cardinality(Active') <= Cardinality(Active)
            /\ Cardinality(Active) \in Nat
        BY <1>5, <3>4
      <4> HIDE DEF Active
      <4>3. \A a, b, c \in Nat : a <= b /\ b <= c => a <= c  OBVIOUS
      <4>4. QED  BY <4>1, <4>2, <4>3, Zenon
    <3>5. QED  BY <3>1, <3>2, <3>3, <3>4, Zenon
  <2>3. ranking'.percent # Never =>
          /\ ranking'.pc = "answered" /\ ranking'.percent \in Nat /\ ranking'.percent >= 1
          /\ ranking'.percent > 100 => ranking'.joined
    BY <1>3 DEF BoardInv, RankingSound
  <2>4. ranking' = [pc |-> ranking'.pc, pair |-> ranking'.pair, mine |-> ranking'.mine,
                    total |-> ranking'.total, percent |-> ranking'.percent,
                    joined |-> ranking'.joined, moved |-> ranking'.moved]
    BY <1>3
  <2>5. QED  BY <1>3, <2>1, <2>2, <2>3, <2>4 DEF RankingSound
<1> QED  BY <1>2, <1>6 DEF BoardInv

LEMMA BoardKept == BoardInv /\ [BoardNext]_boardVars => BoardInv'
<1> SUFFICES ASSUME BoardInv, [BoardNext]_boardVars PROVE BoardInv'  OBVIOUS
<1>1. CASE UNCHANGED boardVars
  BY <1>1 DEF boardVars, BoardInv, PairNumbers, RankingSound, Active, AtLeast
<1>2. ASSUME NEW p \in BoardPairs, BoardStarts(p) PROVE BoardInv'
  <2> DEFINE row == [board[p] EXCEPT !.status = "ACTIVE", !.currentStreak = 0]
             j == ranking.joined \/ p \notin Active
  <2>1. row \in PairType /\ row.status = "ACTIVE"  BY DEF BoardInv, PairNumbers, PairType
  <2>2. /\ board' = [board EXCEPT ![p] = row]
        /\ ranking' = [ranking EXCEPT !.joined = j, !.moved = TRUE]
    BY <1>2 DEF BoardStarts, SetRow
  <2>3. j \in BOOLEAN /\ (ranking.joined => j) /\ (p \notin Active => j)  OBVIOUS
  <2> HIDE DEF row, j
  <2>4. QED  BY <2>1, <2>2, <2>3, RowSet
<1>3. ASSUME NEW p \in BoardPairs, BoardAdvances(p) PROVE BoardInv'
  <2> DEFINE n == board[p].currentStreak + 1
             row == [board[p] EXCEPT !.currentStreak = n, !.longestStreak = larger(@, n)]
             j == ranking.joined \/ p \notin Active
  <2>0. /\ board[p] \in PairType /\ board[p].status = "ACTIVE"
        /\ n \in Nat /\ larger(board[p].longestStreak, n) \in Nat
    BY <1>3 DEF BoardInv, PairNumbers, PairType, BoardAdvances, Active, larger
  <2> HIDE DEF n
  <2>1. row \in PairType /\ row.status = "ACTIVE"
    <3> DEFINE long == larger(board[p].longestStreak, n)
    <3>1. row = [board[p] EXCEPT !.currentStreak = n, !.longestStreak = long]  OBVIOUS
    <3>2. long \in Nat  BY <2>0
    <3> HIDE DEF long, row
    <3>3. QED  BY <2>0, <3>1, <3>2 DEF PairType
  <2>2. /\ board' = [board EXCEPT ![p] = row]
        /\ ranking' = [ranking EXCEPT !.joined = j, !.moved = TRUE]
    BY <1>3 DEF BoardAdvances, SetRow, n
  <2>3. j \in BOOLEAN /\ (ranking.joined => j) /\ (p \notin Active => j)  OBVIOUS
  <2> HIDE DEF row, j
  <2>4. QED  BY <2>1, <2>2, <2>3, RowSet
<1>4. ASSUME NEW p \in BoardPairs, BoardBreaks(p) PROVE BoardInv'
  <2> DEFINE row == [board[p] EXCEPT !.status = "BROKEN", !.currentStreak = 0]
             j == ranking.joined
  <2>1. row \in PairType /\ row.currentStreak = 0 /\ row.status = "BROKEN"
    BY DEF BoardInv, PairNumbers, PairType
  <2>2. board' = [board EXCEPT ![p] = row]  BY <1>4 DEF BoardBreaks
  <2>3. j \in BOOLEAN /\ ranking' = [ranking EXCEPT !.joined = j, !.moved = TRUE]
    <3>1. ranking = [pc |-> ranking.pc, pair |-> ranking.pair, mine |-> ranking.mine,
                    total |-> ranking.total, percent |-> ranking.percent,
                    joined |-> ranking.joined, moved |-> ranking.moved]
          /\ ranking.joined \in BOOLEAN
      BY DEF BoardInv, RankingSound
    <3>2. ranking' = [ranking EXCEPT !.moved = TRUE]  BY <1>4 DEF BoardBreaks
    <3>3. QED  BY <3>1, <3>2
  <2> HIDE DEF row, j
  <2>4. (ranking.joined => j) /\ ~(row.status = "ACTIVE")  BY <2>1 DEF j
  <2>5. QED  BY <2>1, <2>2, <2>3, <2>4, RowSet
<1>5. ASSUME NEW p \in BoardPairs, CountActive(p) PROVE BoardInv'
  <2>1. Cardinality(Active) \in Nat  BY ActiveFinite DEF Active
  <2>2. /\ ranking'.pc \in {"answered", "counted"}
        /\ ranking'.pc = "counted" => Cardinality(Active) # 0
        /\ ranking'.pair = {p} /\ ranking'.mine = board[p].currentStreak
        /\ ranking'.total = Cardinality(Active) /\ ranking'.percent = Never
        /\ ranking'.joined = FALSE /\ ranking'.moved = FALSE
        /\ ranking' = [pc |-> ranking'.pc, pair |-> ranking'.pair, mine |-> ranking'.mine,
                       total |-> ranking'.total, percent |-> ranking'.percent,
                       joined |-> ranking'.joined, moved |-> ranking'.moved]
    <3> DEFINE total == Cardinality(Active)
               pc == IF total < MIN_PAIRS_FOR_PERCENTILE THEN "answered" ELSE "counted"
    <3>1. ranking' = [NewRanking EXCEPT !.pc = pc, !.pair = {p},
                                        !.mine = board[p].currentStreak, !.total = total]
      BY <1>5 DEF CountActive
    <3>2. pc \in {"answered", "counted"} /\ (pc = "counted" => total # 0)
      BY <2>1, BoardAssumption
    <3> HIDE DEF pc, total
    <3>3. ranking' = [pc |-> pc, pair |-> {p}, mine |-> board[p].currentStreak, total |-> total,
                      percent |-> Never, joined |-> FALSE, moved |-> FALSE]
      BY <3>1 DEF NewRanking
    <3>4. QED  BY <3>2, <3>3 DEF total
  <2>3. board' = board  BY <1>5 DEF CountActive
  <2>4. board[p].currentStreak \in Nat  BY DEF BoardInv, PairNumbers, PairType
  <2>5. PairNumbers' /\ Active' = Active  BY <2>3 DEF BoardInv, PairNumbers, Active
  <2>6. RankingSound'
    <3>1. ranking'.pc = "counted" =>
            /\ ranking'.mine \in Nat /\ ranking'.total \in Nat \ {0}
            /\ ~ranking'.joined => Cardinality(Active') <= ranking'.total
            /\ ranking'.total = Cardinality(Active')
            /\ \A q \in ranking'.pair : q \in BoardPairs /\ board'[q].currentStreak = ranking'.mine
      BY <2>1, <2>2, <2>3, <2>4, <2>5
    <3>2. QED  BY <2>2, <3>1 DEF RankingSound
  <2>7. QED  BY <2>5, <2>6 DEF BoardInv
<1>6. ASSUME CountBetter PROVE BoardInv'
  <2> DEFINE b == Cardinality(AtLeast(ranking.mine))  t == ranking.total
             n == percentOf(b, t)
  <2>1. /\ ranking.pc = "counted" /\ board' = board
        /\ ranking' = [ranking EXCEPT !.pc = "answered", !.percent = n]
    BY <1>6 DEF CountBetter
  <2>2. /\ AtLeast(ranking.mine) \in SUBSET Active /\ Active \in SUBSET BoardPairs
    BY DEF AtLeast, Active
  <2>3. b \in Nat /\ Cardinality(Active) \in Nat /\ b <= Cardinality(Active)
    BY <2>2, ActiveFinite
  <2>4. t \in Nat \ {0}  BY <2>1 DEF BoardInv, RankingSound
  <2> HIDE DEF b, t
  <2>5. /\ n \in Nat /\ n >= 1 /\ (b <= t => n <= 100) /\ (b = t => n = 100)
    <3>1. b <= b  BY <2>3
    <3>2. QED  BY <2>3, <2>4, <3>1, Percent
  <2> HIDE DEF n
  <2>6. /\ ranking'.pc = "answered" /\ ranking'.pair = ranking.pair
        /\ ranking'.percent = n
        /\ ranking'.joined = ranking.joined /\ ranking'.moved = ranking.moved
        /\ ranking' = [pc |-> ranking'.pc, pair |-> ranking'.pair, mine |-> ranking'.mine,
                       total |-> ranking'.total, percent |-> ranking'.percent,
                       joined |-> ranking'.joined, moved |-> ranking'.moved]
    <3>1. ranking = [pc |-> ranking.pc, pair |-> ranking.pair, mine |-> ranking.mine,
                    total |-> ranking.total, percent |-> ranking.percent,
                    joined |-> ranking.joined, moved |-> ranking.moved]
      BY DEF BoardInv, RankingSound
    <3>2. ranking' = [pc |-> "answered", pair |-> ranking.pair, mine |-> ranking.mine,
                     total |-> ranking.total, percent |-> n,
                     joined |-> ranking.joined, moved |-> ranking.moved]
      BY <2>1, <3>1
    <3>3. QED  BY <3>2
  <2>7. n > 100 => ranking.joined
    BY <2>1, <2>3, <2>4, <2>5 DEF BoardInv, RankingSound, t
  <2>8. ASSUME ~ranking.moved, NEW p \in ranking.pair
        PROVE IF p \in Active
              THEN n = percentOf(Cardinality(AtLeast(board[p].currentStreak)), Cardinality(Active))
              ELSE n = 100
    <3>1. t = Cardinality(Active) /\ p \in BoardPairs /\ board[p].currentStreak = ranking.mine
      BY <2>1, <2>8 DEF BoardInv, RankingSound, t
    <3>2. CASE p \in Active  BY <3>1, <3>2 DEF n, b
    <3>3. CASE p \notin Active
      <4>1. ranking.mine = 0  BY <3>1, <3>3 DEF BoardInv, PairNumbers
      <4>2. AtLeast(0) = Active
        BY DEF AtLeast, Active, BoardInv, PairNumbers, PairType
      <4>3. b = t  BY <3>1, <4>1, <4>2 DEF b
      <4> QED  BY <2>5, <3>3, <4>3
    <3> QED  BY <3>2, <3>3
  <2>9. PairNumbers' /\ Active' = Active /\ \A k : AtLeast(k)' = AtLeast(k)
    BY <2>1 DEF BoardInv, PairNumbers, Active, AtLeast
  <2>10. ranking.joined \in BOOLEAN /\ ranking.moved \in BOOLEAN /\ (ranking.joined => ranking.moved)
    BY DEF BoardInv, RankingSound
  <2>11. RankingSound'
    BY <2>1, <2>5, <2>6, <2>7, <2>8, <2>9, <2>10 DEF RankingSound, AtLeast, Active
  <2> QED  BY <2>9, <2>11 DEF BoardInv
<1> QED  BY <1>1, <1>2, <1>3, <1>4, <1>5, <1>6 DEF BoardNext

(* A longer streak is in a smaller share, and no share is beyond all.      *)
LEMMA ShareFalls ==
    ASSUME BoardInv, NEW p \in Active, NEW q \in Active,
           board[q].currentStreak <= board[p].currentStreak
    PROVE  LET total    == Cardinality(Active)
               share(x) == percentOf(Cardinality(AtLeast(board[x].currentStreak)), total)
           IN  share(p) <= share(q) /\ share(p) \in 1 .. 100
<1> DEFINE t == Cardinality(Active)
           A == AtLeast(board[p].currentStreak)
           B == AtLeast(board[q].currentStreak)
           a == Cardinality(A)
           b == Cardinality(B)
<1>1. p \in BoardPairs /\ q \in BoardPairs /\ \A x \in BoardPairs : board[x].currentStreak \in Nat
  BY DEF Active, BoardInv, PairNumbers, PairType
<1>2. A \in SUBSET B /\ B \in SUBSET Active /\ Active \in SUBSET BoardPairs /\ B \in SUBSET BoardPairs
  BY <1>1 DEF AtLeast, Active
<1>3. p \in A  BY <1>1 DEF AtLeast
<1>4. t \in Nat /\ b \in Nat /\ a \in Nat /\ a <= b /\ b <= t
  <2> HIDE DEF A, B
  <2>1. Cardinality(A) \in Nat /\ Cardinality(A) <= Cardinality(B)  BY <1>2, ActiveFinite
  <2>2. /\ Cardinality(B) \in Nat /\ Cardinality(B) <= Cardinality(Active)
        /\ Cardinality(Active) \in Nat
    BY <1>2, ActiveFinite
  <2> QED  BY <2>1, <2>2
<1>5. t # 0
  <2>1. IsFiniteSet(Active)  BY <1>2, ActiveFinite
  <2>2. QED  BY <2>1, FS_EmptySet
<1> HIDE DEF t, a, b
<1>6. a <= t /\ t \in Nat \ {0}  BY <1>4, <1>5
<1>7. percentOf(a, t) \in Nat /\ percentOf(a, t) >= 1 /\ percentOf(a, t) <= percentOf(b, t)
      /\ percentOf(a, t) <= 100
  BY <1>4, <1>6, Percent
<1>8. percentOf(a, t) \in 1 .. 100  BY <1>7
<1> QED  BY <1>7, <1>8 DEF t, a, b

(* The pairs of the first i places have at least the streak of place i.    *)
LEMMA PlacesCounted ==
    ASSUME NEW n \in Nat, NEW S \in SUBSET BoardPairs, NEW b \in [1 .. n -> S], NEW i \in 1 .. n,
           \A j, k \in 1 .. n : j < k => b[j] # b[k], NEW T \in SUBSET BoardPairs,
           \A k \in 1 .. i : b[k] \in T
    PROVE  Cardinality(T) >= i
<1> DEFINE f == [k \in 1 .. i |-> b[k]]
<1>1. f \in [1 .. i -> T]  OBVIOUS
<1>2. ASSUME NEW j \in 1 .. i, NEW k \in 1 .. i, f[j] = f[k] PROVE j = k
  <2>1. j \in 1 .. n /\ k \in 1 .. n /\ j \in Int /\ k \in Int  OBVIOUS
  <2>2. b[j] = b[k]  BY <1>2
  <2>3. ~(j < k) /\ ~(k < j)  BY <2>1, <2>2
  <2> QED  BY <2>1, <2>3
<1>3. f \in Injection(1 .. i, T)
  <2> HIDE DEF f
  <2> QED  BY <1>1, <1>2 DEF Injection, IsInjective
<1>4. IsFiniteSet(T) /\ Cardinality(T) \in Nat  BY ActiveFinite
<1> HIDE DEF f
<1>5. Cardinality(1 .. i) <= Cardinality(T)  BY <1>3, <1>4, FS_Injection
<1>6. i \in Int /\ 1 \in Int /\ ~(1 > i)  OBVIOUS
<1>7. Cardinality(1 .. i) = i - 1 + 1  BY <1>6, FS_Interval
<1> QED  BY <1>4, <1>5, <1>6, <1>7

LEMMA BoardsAgree == BoardInv => BoardAgrees
<1> SUFFICES ASSUME BoardInv PROVE BoardAgrees  OBVIOUS
<1> DEFINE total    == Cardinality(Active)
           share(p) == percentOf(Cardinality(AtLeast(board[p].currentStreak)), total)
           streak(p) == board[p].currentStreak
<1>1. \A p \in BoardPairs : streak(p) \in Nat /\ board[p].longestStreak \in Nat
  BY DEF BoardInv, PairNumbers, PairType
<1>2. ASSUME NEW p \in Active, NEW q \in Active, streak(q) <= streak(p)
      PROVE  share(p) <= share(q) /\ share(p) \in 1 .. 100
  BY <1>2, ShareFalls
<1>3. \A p, q \in Active : share(p) \in 1 .. 100 /\ (streak(q) <= streak(p) => share(p) <= share(q))
  <2> SUFFICES ASSUME NEW p \in Active, NEW q \in Active
               PROVE  share(p) \in 1 .. 100 /\ (streak(q) <= streak(p) => share(p) <= share(q))
    OBVIOUS
  <2>1. streak(p) <= streak(p)  BY <1>1 DEF Active
  <2> HIDE DEF share, streak
  <2>2. QED  BY <1>2, <2>1
<1>4. ASSUME NEW b \in Leaderboards
      PROVE  /\ \A i, j \in DOMAIN b : i < j => share(b[i]) <= share(b[j])
             /\ \A i \in DOMAIN b : /\ Cardinality(AtLeast(streak(b[i]))) >= i
                                    /\ share(b[i]) \in 1 .. 100
             /\ \A p \in Active : (\A i \in DOMAIN b : b[i] # p) =>
                    \A i \in DOMAIN b : share(b[i]) <= share(p)
  <2> DEFINE S == AtLeast(1)
             n == IF Cardinality(S) < LEADERBOARD_LIMIT THEN Cardinality(S) ELSE LEADERBOARD_LIMIT
  <2>1. S \in SUBSET Active /\ S \in SUBSET BoardPairs  BY DEF AtLeast, Active
  <2>2. n \in Nat
    <3>1. Cardinality(S) \in Nat
      <4> HIDE DEF S
      <4> QED  BY <2>1, ActiveFinite
    <3> QED  BY <3>1, BoardAssumption
  <2>3. /\ b \in [1 .. n -> S]
        /\ \A i, j \in 1 .. n : i < j => b[i] # b[j] /\ ~above(b[j], b[i])
        /\ \A p \in S : (\E i \in 1 .. n : b[i] = p) \/ \A i \in 1 .. n : ~above(p, b[i])
    BY DEF Leaderboards
  <2>a. \A p \in Active : streak(p) < 1 \/ p \in S  BY <1>1 DEF AtLeast, Active
  <2>c. \A p \in S : streak(p) >= 1 /\ p \in BoardPairs  BY <1>1 DEF AtLeast, Active
  <2> HIDE DEF n, S
  <2>4. DOMAIN b = 1 .. n /\ \A i \in 1 .. n : b[i] \in S /\ b[i] \in Active /\ b[i] \in BoardPairs
    BY <2>1, <2>3
  <2>5. \A p, q \in BoardPairs : ~above(q, p) => streak(q) <= streak(p)  BY <1>1 DEF above
  <2>6. \A i, j \in 1 .. n : i < j => streak(b[j]) <= streak(b[i])  BY <2>3, <2>4, <2>5
  <2>7. \A i, j \in 1 .. n : i < j => share(b[i]) <= share(b[j])
    <3> HIDE DEF share, streak
    <3> QED  BY <1>3, <2>4, <2>6
  <2>8. ASSUME NEW i \in 1 .. n PROVE Cardinality(AtLeast(streak(b[i]))) >= i
    <3> DEFINE T == AtLeast(streak(b[i]))
    <3>1. T \in SUBSET BoardPairs  BY DEF AtLeast, Active
    <3>2. ASSUME NEW k \in 1 .. i PROVE b[k] \in T
      <4>1. k \in 1 .. n /\ (k < i \/ k = i)  BY <2>2
      <4>2. streak(b[i]) <= streak(b[k])
        <5>1. streak(b[i]) \in Nat  BY <1>1, <2>4
        <5> HIDE DEF streak
        <5>2. CASE k < i  BY <2>6, <4>1, <5>2
        <5>3. CASE k = i  BY <5>1, <5>3
        <5> QED  BY <4>1, <5>2, <5>3
      <4>3. b[k] \in Active  BY <2>4, <4>1
      <4>4. streak(b[i]) \in Nat /\ streak(b[k]) \in Nat  BY <1>1, <2>4, <4>1
      <4> QED  BY <4>2, <4>3, <4>4 DEF AtLeast
    <3> HIDE DEF T
    <3>3. \A j, k \in 1 .. n : j < k => b[j] # b[k]  BY <2>3
    <3>4. Cardinality(T) >= i  BY <2>1, <2>2, <2>3, <3>1, <3>2, <3>3, PlacesCounted
    <3> QED  BY <3>4 DEF T
  <2>9. ASSUME NEW p \in Active, \A i \in 1 .. n : b[i] # p, NEW i \in 1 .. n
        PROVE  share(b[i]) <= share(p)
    <3>1. streak(p) <= streak(b[i])
      <4>0. p \in BoardPairs  BY DEF Active
      <4>1. CASE p \in S
        <5>1. ~above(p, b[i])  BY <2>3, <2>9, <4>1
        <5> QED  BY <2>4, <2>5, <4>0, <5>1
      <4>2. CASE p \notin S
        <5>1. streak(p) < 1 /\ streak(b[i]) >= 1  BY <2>a, <2>c, <2>4, <4>2
        <5>2. streak(p) \in Nat /\ streak(b[i]) \in Nat  BY <1>1, <2>4, <4>0
        <5> QED  BY <5>1, <5>2
      <4> QED  BY <4>1, <4>2
    <3>2. b[i] \in Active  BY <2>4
    <3> HIDE DEF share, streak
    <3> QED  BY <1>3, <3>1, <3>2
  <2>10. \A i \in 1 .. n : share(b[i]) \in 1 .. 100
    <3> HIDE DEF share, streak
    <3> QED  BY <1>3, <2>4
  <2> HIDE DEF share, streak
  <2> QED  BY <2>4, <2>7, <2>8, <2>9, <2>10
<1>5. ranking.percent # Never =>
        /\ ranking.percent >= 1
        /\ ranking.percent > 100 => ranking.joined
        /\ ~ranking.moved => \A p \in ranking.pair :
              IF p \in Active THEN ranking.percent = share(p) ELSE ranking.percent = 100
  BY DEF BoardInv, RankingSound
<1> HIDE DEF share
<1>6. QED  BY <1>4, <1>5 DEF BoardAgrees, share

(* Whoever stands higher on the board is in no larger percentile, a pair   *)
(* that is not shown is not better than one that is, and a percentile      *)
(* beyond 100 needs a pair that became active between the two counts       *)
(* (getLeaderboard, percentileRank).                                       *)
THEOREM BoardAlwaysAgrees == BoardSpec => []BoardAgrees
BY BoardBegins, BoardKept, BoardsAgree, PTL DEF BoardSpec

LEMMA Smallest == ASSUME NEW S \in SUBSET Nat, S # {}
                  PROVE  \E m \in S : \A j \in S : m <= j
<1>1. PICK m \in S : \A j \in S : <<j, m>> \notin OpToRel(<, Nat)
  BY NatLessThanWellFounded, WFMin
<1>2. \A j \in S : ~(j < m)  BY <1>1 DEF OpToRel
<1>3. \A j \in S : j \in Nat /\ m \in Nat  OBVIOUS
<1>4. \A j \in S : m <= j  BY <1>2, <1>3
<1> QED  BY <1>4

(* A quotient is the number of the interval.                               *)
LEMMA IntervalOf ==
    ASSUME NEW x \in Nat, NEW d \in Nat \ {0}, NEW q \in Nat
    PROVE  x \div d = q <=> q * d <= x /\ x < q * d + d
<1> DEFINE p == x \div d
<1>1. p \in Nat /\ p * d <= x /\ x < (p + 1) * d  BY Quotient
<1> HIDE DEF p
<1>2. (p + 1) * d = p * d + d /\ p * d \in Nat  BY <1>1
<1>3. q * d \in Nat /\ (q + 1) * d = q * d + d  OBVIOUS
<1>4. ASSUME q * d <= x, x < q * d + d, p + 1 <= q PROVE FALSE
  <2>1. (p + 1) * d <= q * d  BY <1>1, <1>4, Products
  <2> QED  BY <1>1, <1>2, <1>3, <1>4, <2>1
<1>5. ASSUME q * d <= x, x < q * d + d, q + 1 <= p PROVE FALSE
  <2>1. (q + 1) * d <= p * d  BY <1>1, <1>5, Products
  <2> QED  BY <1>1, <1>2, <1>3, <1>5, <2>1
<1>6. q * d <= x /\ x < q * d + d => p = q  BY <1>1, <1>4, <1>5
<1>7. p = q => q * d <= x /\ x < q * d + d  BY <1>1, <1>2
<1> QED  BY <1>6, <1>7 DEF p

LEMMA DayOfRow ==
    ASSUME NEW at \in Nat, NEW instant \in Nat, NEW z \in Zones
    PROVE  /\ startOfDay(instant, z) \in Int
           /\ isSameActivityDay(at, instant, z) <=>
                 /\ startOfDay(instant, z) <= at
                 /\ at < startOfDay(instant, z) + SlotsPerDay
<1> DEFINE off == IF z = "local" THEN ZoneShift ELSE 0
           x == at + off  y == instant + off  d == SlotsPerDay  q == y \div d
<1>1. off \in Nat /\ x \in Nat /\ y \in Nat /\ d \in Nat \ {0}  BY DayWindowAssumption
<1>2. x = at + off  OBVIOUS
<1>3. startOfDay(instant, z) = q * d - off  BY DEF startOfDay, formatDayInTimeZone
<1>4. isSameActivityDay(at, instant, z) <=> x \div d = q
  BY DEF isSameActivityDay, formatDayInTimeZone
<1> HIDE DEF x, y, off, d
<1>5. q \in Nat  BY <1>1, Quotient
<1> HIDE DEF q
<1>6. q * d \in Nat  BY <1>1, <1>5
<1>7. x \div d = q <=> q * d <= x /\ x < q * d + d  BY <1>1, <1>5, IntervalOf
<1>8. /\ q * d - off \in Int
      /\ q * d <= x <=> q * d - off <= at
      /\ x < q * d + d <=> at < q * d - off + d
  BY <1>1, <1>2, <1>6
<1> QED  BY <1>3, <1>4, <1>7, <1>8 DEF d

(* What is shown of today (describeActivity) is a row of today's label and *)
(* none of today is later, whatever the rows, the moment and the zone; and *)
(* nothing is shown only when there is none.                               *)
THEOREM RowsAlwaysOfToday ==
    \A rows \in SUBSET [table : DOMAIN ActivityTables, at : Nat], instant \in Nat, z \in Zones :
        ActivityIsOfToday(rows, instant, z)
<1> SUFFICES ASSUME NEW rows \in SUBSET [table : DOMAIN ActivityTables, at : Nat],
                    NEW instant \in Nat, NEW z \in Zones
             PROVE  ActivityIsOfToday(rows, instant, z)
  OBVIOUS
<1> DEFINE start == startOfDay(instant, z)
           ofDay == {x \in rows : start <= x.at /\ x.at < start + SlotsPerDay}
           own   == {x \in rows : isSameActivityDay(x.at, instant, z)}
           Best(x) == \A y \in ofDay : x.at > y.at \/ (x.at = y.at /\ x.table <= y.table)
           best  == CHOOSE x \in ofDay : Best(x)
           told  == describeActivity(rows, instant, z)
<1>1. \A x \in rows : x.at \in Nat /\ x.table \in Nat
  <2>1. DOMAIN ActivityTables \subseteq Nat  BY DEF ActivityTables
  <2> QED  BY <2>1
<1>2. start \in Int /\ ofDay = own
  <2>1. start \in Int  BY DayOfRow
  <2>2. \A x \in rows : isSameActivityDay(x.at, instant, z) <=>
                           start <= x.at /\ x.at < start + SlotsPerDay
    BY <1>1, DayOfRow
  <2> QED  BY <2>1, <2>2
<1>3. told = IF ofDay = {} THEN [qualified |-> FALSE, label |-> "none", at |-> Never]
             ELSE [qualified |-> TRUE, label |-> ActivityTables[best.table], at |-> best.at]
  BY DEF describeActivity
<1>4. \A x \in ofDay : x \in rows /\ x.at \in Nat /\ x.table \in Nat /\ x.at < start + SlotsPerDay
  BY <1>1
<1>5. ASSUME ofDay # {} PROVE best \in ofDay /\ Best(best)
  <2> DEFINE far == start + SlotsPerDay
             K == {far - x.at : x \in ofDay}
  <2>1. far \in Int  BY <1>2, DayWindowAssumption
  <2> HIDE DEF far, start, ofDay
  <2>2. K \in SUBSET Nat /\ K # {}  BY <1>4, <1>5, <2>1 DEF far
  <2>3. PICK k \in K : \A j \in K : k <= j  BY <2>2, Smallest
  <2>4. PICK u \in ofDay : k = far - u.at  BY <2>3
  <2>5. \A y \in ofDay : y.at <= u.at
    <3> SUFFICES ASSUME NEW y \in ofDay PROVE y.at <= u.at  OBVIOUS
    <3>1. far - y.at \in K  OBVIOUS
    <3>2. far - u.at <= far - y.at  BY <2>3, <2>4, <3>1
    <3> QED  BY <1>4, <2>1, <3>2
  <2> DEFINE M == {x.table : x \in {y \in ofDay : y.at = u.at}}
  <2>6. M \in SUBSET Nat /\ M # {}  BY <1>4
  <2>7. PICK m \in M : \A j \in M : m <= j  BY <2>6, Smallest
  <2>8. PICK v \in ofDay : v.at = u.at /\ v.table = m  BY <2>7
  <2>9. \A y \in ofDay : v.at > y.at \/ (v.at = y.at /\ v.table <= y.table)
    <3> SUFFICES ASSUME NEW y \in ofDay, y.at = u.at PROVE v.table <= y.table
      BY <1>4, <2>5, <2>8
    <3>1. y.table \in M  OBVIOUS
    <3> QED  BY <2>7, <2>8, <3>1
  <2>10. \E x \in ofDay : Best(x)  BY <2>9
  <2> HIDE DEF Best
  <2> QED  BY <2>10
<1> HIDE DEF best, ofDay, own, told, start
<1>6. CASE ofDay = {}
  BY <1>2, <1>3, <1>6 DEF ActivityIsOfToday, told, own
<1>7. CASE ofDay # {}
  <2>1. /\ told.qualified = TRUE /\ told.at = best.at
        /\ told.label = ActivityTables[best.table]
    BY <1>3, <1>7
  <2>2. best \in own  BY <1>2, <1>5, <1>7
  <2>3. \A x \in own : x.at <= told.at
    <3>1. best.at \in Nat /\ \A y \in ofDay : best.at > y.at \/ best.at = y.at
      BY <1>4, <1>5, <1>7
    <3> QED  BY <1>2, <1>4, <2>1, <3>1
  <2>4. /\ told.qualified <=> own # {}
        /\ told.qualified => /\ \E x \in own : x.at = told.at /\ ActivityTables[x.table] = told.label
                             /\ \A x \in own : x.at <= told.at
    BY <2>1, <2>2, <2>3
  <2> QED  BY <2>4 DEF ActivityIsOfToday, told, own
<1> QED  BY <1>6, <1>7
=============================================================================
