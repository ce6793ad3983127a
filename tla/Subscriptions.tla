---------------------------- MODULE Subscriptions ----------------------------
(***************************************************************************)
(* Everything that moves a subscription's expiresAt: the SePay webhook     *)
(* that settles an order, the referral and the ten-lesson rewards, and the *)
(* administrator's grant and revoke.  A job is one database transaction;   *)
(* it waits for the rows another job has written, and its NOW() is the     *)
(* instant it began.                                                       *)
(*                                                                         *)
(* Deliveries that are not incoming or carry no payment code change        *)
(* nothing and are left out.  A SePay id names one transfer, hence one     *)
(* order, so the unique index on providerTransactionId never refuses here. *)
(***************************************************************************)
EXTENDS PaymentOrders, Sequences, FiniteSets

CONSTANTS Jobs,
          CodeOf, AmountOf,    \* the order a transfer names, the plan it pays
          PRO,                 \* PRO_MONTHLY, the plan of the rewards
          DURATION_DAYS, REFERRAL_REWARD_DAYS, REWARD_DAYS, GrantDays,
          Dates                \* the days on which something happens

SubType == [expiresAt : Int, lastPayment : Codes \cup {None}]

ASSUME SubscriptionsAssumption ==
    /\ None \notin SubType
    /\ IsFiniteSet(Users) /\ IsFiniteSet(Codes)
    /\ CodeOf \in [Transfers -> Codes] /\ AmountOf \in [Transfers -> Plans]
    /\ PRO \in Plans
    /\ DURATION_DAYS \in [Plans -> Nat] /\ GrantDays \in Nat
    /\ REFERRAL_REWARD_DAYS \in Nat /\ REWARD_DAYS \in Nat
    /\ 0 \in Dates /\ Dates \subseteq Nat

VARIABLES today,       \* the date
          subs,        \* the subscriptions table, by key
          referral,    \* the referral row of each invitee
          tenLessons,  \* the users whose ten lessons are completed
          rewarded,    \* the users whose lessonMilestoneRewardedAt is set
          job,         \* the open transactions
          granted,     \* history: days granted by an administrator
          forfeited    \* history: days that a revoke took away

subVars == <<subs, referral, tenLessons, rewarded, job, granted, forfeited>>
vars    == <<orderVars, today, subVars>>

NoSub      == [expiresAt |-> -1, lastPayment |-> None]
NoReferral == [inviter |-> None, rewarded |-> FALSE]

IdleJob ==
    [pc |-> "idle", kind |-> "none", row |-> None, transfer |-> None,
     claimed |-> FALSE, at |-> 0, due |-> <<>>, days |-> 0,
     wrote |-> [k \in PlanKeys |-> None]]

Init ==
    /\ OrdersInit
    /\ today = 0
    /\ subs = [k \in PlanKeys |-> NoSub]
    /\ referral = [u \in Users |-> NoReferral]
    /\ tenLessons = {} /\ rewarded = {}
    /\ job = [j \in Jobs |-> IdleJob]
    /\ granted = [k \in PlanKeys |-> 0]
    /\ forfeited = [k \in PlanKeys |-> 0]
-----------------------------------------------------------------------------
OnlyJob(j, new) ==
    /\ job' = [job EXCEPT ![j] = new]
    /\ UNCHANGED <<orderVars, today, subs, referral, tenLessons, rewarded,
                   granted, forfeited>>

Claim(kind, row, transfer) ==
    [IdleJob EXCEPT !.pc = "claim", !.kind = kind, !.row = row,
                    !.transfer = transfer, !.at = today]

(* processSepayWebhook opens its transaction, for any delivery.            *)
Deliver(j, t) ==
    /\ job[j] = IdleJob
    /\ OnlyJob(j, Claim("webhook", CodeOf[t], t))

(* ReferralService.onUserActivityDay, in the transaction that opened the   *)
(* invitee's day: the early return reads a row that may be stale.          *)
ActivityDay(j, u) ==
    /\ job[j] = IdleJob
    /\ referral[u] # NoReferral /\ ~referral[u].rewarded
    /\ OnlyJob(j, Claim("referral", u, None))

(* LessonMilestoneService.checkAndGrant, on a dashboard read. *)
Dashboard(j, u) ==
    /\ job[j] = IdleJob
    /\ u \in tenLessons \ rewarded
    /\ OnlyJob(j, Claim("milestone", u, None))

(* The administrator's statements, each a transaction of its own. *)
Admin(j, kind, key) ==
    /\ job[j] = IdleJob
    /\ kind \in {"grant", "revoke"}
    /\ OnlyJob(j, [IdleJob EXCEPT !.pc = "extend", !.kind = kind, !.at = today,
                                  !.due = <<key>>, !.days = GrantDays])

(* An UPDATE waits for the transaction that has its row in hand, and then  *)
(* looks at the committed row again.                                       *)
RowFree(j) ==
    \A i \in Jobs \ {j} :
        ~(job[i].claimed /\ job[i].kind = job[j].kind /\ job[i].row = job[j].row)

(* Mutant: neither the status nor the transfer of the row is looked at.    *)
MatchesAgain(j) ==
    LET c == job[j].row
    IN  CASE job[j].kind = "webhook" ->
               orders[c] # NoOrder /\ orders[c].key[2] = AmountOf[job[j].transfer]
          [] job[j].kind = "referral"  -> ~referral[c].rewarded
          [] job[j].kind = "milestone" -> c \notin rewarded

(* The WHERE of each conditional update. *)
Matches(j) ==
    LET c == job[j].row
    IN  CASE job[j].kind = "webhook" ->
               /\ orders[c].status = "PENDING" /\ orders[c].paidBy = None
               /\ orders[c].key[2] = AmountOf[job[j].transfer]
          [] job[j].kind = "referral"  -> ~referral[c].rewarded
          [] job[j].kind = "milestone" -> c \notin rewarded

(* The subscriptions a claim extends, in the order of the statements, and  *)
(* by how many days.                                                       *)
Due(j) ==
    LET c == job[j].row
    IN  CASE job[j].kind = "webhook"   -> <<orders[c].key>>
          [] job[j].kind = "referral"  -> << <<referral[c].inviter, PRO>>, <<c, PRO>> >>
          [] job[j].kind = "milestone" -> << <<c, PRO>> >>

Days(j) ==
    CASE job[j].kind = "webhook"   -> DURATION_DAYS[orders[job[j].row].key[2]]
      [] job[j].kind = "referral"  -> REFERRAL_REWARD_DAYS
      [] job[j].kind = "milestone" -> REWARD_DAYS

(* The claim wins: its row is locked and the extensions are due. *)
ClaimWon(j) ==
    /\ job[j].pc = "claim" /\ RowFree(j) /\ Matches(j)
    /\ OnlyJob(j, [job[j] EXCEPT !.pc = "extend", !.claimed = TRUE,
                                 !.due = Due(j), !.days = Days(j)])

(* updated.count = 0: unknown code, wrong amount, duplicate, lost race. *)
ClaimLost(j) ==
    /\ job[j].pc = "claim" /\ RowFree(j) /\ ~Matches(j)
    /\ OnlyJob(j, IdleJob)

(* Mutant: the row is read and written without its lock. *)
SubFreeUnlocked(j, key) == TRUE

SubFree(j, key) == \A i \in Jobs \ {j} : job[i].wrote[key] = None

Later(a, b) == IF a > b THEN a ELSE b

(* INSERT ... ON CONFLICT DO UPDATE SET expiresAt = GREATEST(expiresAt,    *)
(* NOW()) + days; a revoke sets NOW().  Only a payment sets lastPaymentId. *)
Extended(j, key) ==
    IF job[j].kind = "revoke"
    THEN [subs[key] EXCEPT !.expiresAt = job[j].at]
    ELSE [expiresAt |-> Later(subs[key].expiresAt, job[j].at) + job[j].days,
          lastPayment |-> IF job[j].kind = "webhook" THEN job[j].row
                          ELSE subs[key].lastPayment]

(* A revoke is an UPDATE: without a row there is nothing to revoke. *)
NothingToRevoke(j) == job[j].kind = "revoke" /\ subs[Head(job[j].due)] = NoSub

Extend(j) ==
    LET key == Head(job[j].due)
    IN  /\ job[j].pc = "extend" /\ job[j].due # <<>>
        /\ SubFree(j, key) /\ ~NothingToRevoke(j)
        /\ OnlyJob(j, [job[j] EXCEPT !.due = Tail(@),
                                   !.wrote[key] = Extended(j, key)])

RevokeNothing(j) ==
    /\ job[j].pc = "extend" /\ job[j].due # <<>>
    /\ SubFree(j, Head(job[j].due)) /\ NothingToRevoke(j)
    /\ OnlyJob(j, IdleJob)

Credited(key) ==
    LET paid    == {c \in Codes : orders[c].key = key /\ orders[c].status = "PAID"}
        friends == {u \in Users : referral[u].rewarded
                                  /\ key[1] \in {u, referral[u].inviter}}
    IN  Cardinality(paid) * DURATION_DAYS[key[2]] + granted[key]
        + IF key[2] # PRO THEN 0
          ELSE Cardinality(friends) * REFERRAL_REWARD_DAYS
               + IF key[1] \in rewarded THEN REWARD_DAYS ELSE 0

Commit(j) ==
    LET w == job[j].wrote
    IN  /\ job[j].pc = "extend" /\ job[j].due = <<>>
        /\ subs' = [k \in PlanKeys |-> IF w[k] = None THEN subs[k] ELSE w[k]]
        /\ orders' = IF job[j].kind = "webhook"
                     THEN Settled(job[j].row, job[j].transfer) ELSE orders
        /\ referral' = IF job[j].kind = "referral"
                       THEN [referral EXCEPT ![job[j].row].rewarded = TRUE]
                       ELSE referral
        /\ rewarded' = IF job[j].kind = "milestone"
                       THEN rewarded \cup {job[j].row} ELSE rewarded
        /\ granted' = IF job[j].kind = "grant"
                      THEN [k \in PlanKeys |-> IF w[k] = None THEN granted[k]
                                                   ELSE granted[k] + job[j].days]
                      ELSE granted
        /\ forfeited' = IF job[j].kind = "revoke"
                        THEN [k \in PlanKeys |-> IF w[k] = None THEN forfeited[k]
                                                     ELSE Credited(k)]
                        ELSE forfeited
        /\ job' = [job EXCEPT ![j] = IdleJob]
        /\ UNCHANGED <<createLock, request, overrun, today, tenLessons>>

(* A crash, a lost connection, or the victim of a deadlock: two referral   *)
(* rewards that lock each other's subscriptions in opposite orders.        *)
Rollback(j) ==
    /\ job[j].pc # "idle"
    /\ OnlyJob(j, IdleJob)

(* ReferralService.redeem: one row per invitee, never oneself.             *)
Redeem(invitee, inviter) ==
    /\ invitee # inviter
    /\ referral[invitee] = NoReferral
    /\ referral' = [referral EXCEPT ![invitee].inviter = inviter]
    /\ UNCHANGED <<orderVars, today, subs, tenLessons, rewarded, job, granted, forfeited>>

CompleteLessons(u) ==
    /\ u \notin tenLessons
    /\ tenLessons' = tenLessons \cup {u}
    /\ UNCHANGED <<orderVars, today, subs, referral, rewarded, job, granted, forfeited>>

Tick ==
    /\ \E d \in Dates : d > today /\ today' = d
    /\ UNCHANGED <<orderVars, subVars>>

JobStep(j) == ClaimWon(j) \/ ClaimLost(j) \/ Extend(j) \/ RevokeNothing(j) \/ Commit(j)

Next ==
    \/ CreationNext /\ UNCHANGED <<today, subVars>>
    \/ \E j \in Jobs : JobStep(j) \/ Rollback(j)
    \/ \E j \in Jobs, t \in Transfers : Deliver(j, t)
    \/ \E j \in Jobs, u \in Users : ActivityDay(j, u) \/ Dashboard(j, u)
    \/ \E j \in Jobs, kind \in {"grant", "revoke"}, key \in PlanKeys : Admin(j, kind, key)
    \/ \E u, v \in Users : Redeem(u, v)
    \/ \E u \in Users : CompleteLessons(u)
    \/ Tick

Spec == Init /\ [][Next]_vars
-----------------------------------------------------------------------------
JobType ==
    [pc : {"idle", "claim", "extend"},
     kind : {"none", "webhook", "referral", "milestone", "grant", "revoke"},
     row : Codes \cup Users \cup {None}, transfer : Transfers \cup {None},
     claimed : BOOLEAN, at : Nat, due : Seq(PlanKeys), days : Nat,
     wrote : [PlanKeys -> SubType \cup {None}]]

(* Every variable has its type. *)
TypeOK ==
    /\ OrdersTypeOK
    /\ today \in Dates
    /\ subs \in [PlanKeys -> SubType]
    /\ referral \in [Users -> [inviter : Users \cup {None}, rewarded : BOOLEAN]]
    /\ tenLessons \subseteq Users /\ rewarded \subseteq Users
    /\ job \in [Jobs -> JobType]
    /\ granted \in [PlanKeys -> Nat] /\ forfeited \in [PlanKeys -> Nat]

(* Every paid, earned or granted day is on the subscription once, and no   *)
(* other: duplicate and late webhooks, two orders of a plan settled at     *)
(* once, a reward racing a payment, mutual referrals that deadlock,        *)
(* rollbacks and revokes lose none and add none.  A day is lost only when  *)
(* it is revoked; expiresAt lies at most what is owed after today.         *)
DaysAccounted ==
    \A key \in PlanKeys :
        LET owed == Credited(key) - forfeited[key]
        IN  IF subs[key] = NoSub THEN owed = 0
            ELSE owed <= subs[key].expiresAt /\ subs[key].expiresAt <= today + owed

(* lastPaymentId, once a payment has set it, always names a paid order of  *)
(* that user and plan: grants, rewards and revokes leave it alone.         *)
LastPaymentKept ==
    \A key \in PlanKeys :
        LET paid == {c \in Codes : orders[c].key = key /\ orders[c].status = "PAID"}
        IN  IF paid = {} THEN subs[key].lastPayment = None
            ELSE subs[key].lastPayment \in paid

(* A subscription holds the days it is owed and the payment it was last    *)
(* bought with.                                                            *)
EntitlementAccounted == DaysAccounted /\ LastPaymentKept

(* Every request is answered or refused: no one waits for the lock beyond  *)
(* its poll budget, whatever becomes of the holder.                        *)
EveryRequestAnswered ==
    \A r \in Requests :
        request[r].pc # "new" ~> request[r].pc \in {"answered", "failed"}

(* Settlement implements PaymentOrders: whatever deliveries are repeated,  *)
(* late or concurrent, an order is only ever paid once, by one transfer,   *)
(* and a paid order never changes again.                                   *)
ImplementsOrders == OrdersSpec
=============================================================================
