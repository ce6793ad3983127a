--------------------------- MODULE RefreshSessions ---------------------------
(***************************************************************************)
(* The refresh sessions of one user in Redis: a family holds the hash of   *)
(* the one secret that may be redeemed next, a set per user indexes the    *)
(* families.  Any number of calls issue, rotate, revoke and sweep at once; *)
(* one Redis command, script or pipeline is one step.                      *)
(***************************************************************************)
EXTENDS Naturals, FiniteSets

CONSTANTS Calls,       \* calls of RefreshTokenService that may run at once
          Families,    \* family ids: randomUUID, never drawn twice
          MaxSecret,   \* bound on the rotations of one family
          None

ASSUME RefreshAssumption ==
    MaxSecret \in Nat /\ None \notin Families /\ None \notin 0 .. MaxSecret

Secrets == 0 .. MaxSecret

VARIABLES family,     \* auth:refresh:family:<id>: the current secret
          index,      \* the per-user set of family ids
          job,        \* what each call is doing
          cookies,    \* the refresh cookies some browser was handed
          redeemed,   \* history: the cookies that rotated
          burned,     \* history: the families a wrong secret was presented to
          raced       \* history: the families indexed during a sweep

redisVars == <<family, index, job, cookies, redeemed, burned, raced>>

Idle == [op |-> "none", pc |-> "none", f |-> None, n |-> None, seen |-> {}]

SessionsInit ==
    /\ family = [f \in Families |-> None]
    /\ index = {} /\ cookies = {}
    /\ job = [c \in Calls |-> Idle]
    /\ redeemed = {} /\ burned = {} /\ raced = {}

Live(f) == family[f] # None

\* No call drew the id yet.  Used ids keep a cookie, an index entry or a job.
Fresh(f) ==
    /\ ~Live(f) /\ f \notin index \cup burned
    /\ \A k \in cookies : k[1] # f
    /\ \A c \in Calls : job[c].f # f /\ f \notin job[c].seen

Sweeping == {c \in Calls : job[c].op = "sweep"}

(* Whatever fails, a command or the process, the call ends where it was.   *)
Abandon(c) ==
    /\ job[c].op # "none"
    /\ job' = [job EXCEPT ![c] = Idle]
    /\ UNCHANGED <<family, index, cookies, redeemed, burned, raced>>
-----------------------------------------------------------------------------
(* issue: SET of the family, then SADD to the index, then the cookie.      *)
IssueFamily(c, f) ==
    /\ job[c] = Idle /\ Fresh(f)
    /\ family' = [family EXCEPT ![f] = 0]
    /\ job' = [job EXCEPT ![c] = [Idle EXCEPT !.op = "issue", !.pc = "add", !.f = f]]
    /\ UNCHANGED <<index, cookies, redeemed, burned, raced>>

IssueIndex(c) ==
    LET f == job[c].f
    IN  /\ job[c].op = "issue"
        /\ index' = index \cup {f}
        /\ raced' = IF Sweeping = {} THEN raced ELSE raced \cup {f}
        /\ cookies' = cookies \cup {<<f, 0>>}
        /\ job' = [job EXCEPT ![c] = Idle]
        /\ UNCHANGED <<family, redeemed, burned>>

(* Mutant: a secret that is not the current one is refused, no more. *)
RotateLenient(c, f, n) ==
    /\ job[c] = Idle /\ <<f, n>> \in cookies
    /\ IF family[f] = n
       THEN /\ n < MaxSecret
            /\ family' = [family EXCEPT ![f] = n + 1]
            /\ redeemed' = redeemed \cup {<<f, n>>}
            /\ job' = [job EXCEPT ![c] = [Idle EXCEPT !.op = "rotated", !.f = f, !.n = n + 1]]
            /\ UNCHANGED burned
       ELSE /\ burned' = IF Live(f) THEN burned \cup {f} ELSE burned
            /\ UNCHANGED <<family, redeemed, job>>
    /\ UNCHANGED <<index, cookies, raced>>

(* rotate-refresh-token.lua: the current secret is replaced; any other one *)
(* deletes the family.  The new cookie is the call's until Deliver.        *)
Rotate(c, f, n) ==
    /\ job[c] = Idle /\ <<f, n>> \in cookies
    /\ IF family[f] = n
       THEN /\ n < MaxSecret
            /\ family' = [family EXCEPT ![f] = n + 1]
            /\ redeemed' = redeemed \cup {<<f, n>>}
            /\ job' = [job EXCEPT ![c] = [Idle EXCEPT !.op = "rotated", !.f = f, !.n = n + 1]]
            /\ UNCHANGED burned
       ELSE /\ family' = [family EXCEPT ![f] = None]
            /\ burned' = IF Live(f) THEN burned \cup {f} ELSE burned
            /\ UNCHANGED <<redeemed, job>>
    /\ UNCHANGED <<index, cookies, raced>>

Deliver(c) ==
    /\ job[c].op = "rotated"
    /\ cookies' = cookies \cup {<<job[c].f, job[c].n>>}
    /\ job' = [job EXCEPT ![c] = Idle]
    /\ UNCHANGED <<family, index, redeemed, burned, raced>>

(* revoke: GET, then one pipeline of DEL and, if the record was there, SREM. *)
RevokeRead(c, f) ==
    /\ job[c] = Idle \/ (job[c].op = "rotated" /\ job[c].f = f)
    /\ job' = [job EXCEPT ![c] = [Idle EXCEPT !.op = "revoke", !.f = f,
                                    !.seen = IF Live(f) THEN {f} ELSE {}]]
    /\ UNCHANGED <<family, index, cookies, redeemed, burned, raced>>

RevokeDelete(c) ==
    /\ job[c].op = "revoke"
    /\ family' = [family EXCEPT ![job[c].f] = None]
    /\ index' = index \ job[c].seen
    /\ job' = [job EXCEPT ![c] = Idle]
    /\ UNCHANGED <<cookies, redeemed, burned, raced>>

(* revokeAllForUser: SMEMBERS, a pipeline of DELs, DEL of the index.       *)
SweepRead(c) ==
    /\ job[c] = Idle
    /\ job' = [job EXCEPT ![c] = [Idle EXCEPT !.op = "sweep", !.pc = "families",
                                    !.seen = index]]
    /\ UNCHANGED <<family, index, cookies, redeemed, burned, raced>>

(* Mutant: the index is dropped, the families are left to expire. *)
SweepNoFamily(c) ==
    /\ job[c].op = "sweep" /\ job[c].pc = "families"
    /\ job' = [job EXCEPT ![c].pc = "index"]
    /\ UNCHANGED <<family, index, cookies, redeemed, burned, raced>>

SweepFamilies(c) ==
    /\ job[c].op = "sweep" /\ job[c].pc = "families"
    /\ family' = [f \in Families |-> IF f \in job[c].seen THEN None ELSE family[f]]
    /\ job' = [job EXCEPT ![c].pc = "index"]
    /\ UNCHANGED <<index, cookies, redeemed, burned, raced>>

SweepIndex(c) ==
    /\ job[c].op = "sweep" /\ job[c].pc = "index"
    /\ index' = {}
    /\ job' = [job EXCEPT ![c] = Idle]
    /\ UNCHANGED <<family, cookies, redeemed, burned, raced>>

(* REFRESH_TOKEN_TTL_SECONDS without a rotation.  The index has no TTL.    *)
Expire(f) ==
    /\ Live(f)
    /\ family' = [family EXCEPT ![f] = None]
    /\ UNCHANGED <<index, job, cookies, redeemed, burned, raced>>

SessionsNext ==
    \/ \E c \in Calls :
          \/ IssueIndex(c) \/ Deliver(c) \/ RevokeDelete(c)
          \/ SweepRead(c) \/ SweepFamilies(c) \/ SweepIndex(c) \/ Abandon(c)
          \/ \E f \in Families : IssueFamily(c, f) \/ RevokeRead(c, f)
          \/ \E f \in Families, n \in Secrets : Rotate(c, f, n)
    \/ \E f \in Families : Expire(f)

SessionsSpec == SessionsInit /\ [][SessionsNext]_redisVars
-----------------------------------------------------------------------------
\* A browser can present a cookie of it.
Usable(f) == Live(f) /\ \E n \in Secrets : <<f, n>> \in cookies

(* A secret is redeemed at most once, and a family that was shown a spent  *)
(* secret is never refreshed again, whichever of two refresh requests with *)
(* one cookie, lost answers and revocations comes first                    *)
(* (rotate-refresh-token.lua).                                             *)
RedeemedOnce ==
    \A f \in Families :
        Live(f) => /\ f \notin burned
                   /\ \A n \in Secrets : <<f, n>> \in redeemed => n < family[f]

(* revokeAllForUser knows the families by the index alone: every family a  *)
(* browser can use is in it, except one that was indexed while a sweep was *)
(* between its SMEMBERS and the DEL of the index.                          *)
EverySessionIndexed ==
    \A f \in Families : Usable(f) => f \in index \cup raced

(* "Revokes every refresh-token family belonging to a user in one call"    *)
(* (refresh-token.service.ts:235): no exception.                           *)
SweepSeesAll == Sweeping = {} => \A f \in Families : Usable(f) => f \in index
=============================================================================
