------------------------------ MODULE Accounts ------------------------------
(***************************************************************************)
(* One email address from sign-up to the loss of the account: the User     *)
(* row, its Google identity, the mailed tokens of email verification and   *)
(* password reset (AuthService, AdminStudentOverviewService.setActiveStatus *)
(* and UserService.changePassword), on top of the sessions in Redis.       *)
(*                                                                         *)
(* Every request is one call, made once.  A step is one statement, or one  *)
(* transaction at its commit; a request that is refused changes nothing    *)
(* and has no step, unless it had changed something before.                *)
(***************************************************************************)
EXTENDS RefreshSessions

CONSTANTS Passwords,
          Tokens,          \* the mailed tokens, reset and verification
          MaxEra,          \* bound on resets and blocks
          Scenes, Ops(_),  \* the requests made in a scene
          User0(_)         \* the row a scene starts from

UserRows == [password : Passwords \cup {None}, verified : BOOLEAN, active : BOOLEAN]

ASSUME AccountsAssumption ==
    /\ None \notin UserRows
    /\ \A s \in Scenes : User0(s) \in UserRows \cup {None}

VARIABLES scene,
          user,       \* the User row, None before sign-up
          google,     \* its AuthIdentity row exists
          token,      \* EmailVerificationToken and PasswordResetToken rows
          call,       \* the requests
          proofs,     \* history: how ownership of the address was proved
          era,        \* history: resets and blocks committed
          stamp,      \* history: the era a family was handed out in
          closed      \* history: the last era whose request was answered 200

rowVars  == <<user, google, token, proofs, era>>
vars     == <<redisVars, scene, rowVars, call, stamp, closed>>

NewCall == [op |-> "none", pc |-> "new", pw |-> None, verified |-> FALSE,
            t |-> None, seen |-> {}, era |-> 0]
NoToken == [kind |-> "none", state |-> "free", era |-> 0, past |-> {}]

liveTokens(kind) ==
    {t \in Tokens : token[t].kind = kind /\ token[t].state = "live"}
consumed(ts) ==
    [t \in Tokens |-> IF t \in ts THEN [token[t] EXCEPT !.state = "consumed"] ELSE token[t]]

(* The resets that have looked for the tokens of a kind and did not commit. *)
looked(kind) ==
    {c \in Calls : /\ call[c].op = "resetPassword"
                   /\ \/ call[c].pc = "commit"
                      \/ call[c].pc = "verifications" /\ kind = "reset"}

Init ==
    /\ SessionsInit
    /\ scene \in Scenes
    /\ user = User0(scene) /\ google = FALSE
    /\ token = [t \in Tokens |-> NoToken]
    /\ call = [c \in Calls |-> NewCall]
    /\ proofs = IF user # None /\ user.verified THEN {"token"} ELSE {}
    /\ era = 0 /\ closed = 0
    /\ stamp = [f \in Families |-> 0]
-----------------------------------------------------------------------------
May(c, op)  == call[c].pc = "new" /\ op \in Ops(scene)
At(c, op, pc) == call[c].op = op /\ call[c].pc = pc
To(c, op, pc) == call' = [call EXCEPT ![c].op = op, ![c].pc = pc]
Finish(c)     == call' = [call EXCEPT ![c].pc = "done"]

NoRedis == UNCHANGED redisVars /\ UNCHANGED <<scene, stamp, closed>>
NoRows  == UNCHANGED rowVars /\ UNCHANGED <<scene, closed>>

(* login: the row as read must pass every check; the session comes later.  *)
Login(c, p) ==
    /\ May(c, "login")
    /\ user # None /\ user.password = p /\ user.active /\ user.verified
    /\ To(c, "login", "issue")
    /\ UNCHANGED rowVars /\ NoRedis

(* register: the unique email decides; the new account is unverified and   *)
(* gets a mail, no session.                                                *)
Register(c, p) ==
    /\ May(c, "register") /\ user = None
    /\ user' = [password |-> p, verified |-> FALSE, active |-> TRUE]
    /\ To(c, "verification", "invalidate")
    /\ UNCHANGED <<google, token, proofs, era>> /\ NoRedis

(* google: an identity signs in; an address that is taken must be linked.  *)
GoogleIdentity(c) ==
    /\ May(c, "google")
    /\ IF google
       THEN user.active /\ To(c, "google", "issue")
       ELSE To(c, "google", "find")
    /\ UNCHANGED rowVars /\ NoRedis

GoogleFindEmail(c) ==
    /\ At(c, "google", "find")
    /\ To(c, "google", IF user = None THEN "create user" ELSE "done")
    /\ UNCHANGED rowVars /\ NoRedis

(* createGoogleUser, one transaction: the row and its identity, or P2002.  *)
GoogleCreate(c) ==
    /\ At(c, "google", "create user")
    /\ IF user = None
       THEN /\ user' = [password |-> None, verified |-> TRUE, active |-> TRUE]
            /\ google' = TRUE
            /\ proofs' = proofs \cup {"google"}
            /\ To(c, "google", "issue")
       ELSE /\ To(c, "google", "retry")
            /\ UNCHANGED <<user, google, proofs>>
    /\ UNCHANGED <<token, era>> /\ NoRedis

GoogleRetry(c) ==
    /\ At(c, "google", "retry")
    /\ To(c, "google", IF google /\ user.active THEN "issue" ELSE "done")
    /\ UNCHANGED rowVars /\ NoRedis

(* linkGoogle: the password proves the account; a unique violation on the  *)
(* identity is success; the mailbox is verified by Google.                 *)
Link(c, p) ==
    /\ May(c, "link")
    /\ user # None /\ user.password = p /\ user.active
    /\ call' = [call EXCEPT ![c].op = "link", ![c].pc = "identity",
                            ![c].verified = user.verified]
    /\ proofs' = proofs \cup {"password"}
    /\ UNCHANGED <<user, google, token, era>> /\ NoRedis

LinkIdentity(c) ==
    /\ At(c, "link", "identity")
    /\ google' = TRUE
    /\ To(c, "link", IF call[c].verified THEN "issue" ELSE "mark")
    /\ UNCHANGED <<user, token, proofs, era>> /\ NoRedis

LinkMark(c) ==
    /\ At(c, "link", "mark")
    /\ user' = [user EXCEPT !.verified = TRUE]
    /\ proofs' = proofs \cup {"google"}
    /\ To(c, "link", "issue")
    /\ UNCHANGED <<google, token, era>> /\ NoRedis

(* issueSession, for whichever request got here.                           *)
OpenSession(c, f) ==
    /\ call[c].pc = "issue"
    /\ IssueFamily(c, f)
    /\ To(c, call[c].op, "session")
    /\ NoRows /\ UNCHANGED stamp

HandOut(c) ==
    /\ call[c].pc = "session"
    /\ IssueIndex(c)
    /\ stamp' = [stamp EXCEPT ![job[c].f] = era]
    /\ Finish(c) /\ NoRows
-----------------------------------------------------------------------------
(* Issue of a mailed token: the unconsumed rows are invalidated, then the  *)
(* new one is created, in a READ COMMITTED transaction.  forgotPassword    *)
(* wants a local password, the resends an unverified address.              *)
Forgot(c) ==
    /\ May(c, "forgot") /\ user # None /\ user.password # None
    /\ To(c, "reset", "invalidate")
    /\ UNCHANGED rowVars /\ NoRedis

Resend(c) ==
    /\ May(c, "resend") /\ user # None /\ ~user.verified
    /\ To(c, "verification", "invalidate")
    /\ UNCHANGED rowVars /\ NoRedis

Invalidate(c) ==
    /\ call[c].pc = "invalidate"
    /\ call' = [call EXCEPT ![c].pc = "create", ![c].seen = liveTokens(call[c].op)]
    /\ UNCHANGED rowVars /\ NoRedis

CreateToken(c, t) ==
    /\ call[c].pc = "create" /\ token[t] = NoToken
    /\ token' = [consumed({u \in call[c].seen : token[u].state = "live"}) EXCEPT ![t] =
                   [kind |-> call[c].op, state |-> "live", era |-> era,
                    past |-> looked(call[c].op)]]
    /\ Finish(c)
    /\ UNCHANGED <<user, google, proofs, era>> /\ NoRedis

ExpireToken(t) ==
    /\ token[t].state = "live"
    /\ token' = [token EXCEPT ![t].state = "expired"]
    /\ UNCHANGED <<user, google, proofs, era, call>> /\ NoRedis

(* verifyEmail: the row is read with its user, consumed by a guarded       *)
(* update, and the user is marked if the read said he was not.             *)
VerifyRead(c, t) ==
    /\ May(c, "verify") /\ token[t].kind = "verification"
    /\ call' = [call EXCEPT ![c].op = "verify", ![c].pc = "consume", ![c].t = t,
                            ![c].verified = user.verified]
    /\ UNCHANGED rowVars /\ NoRedis

VerifyConsume(c) ==
    /\ At(c, "verify", "consume")
    /\ IF token[call[c].t].state = "live"
       THEN /\ token' = consumed({call[c].t})
            /\ To(c, "verify", IF call[c].verified THEN "done" ELSE "mark")
            /\ proofs' = proofs \cup {"token"}
       ELSE /\ Finish(c)
            /\ UNCHANGED <<token, proofs>>
    /\ UNCHANGED <<user, google, era>> /\ NoRedis

VerifyMark(c) ==
    /\ At(c, "verify", "mark")
    /\ user' = [user EXCEPT !.verified = TRUE]
    /\ Finish(c)
    /\ UNCHANGED <<google, token, proofs, era>> /\ NoRedis

(* resetPassword: the token is read and judged, a transaction of three     *)
(* statements writes the password and consumes the tokens of both kinds,   *)
(* then every session is swept.  Each statement sees what is committed     *)
(* when it starts: a link that is issued after it looked stays.  (A reset  *)
(* holds the user's row until it commits, so two do not overlap.  It also  *)
(* waits for a token that an issue has locked and not committed; here it   *)
(* need not, and a token it looked at is consumed if it is live by then.)  *)
ResetRead(c, t, p) ==
    /\ May(c, "resetPassword")
    /\ token[t].kind = "reset" /\ token[t].state = "live"
    /\ user.password \notin {None, p}
    /\ call' = [call EXCEPT ![c].op = "resetPassword", ![c].pc = "resets",
                            ![c].t = t, ![c].pw = p]
    /\ UNCHANGED rowVars /\ NoRedis

(* The user's row is locked, and the reset tokens are looked for.          *)
ResetResets(c) ==
    /\ At(c, "resetPassword", "resets")
    /\ looked("reset") = {}
    /\ call' = [call EXCEPT ![c].pc = "verifications", ![c].seen = liveTokens("reset")]
    /\ UNCHANGED rowVars /\ NoRedis

ResetVerifications(c) ==
    /\ At(c, "resetPassword", "verifications")
    /\ call' = [call EXCEPT ![c].pc = "commit",
                            ![c].seen = @ \cup liveTokens("verification")]
    /\ UNCHANGED rowVars /\ NoRedis

(* Mutant: only the token that was presented is consumed.                  *)
ResetCommitOne(c) ==
    /\ At(c, "resetPassword", "commit") /\ era < MaxEra
    /\ user' = [user EXCEPT !.password = call[c].pw]
    /\ token' = consumed({call[c].t})
    /\ era' = era + 1
    /\ call' = [call EXCEPT ![c].pc = "sweep", ![c].era = era + 1, ![c].seen = {}]
    /\ UNCHANGED <<google, proofs>> /\ NoRedis

ResetCommit(c) ==
    /\ At(c, "resetPassword", "commit") /\ era < MaxEra
    /\ user' = [user EXCEPT !.password = call[c].pw]
    /\ token' = consumed({t \in call[c].seen : token[t].state = "live"})
    /\ era' = era + 1
    /\ call' = [call EXCEPT ![c].pc = "sweep", ![c].era = era + 1, ![c].seen = {}]
    /\ UNCHANGED <<google, proofs>> /\ NoRedis

(* changePassword: the current password is checked on the row read; the    *)
(* mailed tokens and the sessions stay.                                    *)
ChangeRead(c, p, q) ==
    /\ May(c, "changePassword")
    /\ user # None /\ user.active /\ user.verified
    /\ user.password = p /\ q # p
    /\ call' = [call EXCEPT ![c].op = "changePassword", ![c].pc = "write", ![c].pw = q]
    /\ UNCHANGED rowVars /\ NoRedis

ChangeWrite(c) ==
    /\ At(c, "changePassword", "write")
    /\ user' = [user EXCEPT !.password = call[c].pw]
    /\ Finish(c)
    /\ UNCHANGED <<google, token, proofs, era>> /\ NoRedis

(* setActiveStatus: a block is followed by a sweep, an unblock by nothing. *)
Block(c) ==
    /\ May(c, "block") /\ user # None /\ era < MaxEra
    /\ user' = [user EXCEPT !.active = FALSE]
    /\ era' = era + 1
    /\ call' = [call EXCEPT ![c].op = "block", ![c].pc = "sweep", ![c].era = era + 1]
    /\ UNCHANGED <<google, token, proofs>> /\ NoRedis

Unblock ==
    /\ user # None /\ ~user.active
    /\ user' = [user EXCEPT !.active = TRUE]
    /\ UNCHANGED <<google, token, proofs, era, call>> /\ NoRedis

(* Mutant: the request is answered without the sweep.                      *)
AnswerUnswept(c) ==
    /\ call[c].pc = "sweep"
    /\ Finish(c)
    /\ closed' = IF call[c].era > closed THEN call[c].era ELSE closed
    /\ UNCHANGED <<redisVars, rowVars, scene, stamp>>

BeginSweep(c) ==
    /\ call[c].pc = "sweep" /\ SweepRead(c)
    /\ To(c, call[c].op, "swept families") /\ NoRows /\ UNCHANGED stamp

DeleteFamilies(c) ==
    /\ call[c].pc = "swept families" /\ SweepFamilies(c)
    /\ To(c, call[c].op, "swept index") /\ NoRows /\ UNCHANGED stamp

(* The index goes, and the request is answered.                            *)
DropIndex(c) ==
    /\ call[c].pc = "swept index" /\ SweepIndex(c)
    /\ Finish(c)
    /\ closed' = IF call[c].era > closed THEN call[c].era ELSE closed
    /\ UNCHANGED <<rowVars, scene, stamp>>
-----------------------------------------------------------------------------
(* refresh: the secret is rotated first; an account that is gone, blocked  *)
(* or unverified then loses the family, any other gets the new cookie.     *)
Refresh(c, f, n) ==
    /\ May(c, "refresh") /\ Rotate(c, f, n)
    /\ To(c, "refresh", IF family[f] = n THEN "check" ELSE "done")
    /\ NoRows /\ UNCHANGED stamp

RefreshCheck(c) ==
    /\ At(c, "refresh", "check")
    /\ IF user # None /\ user.active /\ user.verified
       THEN Deliver(c) /\ Finish(c)
       ELSE RevokeRead(c, job[c].f) /\ To(c, "refresh", "revoke")
    /\ NoRows /\ UNCHANGED stamp

(* logout of the session whose cookie is presented.                        *)
Logout(c, f) ==
    /\ May(c, "logout") /\ \E n \in Secrets : <<f, n>> \in cookies
    /\ RevokeRead(c, f)
    /\ To(c, "logout", "revoke")
    /\ NoRows /\ UNCHANGED stamp

Revoke(c) ==
    /\ call[c].pc = "revoke" /\ RevokeDelete(c)
    /\ Finish(c) /\ NoRows /\ UNCHANGED stamp

SessionExpires(f) == Expire(f) /\ UNCHANGED <<scene, rowVars, call, stamp, closed>>

(* Redis, the database or the process fails: the request goes no further.  *)
(* (resetPassword answers 200 even so, with its sessions left.)            *)
Die(c) ==
    /\ call[c].pc \notin {"new", "done"}
    /\ \/ Abandon(c)
       \/ job[c].op = "none" /\ UNCHANGED redisVars
    /\ Finish(c) /\ UNCHANGED <<scene, rowVars, stamp, closed>>

Step(c) ==
    \/ GoogleIdentity(c) \/ GoogleFindEmail(c) \/ GoogleCreate(c) \/ GoogleRetry(c)
    \/ LinkIdentity(c) \/ LinkMark(c) \/ HandOut(c)
    \/ Forgot(c) \/ Resend(c) \/ Invalidate(c) \/ VerifyConsume(c) \/ VerifyMark(c)
    \/ ResetResets(c) \/ ResetVerifications(c) \/ ResetCommit(c)
    \/ ChangeWrite(c) \/ Block(c)
    \/ BeginSweep(c) \/ DeleteFamilies(c) \/ DropIndex(c)
    \/ RefreshCheck(c) \/ Revoke(c) \/ Die(c)
    \/ \E p \in Passwords : Login(c, p) \/ Register(c, p) \/ Link(c, p)
    \/ \E p, q \in Passwords : ChangeRead(c, p, q)
    \/ \E f \in Families : OpenSession(c, f) \/ Logout(c, f)
    \/ \E f \in Families, n \in Secrets : Refresh(c, f, n)
    \/ \E t \in Tokens : CreateToken(c, t) \/ VerifyRead(c, t)
    \/ \E t \in Tokens, p \in Passwords : ResetRead(c, t, p)

Next ==
    \/ \E c \in Calls : Step(c)
    \/ Unblock
    \/ \E t \in Tokens : ExpireToken(t)
    \/ \E f \in Families : SessionExpires(f)

Spec == Init /\ [][Next]_vars
-----------------------------------------------------------------------------
(* A password reset leaves no mailed token behind that was there when it   *)
(* looked: what is still live when it has committed was issued later, or   *)
(* by an issue that committed while the reset was at it, however the       *)
(* issues and resets of several tabs interleave                            *)
(* (auth.service.ts:1067-1085, 1171-1179).                                 *)
TokensDieWithReset ==
    \A t \in Tokens :
        token[t].state = "live" => \A c \in Calls :
            call[c].op = "resetPassword" =>
                call[c].era <= token[t].era \/ c \in token[t].past

(* Once a reset or a block is answered, no session handed out before it    *)
(* committed is left, except those raced out of the index by a sweep       *)
(* (see EverySessionIndexed).                                              *)
SessionsDieWithSweep ==
    \A f \in Families : Usable(f) /\ stamp[f] < closed => f \in raced

(* Nobody is verified without a live mailed token or Google vouching for   *)
(* the address, and a Google identity hangs on the account only if Google  *)
(* created it or the account's password was given for it, also when        *)
(* sign-ups race, mails are resent and links are clicked late.             *)
OwnershipProved ==
    /\ user # None /\ user.verified => proofs \cap {"token", "google"} # {}
    /\ google => user # None /\ proofs \cap {"google", "password"} # {}

(* Sessions and mailed tokens, under every race and failure of a command:  *)
(* a secret is good once, what a sweep must find it finds, and what was    *)
(* mailed proves the address and dies with the reset that used it.         *)
SessionsSound == RedeemedOnce /\ EverySessionIndexed /\ SessionsDieWithSweep
MailTokensSound == TokensDieWithReset /\ OwnershipProved
=============================================================================
