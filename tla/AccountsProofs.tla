---------------------------- MODULE AccountsProofs ----------------------------
(***************************************************************************)
(* Accounts for every number of requests, mailed tokens, families and      *)
(* rotations.  The rows come first: what a request that has read its row   *)
(* will write is already owed by the account, and a live token that is     *)
(* older than a reset was issued while the reset was at it.  Then the      *)
(* sessions: what a sweep may have to delete is in the set it read, and    *)
(* what is not was indexed during a sweep.                                 *)
(***************************************************************************)
EXTENDS Accounts, TLAPS

Kinds     == {"reset", "verification"}
TokenRows == [kind : Kinds \cup {"none"}, era : Nat, past : SUBSET Calls,
              state : {"free", "live", "consumed", "expired"}]
Requests  == Kinds \cup {"none", "login", "google", "link", "verify", "resetPassword",
                         "changePassword", "block", "refresh", "logout"}
Places    == {"new", "find", "create user", "retry", "identity", "mark", "issue",
              "session", "invalidate", "create", "consume", "resets",
              "verifications", "commit", "write", "sweep", "swept families", "swept index", "check", "revoke", "done"}
CallRows  == [op : Requests, pc : Places, pw : Passwords \cup {None},
              verified : BOOLEAN, t : Tokens \cup {None},
              seen : SUBSET Tokens, era : Nat]

RowsTyped ==
    /\ user \in UserRows \cup {None} /\ google \in BOOLEAN
    /\ token \in [Tokens -> TokenRows]
    /\ call \in [Calls -> CallRows]
    /\ era \in Nat

(* A request that has got this far has read the row of an account, and     *)
(* what it will write about the address is proved.                         *)
Looking == {"verifications", "commit"}
Reads   == Looking \cup {"identity", "mark", "invalidate", "create", "consume",
                         "resets", "write"}

CallSound(x, row, proved, now) ==
    /\ x.pc = "new" => x.era = 0
    /\ x.era <= now
    /\ x.pc \in Reads => row # None
    /\ x.pc \in {"invalidate", "create"} => x.op \in Kinds
    /\ x.pc = "identity" => "password" \in proved
    /\ x.op = "verify" /\ x.pc = "mark" => "token" \in proved

TokenSound(x, row) ==
    /\ x.kind = "none" <=> x.state = "free"
    /\ x.kind # "none" => row # None

(* A live token that is older than the reset, or that the reset has missed *)
(* when it looked for its kind, was issued while the reset was at it.      *)
Looks(x, kind) == x.pc = "commit" \/ (x.pc = "verifications" /\ kind = "reset")

Outlived(c, x, tokens) ==
    x.op = "resetPassword" =>
        \A t \in Tokens : tokens[t].state = "live" =>
            /\ x.era <= tokens[t].era \/ c \in tokens[t].past
            /\ Looks(x, tokens[t].kind) => t \in x.seen \/ c \in tokens[t].past

Mailed ==
    /\ RowsTyped
    /\ \A c \in Calls : CallSound(call[c], user, proofs, era)
    /\ \A t \in Tokens : TokenSound(token[t], user)
    /\ \A c \in Calls : Outlived(c, call[c], token)
    /\ OwnershipProved
-----------------------------------------------------------------------------
LEMMA Writes ==
    ASSUME RowsTyped, NEW c \in Calls, NEW x \in CallRows,
           call' = [call EXCEPT ![c] = x]
    PROVE  /\ call' \in [Calls -> CallRows] /\ call'[c] = x
           /\ \A d \in Calls \ {c} : call'[d] = call[d]
BY DEF RowsTyped

LEMMA AtPlace ==
    ASSUME NEW y \in CallRows, NEW pc \in Places
    PROVE  [y EXCEPT !.pc = pc] \in CallRows
BY DEF CallRows

LEMMA GoesTo ==
    ASSUME RowsTyped, NEW c \in Calls, NEW op \in Requests, NEW pc \in Places,
           To(c, op, pc)
    PROVE  /\ call' \in [Calls -> CallRows]
           /\ call'[c].op = op /\ call'[c].pc = pc /\ call'[c].era = call[c].era
           /\ \A d \in Calls \ {c} : call'[d] = call[d]
<1> DEFINE x == [call[c] EXCEPT !.op = op, !.pc = pc]
<1>1. call[c] \in CallRows  BY DEF RowsTyped
<1>2. x.op = op /\ x.pc = pc /\ x.era = call[c].era  BY <1>1 DEF CallRows
<1>4. [call[c] EXCEPT !.op = op] \in CallRows  BY <1>1 DEF CallRows
<1>5. x = [[call[c] EXCEPT !.op = op] EXCEPT !.pc = pc]  BY <1>1 DEF CallRows
<1>6. x \in CallRows
  <2> DEFINE y == [call[c] EXCEPT !.op = op]
  <2>1. y \in CallRows  BY <1>4
  <2>2. x = [y EXCEPT !.pc = pc]  BY <1>5
  <2> HIDE DEF y, x
  <2>3. [y EXCEPT !.pc = pc] \in CallRows  BY <2>1, AtPlace
  <2> QED  BY <2>2, <2>3
<1>3. call' = [call EXCEPT ![c] = x]  BY DEF To, RowsTyped
<1> HIDE DEF x
<1> QED  BY <1>2, <1>3, <1>6, Writes

LEMMA Finishes ==
    ASSUME RowsTyped, NEW c \in Calls, Finish(c)
    PROVE  /\ call' \in [Calls -> CallRows]
           /\ call'[c].op = call[c].op /\ call'[c].pc = "done"
           /\ call'[c].era = call[c].era
           /\ \A d \in Calls \ {c} : call'[d] = call[d]
<1> DEFINE x == [call[c] EXCEPT !.pc = "done"]
<1>1. call[c] \in CallRows  BY DEF RowsTyped
<1>2. x.op = call[c].op /\ x.pc = "done" /\ x.era = call[c].era
  BY <1>1 DEF CallRows
<1>4. x \in CallRows
  <2>1. "done" \in Places  BY DEF Places
  <2> QED  BY <1>1, <2>1, AtPlace, Zenon
<1>3. call' = [call EXCEPT ![c] = x]  BY DEF Finish, RowsTyped
<1> HIDE DEF x
<1> QED  BY <1>2, <1>3, <1>4, Writes

LEMMA Consumed ==
    ASSUME RowsTyped, NEW ts \in SUBSET Tokens, NEW t \in Tokens
    PROVE  /\ consumed(ts) \in [Tokens -> TokenRows]
           /\ t \in ts => consumed(ts)[t] = [token[t] EXCEPT !.state = "consumed"]
           /\ t \notin ts => consumed(ts)[t] = token[t]
<1>1. \A u \in Tokens : [token[u] EXCEPT !.state = "consumed"] \in TokenRows
  BY DEF RowsTyped, TokenRows
<1>2. \A u \in Tokens : token[u] \in TokenRows  BY DEF RowsTyped
<1> QED  BY <1>1, <1>2 DEF consumed

(* What a step owes to keep the rows sound.                                *)
LEMMA RowsKept ==
    ASSUME Mailed,
           user' \in UserRows \cup {None}, user # None => user' # None,
           google' \in BOOLEAN, proofs \subseteq proofs',
           era' \in Nat, era <= era',
           token' \in [Tokens -> TokenRows], call' \in [Calls -> CallRows],
           OwnershipProved',
           \A t \in Tokens : \/ token'[t] = token[t]
                             \/ TokenSound(token'[t], user'),
           \A t \in Tokens : token'[t].state = "live" =>
               \/ token'[t] = token[t]
               \/ /\ token'[t].era = era'
                  /\ token'[t].past = looked(token'[t].kind),
           \A d \in Calls : \/ call'[d] = call[d]
                            \/ /\ CallSound(call'[d], user', proofs', era')
                               /\ Outlived(d, call'[d], token')
    PROVE  Mailed'
<1>1. RowsTyped'  BY DEF RowsTyped
<1>2. \A t \in Tokens : TokenSound(token'[t], user')
  BY DEF Mailed, TokenSound
<1>3. \A d \in Calls : call[d] \in CallRows /\ call[d].era \in Nat
  BY DEF Mailed, RowsTyped, CallRows
<1>4. \A d \in Calls : CallSound(call'[d], user', proofs', era')
  BY <1>3 DEF Mailed, RowsTyped, CallSound
<1>5. ASSUME NEW d \in Calls PROVE Outlived(d, call'[d], token')
  <2>1. CASE call'[d] = call[d] /\ call[d].op = "resetPassword"
    <3>1. SUFFICES ASSUME NEW t \in Tokens, token'[t].state = "live"
                   PROVE  /\ call[d].era <= token'[t].era \/ d \in token'[t].past
                          /\ Looks(call[d], token'[t].kind) =>
                                 t \in call[d].seen \/ d \in token'[t].past
      BY <2>1 DEF Outlived
    <3>2. CASE token'[t] = token[t]
      BY <3>1, <3>2, <2>1 DEF Mailed, Outlived
    <3>3. CASE token'[t].era = era' /\ token'[t].past = looked(token'[t].kind)
      <4>1. call[d].era <= era'  BY <1>4, <2>1 DEF CallSound
      <4>2. Looks(call[d], token'[t].kind) => d \in looked(token'[t].kind)
        BY <2>1 DEF Looks, looked
      <4> QED  BY <3>3, <4>1, <4>2
    <3> QED  BY <3>1, <3>2, <3>3
  <2>2. CASE call'[d] = call[d] /\ call[d].op # "resetPassword"
    BY <2>2 DEF Outlived
  <2> QED  BY <2>1, <2>2
<1> QED  BY <1>1, <1>2, <1>4, <1>5 DEF Mailed

LEMMA Young ==
    ASSUME Mailed, NEW c \in Calls, NEW x, x.era = call[c].era, x.pc \notin Looking,
           \/ call[c].pc = "new"
           \/ call[c].op = "resetPassword"
    PROVE  Outlived(c, x, token)
<1>1. \A t \in Tokens : token[t].era \in Nat
  BY DEF Mailed, RowsTyped, TokenRows
<1>2. call[c].pc = "new" => call[c].era = 0  BY DEF Mailed, CallSound
<1>3. \A t \in Tokens : token[t].state = "live" =>
          x.era <= token[t].era \/ c \in token[t].past
  BY <1>1, <1>2 DEF Outlived, Mailed
<1> QED  BY <1>3 DEF Outlived, Looks, Looking

(* A step that writes no row.                                              *)
LEMMA NoRowKept ==
    ASSUME Mailed, UNCHANGED rowVars, NEW c \in Calls,
           call' \in [Calls -> CallRows],
           \A d \in Calls \ {c} : call'[d] = call[d],
           CallSound(call'[c], user, proofs, era),
           call'[c].era = call[c].era, call'[c].pc \notin Looking,
           call'[c].op = "resetPassword" =>
               call[c].op = "resetPassword" \/ call[c].pc = "new"
    PROVE  Mailed'
<1>1. Outlived(c, call'[c], token)
  <2>1. CASE call[c].pc = "new"  BY <2>1, Young DEF Outlived
  <2>2. CASE call[c].op = "resetPassword"  BY <2>2, Young DEF Outlived
  <2> QED  BY <2>1, <2>2 DEF Outlived
<1>2. OwnershipProved'
  BY DEF rowVars, OwnershipProved, Mailed
<1>3. era \in Nat /\ era <= era /\ user \in UserRows \cup {None} /\ google \in BOOLEAN
      /\ token \in [Tokens -> TokenRows]
  BY DEF Mailed, RowsTyped
<1>4. UNCHANGED <<user, google, token, proofs, era>>  BY DEF rowVars
<1>5. \A t \in Tokens : token'[t] = token[t]  BY <1>4
<1>6. \A d \in Calls : \/ call'[d] = call[d]
                       \/ /\ CallSound(call'[d], user', proofs', era')
                          /\ Outlived(d, call'[d], token')
  BY <1>1, <1>4
<1> QED  BY <1>2, <1>3, <1>4, <1>5, <1>6, RowsKept

LEMMA StepsWritingNoRow ==
    ASSUME Mailed, NEW c \in Calls,
           \/ GoogleIdentity(c) \/ GoogleFindEmail(c) \/ GoogleRetry(c)
           \/ HandOut(c) \/ Forgot(c) \/ Resend(c)
           \/ BeginSweep(c) \/ DeleteFamilies(c) \/ DropIndex(c)
           \/ RefreshCheck(c) \/ Revoke(c) \/ Die(c)
           \/ \E p \in Passwords : Login(c, p)
           \/ \E f \in Families : OpenSession(c, f) \/ Logout(c, f)
           \/ \E f \in Families, n \in Secrets : Refresh(c, f, n)
    PROVE  Mailed'
<1> USE DEF Places, Requests, Kinds
<1>1. RowsTyped /\ CallSound(call[c], user, proofs, era) /\ call[c] \in CallRows
  BY DEF Mailed, RowsTyped
<1>2. UNCHANGED rowVars
  BY DEF GoogleIdentity, GoogleFindEmail, GoogleRetry, HandOut, Forgot, Resend,
         BeginSweep, DeleteFamilies, DropIndex, RefreshCheck, Revoke, Die, Login,
         OpenSession, Logout, Refresh, NoRows
<1>3. ASSUME Finish(c) PROVE Mailed'
  <2>1. CallSound(call'[c], user, proofs, era)
    BY <1>1, <1>3, Finishes DEF CallSound, Reads, Looking
  <2>2. call'[c].pc \notin Looking  BY <1>1, <1>3, Finishes DEF Looking
  <2> QED  BY <1>1, <1>2, <1>3, <2>1, <2>2, Finishes, NoRowKept
<1>4. ASSUME NEW op \in Requests, NEW pc \in Places, To(c, op, pc),
             pc \notin Reads \cup {"new"} \/ (op \in Kinds /\ pc = "invalidate" /\ user # None),
             op = "resetPassword" => call[c].op = op
      PROVE  Mailed'
  <2>1. CallSound(call'[c], user, proofs, era)
    BY <1>1, <1>4, GoesTo, ZenonT(60) DEF CallSound, Reads, Looking
  <2> HIDE DEF Places, Requests, Kinds
  <2>2. /\ call' \in [Calls -> CallRows]
        /\ \A d \in Calls \ {c} : call'[d] = call[d]
        /\ call'[c].op = op /\ call'[c].era = call[c].era
    BY <1>1, <1>4, GoesTo
  <2>3. call'[c].op = "resetPassword" => call[c].op = "resetPassword"
    BY <1>4, <2>2
  <2>4. call'[c].pc \notin Looking
    <3>1. call'[c].pc = pc  BY <1>1, <1>4, GoesTo
    <3> QED  BY <3>1, <1>4 DEF Reads, Looking
  <2> QED  BY <1>2, <2>1, <2>2, <2>3, <2>4, NoRowKept
<1> DEFINE Out == {"issue", "find", "create user", "done", "session", "swept families",
                   "swept index", "check", "revoke"}
           Ours == {"login", "google", "refresh", "logout", call[c].op}
<1>5. ASSUME NEW op \in Ours, NEW pc \in Out, To(c, op, pc) PROVE Mailed'
  <2>1. call[c].op \in Requests  BY <1>1 DEF CallRows
  <2>2. op \in Requests /\ pc \in Places /\ pc \notin Reads \cup {"new"}
        /\ (op = "resetPassword" => call[c].op = op)
    BY <2>1 DEF Reads, Looking
  <2> QED  BY <1>4, <1>5, <2>2
<1> HIDE DEF Places, Requests, Kinds
<1>6. CASE \/ GoogleIdentity(c) \/ GoogleFindEmail(c) \/ GoogleRetry(c)
  BY <1>5, <1>6 DEF GoogleIdentity, GoogleFindEmail, GoogleRetry
<1>7. CASE Forgot(c) \/ Resend(c)
  BY <1>4, <1>7 DEF Forgot, Resend, Places, Requests, Kinds
<1>8. CASE HandOut(c) \/ DropIndex(c) \/ Revoke(c) \/ Die(c)
  BY <1>3, <1>8 DEF HandOut, DropIndex, Revoke, Die
<1>9. CASE BeginSweep(c) \/ DeleteFamilies(c) \/ \E p \in Passwords : Login(c, p)
  BY <1>5, <1>9 DEF BeginSweep, DeleteFamilies, Login
<1>10. CASE RefreshCheck(c)
  BY <1>3, <1>5, <1>10 DEF RefreshCheck
<1>11. CASE \E f \in Families : OpenSession(c, f) \/ Logout(c, f)
  BY <1>5, <1>11 DEF OpenSession, Logout
<1>12. CASE \E f \in Families, n \in Secrets : Refresh(c, f, n)
  BY <1>5, <1>12 DEF Refresh
<1> QED  BY <1>6, <1>7, <1>8, <1>9, <1>10, <1>11, <1>12

(* The steps that take what they read along.                               *)
LEMMA TakesPassword ==
    ASSUME NEW y \in CallRows, NEW op \in Requests, NEW pc \in Places,
           NEW pw \in Passwords \cup {None}
    PROVE  [y EXCEPT !.op = op, !.pc = pc, !.pw = pw] \in CallRows
BY DEF CallRows

LEMMA TakesReset ==
    ASSUME NEW y \in CallRows, NEW op \in Requests, NEW pc \in Places,
           NEW t \in Tokens \cup {None}, NEW pw \in Passwords \cup {None}
    PROVE  [y EXCEPT !.op = op, !.pc = pc, !.t = t, !.pw = pw] \in CallRows
BY DEF CallRows

LEMMA TakesToken ==
    ASSUME NEW y \in CallRows, NEW op \in Requests, NEW pc \in Places,
           NEW t \in Tokens \cup {None}, NEW v \in BOOLEAN
    PROVE  [y EXCEPT !.op = op, !.pc = pc, !.t = t, !.verified = v] \in CallRows
BY DEF CallRows

LEMMA TakesVerified ==
    ASSUME NEW y \in CallRows, NEW op \in Requests, NEW pc \in Places,
           NEW v \in BOOLEAN
    PROVE  [y EXCEPT !.op = op, !.pc = pc, !.verified = v] \in CallRows
BY DEF CallRows

LEMMA TakesSeen ==
    ASSUME NEW y \in CallRows, NEW pc \in Places, NEW ts \in SUBSET Tokens
    PROVE  [y EXCEPT !.pc = pc, !.seen = ts] \in CallRows
BY DEF CallRows

LEMMA TakesEra ==
    ASSUME NEW y \in CallRows, NEW pc \in Places, NEW e \in Nat
    PROVE  [y EXCEPT !.pc = pc, !.era = e] \in CallRows
BY DEF CallRows

LEMMA TakesOpEra ==
    ASSUME NEW y \in CallRows, NEW op \in Requests, NEW pc \in Places, NEW e \in Nat
    PROVE  [y EXCEPT !.op = op, !.pc = pc, !.era = e] \in CallRows
BY DEF CallRows

LEMMA TakingRow ==
    ASSUME Mailed, NEW c \in Calls,
           \/ \E p, q \in Passwords : ChangeRead(c, p, q)
           \/ \E t \in Tokens : VerifyRead(c, t)
           \/ \E t \in Tokens, p \in Passwords : ResetRead(c, t, p)
           \/ Invalidate(c)
    PROVE  Mailed'
<1>1. RowsTyped /\ CallSound(call[c], user, proofs, era) /\ call[c] \in CallRows
      /\ \A t \in Tokens : TokenSound(token[t], user)
  BY DEF Mailed, RowsTyped
<1>2. UNCHANGED rowVars
  BY DEF ChangeRead, VerifyRead, ResetRead, Invalidate
<1>3. user = None \/ user.verified \in BOOLEAN
  BY <1>1 DEF RowsTyped, UserRows
<1>4. ASSUME NEW x \in CallRows, call' = [call EXCEPT ![c] = x],
             x.era = call[c].era, CallSound(x, user, proofs, era), x.pc \notin Looking,
             x.op = "resetPassword" => call[c].pc = "new"
      PROVE  Mailed'
  <2>1. /\ call' \in [Calls -> CallRows] /\ call'[c] = x
        /\ \A d \in Calls \ {c} : call'[d] = call[d]
    BY <1>1, <1>4, Writes
  <2> QED  BY <1>2, <1>4, <2>1, NoRowKept
<1>5. CASE \E p, q \in Passwords : ChangeRead(c, p, q)
  <2>1. PICK p \in Passwords, q \in Passwords : ChangeRead(c, p, q)  BY <1>5
  <2> DEFINE x == [call[c] EXCEPT !.op = "changePassword", !.pc = "write", !.pw = q]
  <2>2. x \in CallRows
    <3>1. "changePassword" \in Requests /\ "write" \in Places
      BY DEF Requests, Places
    <3> QED  BY <1>1, <2>1, <3>1, TakesPassword
  <2>3. x.era = call[c].era /\ x.op = "changePassword" /\ x.pc = "write"
    BY <1>1 DEF CallRows
  <2>4. call' = [call EXCEPT ![c] = x] /\ user # None
    BY <2>1, <1>1 DEF ChangeRead, RowsTyped
  <2> HIDE DEF x
  <2>5. CallSound(x, user, proofs, era)
    BY <1>1, <2>3, <2>4 DEF CallSound
  <2>9. x.pc \notin Looking  BY <2>3 DEF Looking
  <2> QED  BY <1>4, <2>2, <2>3, <2>4, <2>5, <2>9
<1>6. CASE \E t \in Tokens : VerifyRead(c, t)
  <2>1. PICK t \in Tokens : VerifyRead(c, t)  BY <1>6
  <2>6. user # None  BY <2>1, <1>1 DEF VerifyRead, TokenSound
  <2> DEFINE x == [call[c] EXCEPT !.op = "verify", !.pc = "consume", !.t = t,
                                  !.verified = user.verified]
  <2>2. x \in CallRows
    <3>1. "verify" \in Requests /\ "consume" \in Places /\ user.verified \in BOOLEAN
      BY <1>3, <2>6 DEF Requests, Places
    <3> QED  BY <1>1, <2>1, <3>1, TakesToken
  <2>3. x.era = call[c].era /\ x.op = "verify" /\ x.pc = "consume"
    BY <1>1 DEF CallRows
  <2>4. call' = [call EXCEPT ![c] = x]
    BY <2>1, <1>1 DEF VerifyRead, RowsTyped
  <2> HIDE DEF x
  <2>5. CallSound(x, user, proofs, era)
    BY <1>1, <2>3, <2>6 DEF CallSound
  <2>9. x.pc \notin Looking  BY <2>3 DEF Looking
  <2> QED  BY <1>4, <2>2, <2>3, <2>4, <2>5, <2>9
<1>7. CASE \E t \in Tokens, p \in Passwords : ResetRead(c, t, p)
  <2>1. PICK t \in Tokens, p \in Passwords : ResetRead(c, t, p)  BY <1>7
  <2>6. user # None  BY <2>1, <1>1 DEF ResetRead, TokenSound
  <2> DEFINE x == [call[c] EXCEPT !.op = "resetPassword", !.pc = "resets", !.t = t,
                                  !.pw = p]
  <2>2. x \in CallRows
    <3>1. "resetPassword" \in Requests /\ "resets" \in Places
      BY DEF Requests, Places
    <3> QED  BY <1>1, <2>1, <3>1, TakesReset
  <2>3. x.era = call[c].era /\ x.op = "resetPassword" /\ x.pc = "resets"
    BY <1>1 DEF CallRows
  <2>4. call' = [call EXCEPT ![c] = x] /\ call[c].pc = "new"
    BY <2>1, <1>1 DEF ResetRead, RowsTyped, May
  <2> HIDE DEF x
  <2>5. CallSound(x, user, proofs, era)
    BY <1>1, <2>3, <2>6 DEF CallSound
  <2>9. x.pc \notin Looking  BY <2>3 DEF Looking
  <2> QED  BY <1>4, <2>2, <2>3, <2>4, <2>5, <2>9
<1>8. CASE Invalidate(c)
  <2> DEFINE x == [call[c] EXCEPT !.pc = "create", !.seen = liveTokens(call[c].op)]
  <2>1. liveTokens(call[c].op) \in SUBSET Tokens  BY DEF liveTokens
  <2>2. x \in CallRows
    <3>1. "create" \in Places  BY DEF Places
    <3> QED  BY <1>1, <2>1, <3>1, TakesSeen
  <2>3. x.era = call[c].era /\ x.op = call[c].op /\ x.pc = "create"
    BY <1>1 DEF CallRows
  <2>4. call' = [call EXCEPT ![c] = x] /\ call[c].pc = "invalidate"
    BY <1>8, <1>1 DEF Invalidate, RowsTyped
  <2> HIDE DEF x
  <2>5. CallSound(x, user, proofs, era) /\ x.op \in Kinds
    BY <1>1, <2>3, <2>4 DEF CallSound, Reads, Looking
  <2>6. x.op # "resetPassword"  BY <2>5 DEF Kinds
  <2>9. x.pc \notin Looking  BY <2>3 DEF Looking
  <2> QED  BY <1>4, <2>2, <2>3, <2>4, <2>5, <2>6, <2>9
<1> QED  BY <1>5, <1>6, <1>7, <1>8

(* A reset looks for the tokens of a kind: from then on, those it has not  *)
(* seen are the ones issued since.                                         *)
LEMMA ResetLooks ==
    ASSUME Mailed, NEW c \in Calls, ResetResets(c) \/ ResetVerifications(c)
    PROVE  Mailed'
<1>1. /\ RowsTyped /\ CallSound(call[c], user, proofs, era) /\ call[c] \in CallRows
      /\ \A t \in Tokens : TokenSound(token[t], user) /\ token[t] \in TokenRows
      /\ OwnershipProved /\ era \in Nat /\ era <= era /\ google \in BOOLEAN
      /\ user \in UserRows \cup {None} /\ token \in [Tokens -> TokenRows]
      /\ Outlived(c, call[c], token)
  BY DEF Mailed, RowsTyped
<1>2. UNCHANGED <<user, google, token, proofs, era>>
  BY DEF ResetResets, ResetVerifications, rowVars
<1>3. OwnershipProved'  BY <1>1, <1>2 DEF OwnershipProved
<1>4. ASSUME NEW pc \in Looking, NEW ts \in SUBSET Tokens, call[c].op = "resetPassword",
             call[c].pc \in Reads,
             NEW x, x = [call[c] EXCEPT !.pc = pc, !.seen = ts],
             call' = [call EXCEPT ![c] = x],
             \A t \in Tokens :
                 token[t].state = "live" /\ (pc = "commit" \/ token[t].kind = "reset") =>
                     t \in ts \/ c \in token[t].past
      PROVE  Mailed'
  <2>1. x \in CallRows
    <3>1. pc \in Places  BY DEF Looking, Places
    <3>2. [call[c] EXCEPT !.pc = pc, !.seen = ts] \in CallRows  BY <1>1, <3>1, TakesSeen
    <3> QED  BY <3>2, <1>4
  <2>2. x.op = call[c].op /\ x.pc = pc /\ x.seen = ts /\ x.era = call[c].era
    BY <1>1, <1>4 DEF CallRows
  <2>3. call' = [call EXCEPT ![c] = x]  BY <1>4
  <2>4. CallSound(x, user', proofs', era')
    BY <1>1, <1>2, <1>4, <2>2 DEF CallSound, Reads, Looking, Kinds
  <2>5. Outlived(c, x, token')
    BY <1>1, <1>2, <1>4, <2>2 DEF Outlived, Looks
  <2>6. /\ call' \in [Calls -> CallRows] /\ call'[c] = x
        /\ \A d \in Calls \ {c} : call'[d] = call[d]
    BY <1>1, <2>1, <2>3, Writes
  <2>7. \A d \in Calls : \/ call'[d] = call[d]
                         \/ /\ CallSound(call'[d], user', proofs', era')
                            /\ Outlived(d, call'[d], token')
    BY <2>4, <2>5, <2>6
  <2>8. \A t \in Tokens : token'[t] = token[t]  BY <1>2
  <2> QED  BY <1>1, <1>2, <1>3, <2>6, <2>7, <2>8, RowsKept
<1>5. CASE ResetResets(c)
  <2> DEFINE ts == liveTokens("reset")
             x  == [call[c] EXCEPT !.pc = "verifications", !.seen = ts]
  <2>1. /\ call[c].op = "resetPassword" /\ call[c].pc = "resets"
        /\ call' = [call EXCEPT ![c] = x]
    BY <1>1, <1>5 DEF ResetResets, At, RowsTyped
  <2>2. ts \in SUBSET Tokens
        /\ \A t \in Tokens : token[t].state = "live" /\ token[t].kind = "reset" => t \in ts
    BY DEF liveTokens
  <2> DEFINE pc == "verifications"
  <2>3. x = [call[c] EXCEPT !.pc = pc, !.seen = ts]  OBVIOUS
  <2>4. pc \in Looking /\ call[c].pc \in Reads /\ pc # "commit"
    BY <2>1 DEF Looking, Reads
  <2> HIDE DEF ts, x, pc
  <2>5. ASSUME NEW t \in Tokens, token[t].state = "live",
               pc = "commit" \/ token[t].kind = "reset"
        PROVE  t \in ts \/ c \in token[t].past
    BY <2>2, <2>4, <2>5
  <2> QED  BY <1>4, <2>1, <2>2, <2>3, <2>4, <2>5
<1>6. CASE ResetVerifications(c)
  <2> DEFINE ts == call[c].seen \cup liveTokens("verification")
             x  == [call[c] EXCEPT !.pc = "commit", !.seen = ts]
  <2>1. /\ call[c].op = "resetPassword" /\ call[c].pc = "verifications"
        /\ call' = [call EXCEPT ![c] = x]
    BY <1>1, <1>6 DEF ResetVerifications, At, RowsTyped
  <2>2. ts \in SUBSET Tokens
        /\ \A t \in Tokens :
               /\ token[t].state = "live"
               /\ token[t].kind = "verification" \/ t \in call[c].seen
               => t \in ts
    BY <1>1 DEF liveTokens, CallRows
  <2>5. x = [call[c] EXCEPT !.pc = "commit", !.seen = ts]  OBVIOUS
  <2> HIDE DEF ts, x
  <2>3. ASSUME NEW t \in Tokens, token[t].state = "live"
        PROVE  t \in ts \/ c \in token[t].past
    <3>1. token[t].kind \in Kinds  BY <1>1, <2>3 DEF TokenSound, TokenRows
    <3>2. CASE token[t].kind = "verification"  BY <2>2, <2>3, <3>2
    <3>3. CASE token[t].kind = "reset"
      BY <1>1, <2>1, <2>2, <2>3, <3>3 DEF Outlived, Looks
    <3> QED  BY <3>1, <3>2, <3>3 DEF Kinds
  <2>4. "commit" \in Looking /\ call[c].pc \in Reads  BY <2>1 DEF Looking, Reads
  <2> QED  BY <1>4, <2>1, <2>2, <2>3, <2>4, <2>5
<1> QED  BY <1>5, <1>6

LEMMA RowWritten ==
    ASSUME NEW u \in UserRows, NEW pw \in Passwords \cup {None}, NEW b \in BOOLEAN
    PROVE  /\ [u EXCEPT !.password = pw] \in UserRows
           /\ [u EXCEPT !.password = pw].verified = u.verified
           /\ [u EXCEPT !.active = b] \in UserRows
           /\ [u EXCEPT !.active = b].verified = u.verified
           /\ [u EXCEPT !.verified = TRUE] \in UserRows
           /\ u # None
BY AccountsAssumption DEF UserRows

(* The steps that write the account's row or its Google identity.          *)
LEMMA AccountWritten ==
    ASSUME Mailed, NEW c \in Calls,
           \/ GoogleCreate(c) \/ LinkIdentity(c) \/ LinkMark(c) \/ VerifyMark(c)
           \/ ChangeWrite(c)
           \/ \E p \in Passwords : Register(c, p) \/ Link(c, p)
    PROVE  Mailed'
<1>1. /\ RowsTyped /\ CallSound(call[c], user, proofs, era) /\ call[c] \in CallRows
      /\ OwnershipProved /\ era \in Nat /\ token \in [Tokens -> TokenRows]
  BY DEF Mailed, RowsTyped
<1>2. user # None => user \in UserRows  BY <1>1 DEF RowsTyped
<1>3. UNCHANGED <<token, era>>
  BY DEF GoogleCreate, LinkIdentity, LinkMark, VerifyMark, ChangeWrite, Register, Link
<1>4. ASSUME user' \in UserRows \cup {None}, user # None => user' # None,
             google' \in BOOLEAN, proofs \subseteq proofs', OwnershipProved',
             call' \in [Calls -> CallRows],
             \A d \in Calls \ {c} : call'[d] = call[d],
             CallSound(call'[c], user', proofs', era),
             call'[c].op # "resetPassword"
      PROVE  Mailed'
  <2>1. \A d \in Calls : \/ call'[d] = call[d]
                         \/ /\ CallSound(call'[d], user', proofs', era')
                            /\ Outlived(d, call'[d], token')
    BY <1>3, <1>4 DEF Outlived
  <2>2. era' \in Nat /\ era <= era' /\ token' \in [Tokens -> TokenRows]
        /\ (\A t \in Tokens : token'[t] = token[t])
    BY <1>1, <1>3
  <2> QED  BY <1>4, <2>1, <2>2, RowsKept
<1>5. CASE GoogleCreate(c)
  <2>1. CASE user = None
    <3>1. /\ user' = [password |-> None, verified |-> TRUE, active |-> TRUE]
          /\ google' = TRUE /\ proofs' = proofs \cup {"google"}
          /\ To(c, "google", "issue")
      BY <1>5, <2>1 DEF GoogleCreate
    <3>2. user' \in UserRows  BY <3>1 DEF UserRows
    <3>3. user' # None  BY <3>2, AccountsAssumption
    <3>4. "google" \in Requests /\ "issue" \in Places  BY DEF Requests, Places
    <3>5. CallSound(call'[c], user', proofs', era) /\ call'[c].op # "resetPassword"
      BY <1>1, <3>1, <3>4, GoesTo DEF CallSound, Reads, Looking
    <3>6. OwnershipProved'  BY <3>1, <3>3 DEF OwnershipProved
    <3> QED  BY <1>1, <1>4, <3>1, <3>2, <3>3, <3>4, <3>5, <3>6, GoesTo
  <2>2. CASE user # None
    <3>1. UNCHANGED <<user, google, proofs>> /\ To(c, "google", "retry")
      BY <1>5, <2>2 DEF GoogleCreate
    <3>2. "google" \in Requests /\ "retry" \in Places  BY DEF Requests, Places
    <3>3. CallSound(call'[c], user', proofs', era) /\ call'[c].op # "resetPassword"
      BY <1>1, <3>1, <3>2, GoesTo DEF CallSound, Reads, Looking
    <3>4. OwnershipProved'  BY <1>1, <3>1 DEF OwnershipProved
    <3> QED  BY <1>1, <1>4, <3>1, <3>2, <3>3, <3>4, GoesTo DEF RowsTyped
  <2> QED  BY <2>1, <2>2
<1>6. CASE LinkIdentity(c)
  <2>1. /\ google' = TRUE /\ UNCHANGED <<user, proofs>>
        /\ call[c].pc = "identity"
        /\ To(c, "link", "issue") \/ To(c, "link", "mark")
    BY <1>6 DEF LinkIdentity, At
  <2>2. "link" \in Requests /\ "issue" \in Places /\ "mark" \in Places
    BY DEF Requests, Places
  <2>3. user # None /\ "password" \in proofs  BY <1>1, <2>1 DEF CallSound, Reads, Looking
  <2>4. CallSound(call'[c], user', proofs', era) /\ call'[c].op # "resetPassword"
    BY <1>1, <2>1, <2>2, <2>3, GoesTo DEF CallSound, Reads, Looking
  <2>5. OwnershipProved'  BY <1>1, <2>1, <2>3 DEF OwnershipProved
  <2> QED  BY <1>1, <1>4, <2>1, <2>2, <2>4, <2>5, GoesTo DEF RowsTyped
<1>7. CASE LinkMark(c)
  <2>1. /\ user' = [user EXCEPT !.verified = TRUE] /\ UNCHANGED google
        /\ proofs' = proofs \cup {"google"} /\ call[c].pc = "mark"
        /\ To(c, "link", "issue")
    BY <1>7 DEF LinkMark, At
  <2>2. "link" \in Requests /\ "issue" \in Places  BY DEF Requests, Places
  <2>3. user # None  BY <1>1, <2>1 DEF CallSound, Reads, Looking
  <2>4. user' \in UserRows /\ user' # None  BY <1>2, <2>1, <2>3, RowWritten
  <2>5. CallSound(call'[c], user', proofs', era) /\ call'[c].op # "resetPassword"
    BY <1>1, <2>1, <2>2, <2>4, GoesTo DEF CallSound, Reads, Looking
  <2>6. OwnershipProved'  BY <1>1, <2>1, <2>4 DEF OwnershipProved
  <2> QED  BY <1>1, <1>4, <2>1, <2>2, <2>4, <2>5, <2>6, GoesTo DEF RowsTyped
<1>8. CASE VerifyMark(c)
  <2>1. /\ user' = [user EXCEPT !.verified = TRUE] /\ UNCHANGED <<google, proofs>>
        /\ call[c].pc = "mark" /\ call[c].op = "verify" /\ Finish(c)
    BY <1>8 DEF VerifyMark, At
  <2>3. user # None /\ "token" \in proofs  BY <1>1, <2>1 DEF CallSound, Reads, Looking
  <2>4. user' \in UserRows /\ user' # None  BY <1>2, <2>1, <2>3, RowWritten
  <2>5. CallSound(call'[c], user', proofs', era) /\ call'[c].op # "resetPassword"
    BY <1>1, <2>1, <2>4, Finishes DEF CallSound, Reads, Looking
  <2>6. OwnershipProved'  BY <1>1, <2>1, <2>3, <2>4 DEF OwnershipProved
  <2> QED  BY <1>1, <1>4, <2>1, <2>4, <2>5, <2>6, Finishes DEF RowsTyped
<1>9. CASE ChangeWrite(c)
  <2>1. /\ user' = [user EXCEPT !.password = call[c].pw]
        /\ UNCHANGED <<google, proofs>>
        /\ call[c].pc = "write" /\ call[c].op = "changePassword" /\ Finish(c)
    BY <1>9 DEF ChangeWrite, At
  <2>3. user # None /\ call[c].pw \in Passwords \cup {None}
    BY <1>1, <2>1 DEF CallSound, Reads, Looking, CallRows
  <2>4. user' \in UserRows /\ user' # None /\ user'.verified = user.verified
    BY <1>2, <2>1, <2>3, RowWritten
  <2>5. CallSound(call'[c], user', proofs', era) /\ call'[c].op # "resetPassword"
    BY <1>1, <2>1, <2>4, Finishes DEF CallSound, Reads, Looking
  <2>6. OwnershipProved'  BY <1>1, <2>1, <2>3, <2>4 DEF OwnershipProved
  <2> QED  BY <1>1, <1>4, <2>1, <2>4, <2>5, <2>6, Finishes DEF RowsTyped
<1>10. CASE \E p \in Passwords : Register(c, p)
  <2>1. PICK p \in Passwords :
           /\ user = None /\ UNCHANGED <<google, proofs>>
           /\ user' = [password |-> p, verified |-> FALSE, active |-> TRUE]
           /\ To(c, "verification", "invalidate")
    BY <1>10 DEF Register
  <2>2. "verification" \in Requests /\ "invalidate" \in Places
    BY DEF Requests, Places, Kinds
  <2>3. user' \in UserRows /\ user'.verified = FALSE  BY <2>1 DEF UserRows
  <2>4. user' # None  BY <2>3, AccountsAssumption
  <2>5. CallSound(call'[c], user', proofs', era) /\ call'[c].op # "resetPassword"
    BY <1>1, <2>1, <2>2, <2>4, GoesTo DEF CallSound, Reads, Looking, Kinds
  <2>6. OwnershipProved'  BY <1>1, <2>1, <2>3 DEF OwnershipProved
  <2> QED  BY <1>1, <1>4, <2>1, <2>2, <2>3, <2>4, <2>5, <2>6, GoesTo DEF RowsTyped
<1>11. CASE \E p \in Passwords : Link(c, p)
  <2> DEFINE x == [call[c] EXCEPT !.op = "link", !.pc = "identity",
                                  !.verified = user.verified]
  <2>1. /\ UNCHANGED <<user, google>> /\ user # None
        /\ proofs' = proofs \cup {"password"}
        /\ call' = [call EXCEPT ![c] = x]
    BY <1>11, <1>1 DEF Link, RowsTyped
  <2>2. user.verified \in BOOLEAN  BY <1>2, <2>1 DEF UserRows
  <2>3. "link" \in Requests /\ "identity" \in Places  BY DEF Requests, Places
  <2>4. x \in CallRows  BY <1>1, <2>2, <2>3, TakesVerified
  <2>5. x.op = "link" /\ x.pc = "identity" /\ x.era = call[c].era
    BY <1>1 DEF CallRows
  <2> HIDE DEF x
  <2>6. CallSound(x, user', proofs', era)
    BY <1>1, <2>1, <2>5 DEF CallSound, Reads, Looking
  <2>7. /\ call' \in [Calls -> CallRows] /\ call'[c] = x
        /\ \A d \in Calls \ {c} : call'[d] = call[d]
    BY <1>1, <2>1, <2>4, Writes
  <2>8. OwnershipProved'  BY <1>1, <2>1 DEF OwnershipProved
  <2> QED  BY <1>1, <1>4, <2>1, <2>5, <2>6, <2>7, <2>8 DEF RowsTyped
<1> QED  BY <1>5, <1>6, <1>7, <1>8, <1>9, <1>10, <1>11

(* The steps that write mailed tokens.                                     *)
LEMMA TokensWritten ==
    ASSUME Mailed, NEW c \in Calls,
           VerifyConsume(c) \/ \E t \in Tokens : CreateToken(c, t)
    PROVE  Mailed'
<1>1. /\ RowsTyped /\ CallSound(call[c], user, proofs, era) /\ call[c] \in CallRows
      /\ \A t \in Tokens : TokenSound(token[t], user) /\ token[t] \in TokenRows
      /\ OwnershipProved /\ era \in Nat /\ user \in UserRows \cup {None}
  BY DEF Mailed, RowsTyped
<1>2. ASSUME UNCHANGED <<user, google, era>>, proofs \subseteq proofs',
             token' \in [Tokens -> TokenRows], call' \in [Calls -> CallRows],
             \A d \in Calls \ {c} : call'[d] = call[d],
             CallSound(call'[c], user, proofs', era),
             call'[c].op # "resetPassword",
             \A t \in Tokens : token'[t] = token[t] \/ TokenSound(token'[t], user),
             \A t \in Tokens : token'[t].state = "live" =>
                 \/ token'[t] = token[t]
                 \/ token'[t].era = era /\ token'[t].past = looked(token'[t].kind)
      PROVE  Mailed'
  <2>1. \A d \in Calls : \/ call'[d] = call[d]
                         \/ /\ CallSound(call'[d], user', proofs', era')
                            /\ Outlived(d, call'[d], token')
    BY <1>2 DEF Outlived
  <2>2. OwnershipProved'  BY <1>1, <1>2 DEF OwnershipProved
  <2>3. era' \in Nat /\ era <= era' /\ google' \in BOOLEAN
    BY <1>1, <1>2 DEF RowsTyped
  <2> QED  BY <1>1, <1>2, <2>1, <2>2, <2>3, RowsKept
<1>3. CASE VerifyConsume(c)
  <2>1. CASE token[call[c].t].state = "live"
    <3>1. /\ token' = consumed({call[c].t}) /\ proofs' = proofs \cup {"token"}
          /\ UNCHANGED <<user, google, era>> /\ call[c].pc = "consume"
          /\ To(c, "verify", "done") \/ To(c, "verify", "mark")
      BY <1>3, <2>1 DEF VerifyConsume, At
    <3> DEFINE ts == {call[c].t} \cap Tokens
    <3>2. consumed({call[c].t}) = consumed(ts)  BY DEF consumed
    <3>3. ts \in SUBSET Tokens  OBVIOUS
    <3> HIDE DEF ts
    <3>4. token' \in [Tokens -> TokenRows]
      <4>1. CASE Tokens = {}  BY <4>1, <3>1 DEF consumed
      <4>2. CASE Tokens # {}  BY <1>1, <3>1, <3>2, <3>3, <4>2, Consumed
      <4> QED  BY <4>1, <4>2
    <3>5. ASSUME NEW t \in Tokens
          PROVE  /\ token'[t] = token[t] \/ TokenSound(token'[t], user)
                 /\ token'[t].state = "live" => token'[t] = token[t]
      <4>1. CASE t \in ts
        <5>1. token'[t] = [token[t] EXCEPT !.state = "consumed"]
          BY <1>1, <3>1, <3>2, <3>3, <4>1, Consumed
        <5>2. /\ token'[t].state = "consumed" /\ token'[t].kind = token[t].kind
          BY <1>1, <5>1 DEF TokenRows
        <5>3. ts = {call[c].t} \cap Tokens  BY DEF ts
        <5>4. token[t].state = "live"  BY <2>1, <4>1, <5>3
        <5> QED  BY <1>1, <5>2, <5>4 DEF TokenSound
      <4>2. CASE t \notin ts
        <5>1. consumed(ts)[t] = token[t]  BY <1>1, <3>3, <4>2, Consumed
        <5> QED  BY <3>1, <3>2, <5>1
      <4> QED  BY <4>1, <4>2
    <3>6. "verify" \in Requests /\ "mark" \in Places /\ "done" \in Places
      BY DEF Requests, Places
    <3>7. CallSound(call'[c], user, proofs', era) /\ call'[c].op # "resetPassword"
      BY <1>1, <3>1, <3>6, GoesTo DEF CallSound, Reads, Looking
    <3> QED  BY <1>1, <1>2, <3>1, <3>4, <3>5, <3>6, <3>7, GoesTo
  <2>2. CASE token[call[c].t].state # "live"
    <3>1. /\ UNCHANGED <<user, google, era, token, proofs>> /\ Finish(c)
          /\ call[c].op = "verify"
      BY <1>3, <2>2 DEF VerifyConsume, At
    <3>2. CallSound(call'[c], user, proofs', era) /\ call'[c].op # "resetPassword"
      BY <1>1, <3>1, Finishes DEF CallSound, Reads, Looking
    <3> QED  BY <1>1, <1>2, <3>1, <3>2, Finishes DEF RowsTyped
  <2> QED  BY <2>1, <2>2
<1>4. ASSUME NEW t \in Tokens, CreateToken(c, t) PROVE Mailed'
  <2> DEFINE gone == {u \in call[c].seen : token[u].state = "live"}
             new  == [kind |-> call[c].op, state |-> "live", era |-> era,
                      past |-> looked(call[c].op)]
  <2>1. /\ token' = [consumed(gone) EXCEPT ![t] = new] /\ call[c].pc = "create"
        /\ UNCHANGED <<user, google, proofs, era>> /\ Finish(c)
    BY <1>4 DEF CreateToken
  <2>2. gone \in SUBSET Tokens /\ \A u \in gone : token[u].state = "live"
    BY <1>1 DEF CallRows
  <2>3. call[c].op \in Kinds /\ user # None
    BY <1>1, <2>1 DEF CallSound, Reads, Looking
  <2>4. new \in TokenRows  BY <1>1, <2>3 DEF TokenRows, looked
  <2>5. new.era = era /\ new.past = looked(new.kind) /\ TokenSound(new, user)
    BY <2>3 DEF TokenSound, Kinds
  <2> HIDE DEF gone, new
  <2>6. consumed(gone) \in [Tokens -> TokenRows]  BY <1>1, <2>2, Consumed
  <2>7. token' \in [Tokens -> TokenRows]  BY <2>1, <2>4, <2>6
  <2>8. ASSUME NEW u \in Tokens
        PROVE  /\ token'[u] = token[u] \/ TokenSound(token'[u], user)
               /\ token'[u].state = "live" =>
                      \/ token'[u] = token[u]
                      \/ token'[u].era = era /\ token'[u].past = looked(token'[u].kind)
    <3>1. CASE u = t
      <4>1. token'[u] = new  BY <2>1, <2>6, <3>1
      <4> QED  BY <4>1, <2>5
    <3>2. CASE u # t
      <4>1. token'[u] = consumed(gone)[u]  BY <2>1, <2>6, <3>2
      <4>2. CASE u \in gone
        <5>1. token'[u] = [token[u] EXCEPT !.state = "consumed"]
          BY <1>1, <2>2, <4>1, <4>2, Consumed
        <5>2. token'[u].state = "consumed" /\ token'[u].kind = token[u].kind
          BY <1>1, <5>1 DEF TokenRows
        <5> QED  BY <1>1, <2>2, <4>2, <5>2 DEF TokenSound
      <4>3. CASE u \notin gone  BY <1>1, <2>2, <4>1, <4>3, Consumed
      <4> QED  BY <4>2, <4>3
    <3> QED  BY <3>1, <3>2
  <2>9. CallSound(call'[c], user, proofs', era) /\ call'[c].op # "resetPassword"
    BY <1>1, <2>1, <2>3, Finishes DEF CallSound, Reads, Looking, Kinds
  <2> QED  BY <1>1, <1>2, <2>1, <2>7, <2>8, <2>9, Finishes
<1> QED  BY <1>3, <1>4

(* A reset leaves live what it has not seen; a block begins an era, too.   *)
LEMMA ErasBegin ==
    ASSUME Mailed, NEW c \in Calls, ResetCommit(c) \/ Block(c)
    PROVE  Mailed'
<1>1. /\ RowsTyped /\ CallSound(call[c], user, proofs, era) /\ call[c] \in CallRows
      /\ \A t \in Tokens : TokenSound(token[t], user) /\ token[t] \in TokenRows
      /\ OwnershipProved /\ era \in Nat /\ user \in UserRows \cup {None}
      /\ google \in BOOLEAN /\ token \in [Tokens -> TokenRows]
  BY DEF Mailed, RowsTyped
<1>2. era + 1 \in Nat /\ era <= era + 1  BY <1>1
<1>3. CASE ResetCommit(c)
  <2> DEFINE x  == [call[c] EXCEPT !.pc = "sweep", !.era = era + 1, !.seen = {}]
             ts == {t \in call[c].seen : token[t].state = "live"}
  <2>1. /\ call[c].pc = "commit" /\ call[c].op = "resetPassword"
        /\ user' = [user EXCEPT !.password = call[c].pw]
        /\ token' = consumed(ts) /\ era' = era + 1
        /\ call' = [call EXCEPT ![c] = x]
        /\ UNCHANGED <<google, proofs>>
    BY <1>1, <1>3 DEF ResetCommit, At, RowsTyped
  <2>2. user \in UserRows /\ call[c].pw \in Passwords \cup {None}
    BY <1>1, <2>1 DEF CallSound, Reads, Looking, CallRows
  <2>3. user' \in UserRows /\ user' # None /\ user'.verified = user.verified
        /\ user # None
    BY <2>1, <2>2, RowWritten
  <2>4. /\ ts \in SUBSET Tokens
        /\ \A t \in ts : token[t].state = "live"
        /\ \A t \in Tokens \ ts : token[t].state = "live" => c \in token[t].past
    <3>1. \A t \in Tokens : token[t].state = "live" =>
              t \in call[c].seen \/ c \in token[t].past
      BY <2>1 DEF Mailed, Outlived, Looks
    <3>2. call[c].seen \in SUBSET Tokens  BY <1>1 DEF CallRows
    <3> QED  BY <3>1, <3>2
  <2>5. x \in CallRows
    <3> DEFINE y == [call[c] EXCEPT !.pc = "sweep", !.seen = {}]
    <3>1. "sweep" \in Places  BY DEF Places
    <3>2. y \in CallRows  BY <1>1, <3>1, TakesSeen
    <3>3. x = [y EXCEPT !.pc = "sweep", !.era = era + 1]  BY <1>1 DEF CallRows
    <3> HIDE DEF x, y
    <3>4. [y EXCEPT !.pc = "sweep", !.era = era + 1] \in CallRows
      BY <1>2, <3>1, <3>2, TakesEra
    <3> QED  BY <3>3, <3>4
  <2>6. x.op = "resetPassword" /\ x.pc = "sweep" /\ x.era = era + 1
    BY <1>1, <2>1 DEF CallRows
  <2> HIDE DEF x, ts
  <2>7. ASSUME NEW t \in Tokens
        PROVE  /\ token' \in [Tokens -> TokenRows]
               /\ token'[t] = token[t] \/ TokenSound(token'[t], user')
               /\ token'[t].state = "live" => token'[t] = token[t] /\ c \in token[t].past
    <3>1. token' \in [Tokens -> TokenRows]  BY <1>1, <2>1, <2>4, Consumed
    <3>2. CASE t \in ts
      <4>1. token'[t] = [token[t] EXCEPT !.state = "consumed"]
        BY <1>1, <2>1, <2>4, <3>2, Consumed
      <4>2. token'[t].state = "consumed" /\ token'[t].kind = token[t].kind
        BY <1>1, <4>1 DEF TokenRows
      <4>3. token[t].state = "live"  BY <2>4, <3>2
      <4> QED  BY <1>1, <2>3, <3>1, <4>2, <4>3 DEF TokenSound
    <3>3. CASE t \notin ts
      <4>1. token'[t] = token[t]
        BY <1>1, <2>1, <2>4, <3>3, Consumed
      <4>2. token[t].state = "live" => c \in token[t].past  BY <2>4, <3>3
      <4> QED  BY <3>1, <4>1, <4>2
    <3> QED  BY <3>2, <3>3
  <2>8. token' \in [Tokens -> TokenRows]
    <3>1. CASE Tokens = {}  BY <3>1, <2>1 DEF consumed
    <3> QED  BY <2>7, <3>1
  <2>9. /\ call' \in [Calls -> CallRows] /\ call'[c] = x
        /\ \A d \in Calls \ {c} : call'[d] = call[d]
    BY <1>1, <2>1, <2>5, Writes
  <2>10. CallSound(call'[c], user', proofs', era') /\ Outlived(c, call'[c], token')
    BY <1>2, <2>1, <2>6, <2>7, <2>9 DEF CallSound, Reads, Looking, Outlived, Looks
  <2>11. OwnershipProved'  BY <1>1, <2>1, <2>3 DEF OwnershipProved
  <2>12. \A d \in Calls : \/ call'[d] = call[d]
                          \/ /\ CallSound(call'[d], user', proofs', era')
                             /\ Outlived(d, call'[d], token')
    BY <2>9, <2>10
  <2>13. era' \in Nat /\ era <= era' /\ google' \in BOOLEAN /\ proofs \subseteq proofs'
    BY <1>1, <1>2, <2>1
  <2> QED  BY <2>3, <2>7, <2>8, <2>9, <2>11, <2>12, <2>13, RowsKept
<1>4. CASE Block(c)
  <2> DEFINE x == [call[c] EXCEPT !.op = "block", !.pc = "sweep", !.era = era + 1]
  <2>1. /\ user # None /\ user' = [user EXCEPT !.active = FALSE]
        /\ era' = era + 1
        /\ call' = [call EXCEPT ![c] = x]
        /\ UNCHANGED <<google, token, proofs>>
    BY <1>1, <1>4 DEF Block, RowsTyped
  <2>2. user' \in UserRows /\ user' # None /\ user'.verified = user.verified
    BY <1>1, <2>1, RowWritten
  <2>3. x \in CallRows
    <3>1. "block" \in Requests /\ "sweep" \in Places  BY DEF Requests, Places
    <3> QED  BY <1>1, <1>2, <3>1, TakesOpEra
  <2>4. x.op = "block" /\ x.pc = "sweep" /\ x.era = era + 1  BY <1>1 DEF CallRows
  <2> HIDE DEF x
  <2>5. /\ call' \in [Calls -> CallRows] /\ call'[c] = x
        /\ \A d \in Calls \ {c} : call'[d] = call[d]
    BY <1>1, <2>1, <2>3, Writes
  <2>6. CallSound(call'[c], user', proofs', era') /\ Outlived(c, call'[c], token')
    BY <1>2, <2>1, <2>4, <2>5 DEF CallSound, Reads, Looking, Outlived
  <2>7. OwnershipProved'  BY <1>1, <2>1, <2>2 DEF OwnershipProved
  <2>8. \A d \in Calls : \/ call'[d] = call[d]
                         \/ /\ CallSound(call'[d], user', proofs', era')
                            /\ Outlived(d, call'[d], token')
    BY <2>5, <2>6
  <2>9. /\ era' \in Nat /\ era <= era' /\ google' \in BOOLEAN /\ proofs \subseteq proofs'
        /\ token' \in [Tokens -> TokenRows]
        /\ \A t \in Tokens : token'[t] = token[t]
    BY <1>1, <1>2, <2>1
  <2> QED  BY <2>2, <2>5, <2>7, <2>8, <2>9, RowsKept
<1> QED  BY <1>3, <1>4

(* What happens by itself.                                                 *)
LEMMA ByItself ==
    ASSUME Mailed,
           \/ Unblock
           \/ \E t \in Tokens : ExpireToken(t)
           \/ \E f \in Families : SessionExpires(f)
           \/ UNCHANGED vars
    PROVE  Mailed'
<1>1. /\ RowsTyped /\ OwnershipProved
      /\ \A t \in Tokens : TokenSound(token[t], user) /\ token[t] \in TokenRows
      /\ user \in UserRows \cup {None} /\ google \in BOOLEAN /\ era \in Nat
      /\ era <= era /\ token \in [Tokens -> TokenRows] /\ call \in [Calls -> CallRows]
  BY DEF Mailed, RowsTyped
<1>2. UNCHANGED <<google, proofs, era, call>>
  BY DEF Unblock, ExpireToken, SessionExpires, rowVars, vars
<1>3. \A d \in Calls : call'[d] = call[d]  BY <1>2
<1>4. CASE Unblock
  <2>1. user # None /\ user' = [user EXCEPT !.active = TRUE] /\ token' = token
    BY <1>4 DEF Unblock
  <2>2. user' \in UserRows /\ user' # None /\ user'.verified = user.verified
    BY <1>1, <2>1, RowWritten
  <2>3. OwnershipProved'  BY <1>1, <1>2, <2>1, <2>2 DEF OwnershipProved
  <2>4. \A t \in Tokens : token'[t] = token[t]  BY <2>1
  <2> QED  BY <1>1, <1>2, <1>3, <2>1, <2>2, <2>3, <2>4, RowsKept
<1>5. ASSUME NEW t \in Tokens, ExpireToken(t) PROVE Mailed'
  <2> DEFINE new == [token[t] EXCEPT !.state = "expired"]
  <2>1. /\ token' = [token EXCEPT ![t] = new] /\ user' = user
        /\ token[t].state = "live"
    BY <1>1, <1>5 DEF ExpireToken
  <2>2. new \in TokenRows /\ new.state = "expired" /\ new.kind = token[t].kind
    BY <1>1 DEF TokenRows
  <2>3. TokenSound(new, user)  BY <1>1, <2>1, <2>2 DEF TokenSound
  <2> HIDE DEF new
  <2>4. token' \in [Tokens -> TokenRows] /\ token'[t] = new
        /\ \A u \in Tokens : u # t => token'[u] = token[u]
    BY <1>1, <2>1, <2>2
  <2>5. OwnershipProved'  BY <1>1, <1>2, <2>1 DEF OwnershipProved
  <2> QED  BY <1>1, <1>2, <1>3, <2>1, <2>2, <2>3, <2>4, <2>5, RowsKept
<1>6. CASE (\E f \in Families : SessionExpires(f)) \/ UNCHANGED vars
  <2>1. token' = token /\ user' = user
    BY <1>6 DEF SessionExpires, rowVars, vars
  <2>2. OwnershipProved'  BY <1>1, <1>2, <2>1 DEF OwnershipProved
  <2> QED  BY <1>1, <1>2, <1>3, <2>1, <2>2, RowsKept
<1> QED  BY <1>4, <1>5, <1>6

LEMMA MailedStarts == Init => Mailed
<1> SUFFICES ASSUME Init PROVE Mailed  OBVIOUS
<1>1. user \in UserRows \cup {None}  BY AccountsAssumption DEF Init
<1>2. call = [c \in Calls |-> NewCall] /\ token = [t \in Tokens |-> NoToken]
      /\ era = 0 /\ google = FALSE
      /\ proofs = IF user # None /\ user.verified THEN {"token"} ELSE {}
  BY DEF Init
<1>3. NewCall \in CallRows /\ NewCall.pc = "new" /\ NewCall.era = 0 /\ NewCall.op = "none"
  BY DEF NewCall, CallRows, Requests, Places
<1>4. NoToken \in TokenRows /\ NoToken.kind = "none" /\ NoToken.state = "free"
  BY DEF NoToken, TokenRows
<1>5. RowsTyped  BY <1>1, <1>2, <1>3, <1>4 DEF RowsTyped
<1>6. \A c \in Calls : CallSound(call[c], user, proofs, era)
  BY <1>2, <1>3 DEF CallSound, Reads, Looking
<1>7. \A t \in Tokens : TokenSound(token[t], user) /\ token[t].state = "free"
  BY <1>2, <1>4 DEF TokenSound
<1>8. OwnershipProved /\ \A c \in Calls : Outlived(c, call[c], token)
  BY <1>2, <1>7 DEF Outlived, OwnershipProved
<1> QED  BY <1>5, <1>6, <1>7, <1>8 DEF Mailed

LEMMA MailedKept == Mailed /\ [Next]_vars => Mailed'
<1> SUFFICES ASSUME Mailed, [Next]_vars PROVE Mailed'  OBVIOUS
<1>1. ASSUME NEW c \in Calls, Step(c) PROVE Mailed'
  BY <1>1, StepsWritingNoRow, TakingRow, ResetLooks, AccountWritten, TokensWritten, ErasBegin DEF Step
<1> QED  BY <1>1, ByItself DEF Next

LEMMA MailedAlways == Spec => []Mailed
BY MailedStarts, MailedKept, PTL DEF Spec

(* Whatever order sign-ups, mails, clicks, links and resets come in, nobody *)
(* is verified without a live token or Google vouching for the address, and *)
(* no mailed token survives a password reset (auth.service.ts verifyEmail,  *)
(* linkGoogle, resetPassword).                                              *)
THEOREM MailTokensAlwaysSound == Spec => []MailTokensSound
<1>1. Mailed => MailTokensSound
  BY DEF Mailed, MailTokensSound, TokensDieWithReset, Outlived
<1> QED  BY <1>1, MailedAlways, PTL
-----------------------------------------------------------------------------
JobRows == [op : {"none", "issue", "rotated", "revoke", "sweep"},
            pc : {"none", "add", "families", "index"},
            f : Families \cup {None}, n : Secrets \cup {None},
            seen : SUBSET Families]

RedisTyped ==
    /\ family \in [Families -> Secrets \cup {None}]
    /\ index \subseteq Families /\ job \in [Calls -> JobRows]
    /\ redeemed \subseteq cookies
    /\ stamp \in [Families -> Nat] /\ closed \in Nat /\ closed <= era

Presented(f) == \E n \in Secrets : <<f, n>> \in cookies

(* What the call of a request is doing in Redis, and for which request.    *)
JobSound(c, x) ==
    /\ x.op \in {"issue", "rotated", "revoke"} => x.f \in Families
    /\ x.op = "rotated" => Presented(x.f)
    /\ x.op = "revoke" => x.seen \subseteq {x.f}
    /\ x.op = "sweep" =>
          /\ call[c].pc \in {"swept families", "swept index"}
          /\ index \subseteq x.seen \cup raced
          /\ x.pc = "index" => \A f \in x.seen : ~Live(f)
          /\ \A f \in Families :
                Usable(f) /\ stamp[f] < call[c].era => f \in x.seen \cup raced
    /\ call[c].pc = "check" => x.op = "rotated"

Kept ==
    /\ RedisTyped
    /\ \A c \in Calls : JobSound(c, job[c])
    /\ SessionsSound
-----------------------------------------------------------------------------
LEMMA JobWrites ==
    ASSUME RedisTyped, NEW c \in Calls, NEW x \in JobRows,
           job' = [job EXCEPT ![c] = x]
    PROVE  /\ job' \in [Calls -> JobRows] /\ job'[c] = x
           /\ \A d \in Calls \ {c} : job'[d] = job[d]
BY DEF RedisTyped

LEMMA IdleRow ==
    Idle \in JobRows /\ Idle.op = "none" /\ Idle.f = None /\ Idle.seen = {}
BY DEF Idle, JobRows

LEMMA ErasSound ==
    ASSUME Mailed
    PROVE  /\ era \in Nat /\ RowsTyped
           /\ \A c \in Calls : call[c].era \in Nat /\ call[c].era <= era
BY DEF Mailed, RowsTyped, CallRows, CallSound

(* What a step owes to keep the sessions sound: a family becomes usable    *)
(* only as it is indexed, leaves the index only when it is not usable or   *)
(* was raced out, and no sweep has seen a family that is live anew.        *)
LEMMA SessionsKept ==
    ASSUME Mailed, Kept, RedisTyped', RedeemedOnce', era' = era,
           cookies \subseteq cookies', raced \subseteq raced',
           closed' = closed \/ SessionsDieWithSweep',
           \A f \in Families : Usable(f)' =>
               \/ Usable(f) /\ stamp'[f] = stamp[f]
               \/ f \in index' /\ stamp'[f] = era,
           \A f \in index : f \in index' \cup raced' \/ ~Usable(f)',
           \A f \in Families : Live(f)' => Live(f) \/ \A d \in Calls : f \notin job[d].seen,
           \A d \in Calls : job[d].op = "sweep" => index' \subseteq index \cup raced',
           \A d \in Calls : \/ job'[d] = job[d] /\ call'[d] = call[d]
                            \/ JobSound(d, job[d])'
    PROVE  Kept'
<1>1. /\ RedisTyped /\ RedeemedOnce /\ EverySessionIndexed /\ SessionsDieWithSweep
      /\ \A d \in Calls : JobSound(d, job[d]) /\ job[d].seen \subseteq Families
  BY DEF Kept, SessionsSound, RedisTyped, JobRows
<1>2. /\ era \in Nat /\ stamp \in [Families -> Nat] /\ closed \in Nat /\ closed <= era
      /\ \A c \in Calls : call[c].era \in Nat /\ call[c].era <= era
  BY ErasSound, <1>1 DEF RedisTyped
<1>3. ASSUME NEW d \in Calls, job'[d] = job[d], call'[d] = call[d]
      PROVE  JobSound(d, job[d])'
  <2>1. JobSound(d, job[d]) /\ job[d].seen \subseteq Families  BY <1>1
  <2>2. job[d].op = "rotated" => Presented(job[d].f)'
    BY <1>3, <2>1 DEF JobSound, Presented
  <2>3. ASSUME job[d].op = "sweep"
        PROVE  /\ index' \subseteq job[d].seen \cup raced'
               /\ job[d].pc = "index" => \A f \in job[d].seen : ~Live(f)'
               /\ \A f \in Families :
                     Usable(f)' /\ stamp'[f] < call[d].era => f \in job[d].seen \cup raced'
    <3>1. index' \subseteq job[d].seen \cup raced'
      BY <2>1, <2>3 DEF JobSound
    <3>2. job[d].pc = "index" => \A f \in job[d].seen : ~Live(f)'
      BY <2>1, <2>3 DEF JobSound
    <3>3. ASSUME NEW f \in Families, Usable(f)', stamp'[f] < call[d].era
          PROVE  f \in job[d].seen \cup raced'
      <4>1. CASE Usable(f) /\ stamp'[f] = stamp[f]
        BY <2>1, <2>3, <3>3, <4>1 DEF JobSound
      <4>2. CASE stamp'[f] = era  BY <1>2, <3>3, <4>2
      <4> QED  BY <3>3, <4>1, <4>2
    <3> QED  BY <3>1, <3>2, <3>3
  <2> QED  BY <1>3, <2>1, <2>2, <2>3 DEF JobSound
<1>4. \A d \in Calls : JobSound(d, job[d])'  BY <1>3
<1>5. EverySessionIndexed'
  <2> SUFFICES ASSUME NEW f \in Families, Usable(f)' PROVE f \in index' \cup raced'
    BY DEF EverySessionIndexed
  <2> QED  BY <1>1 DEF EverySessionIndexed
<1>6. SessionsDieWithSweep'
  <2>1. CASE closed' = closed
    <3> SUFFICES ASSUME NEW f \in Families, Usable(f)', stamp'[f] < closed PROVE f \in raced'
      BY <2>1 DEF SessionsDieWithSweep
    <3>1. CASE Usable(f) /\ stamp'[f] = stamp[f]
      BY <1>1, <3>1 DEF SessionsDieWithSweep
    <3>2. CASE stamp'[f] = era  BY <1>2, <3>2
    <3> QED  BY <3>1, <3>2
  <2> QED  BY <2>1
<1> QED  BY <1>4, <1>5, <1>6 DEF Kept, SessionsSound

(* A step that is not in Redis.                                            *)
LEMMA Still ==
    ASSUME Mailed, Kept, UNCHANGED <<redisVars, stamp, closed>>,
           era' \in Nat, era <= era',
           \A d \in Calls : \/ call'[d] = call[d]
                            \/ job[d].op # "sweep" /\ call'[d].pc # "check"
    PROVE  Kept'
<1>1. UNCHANGED <<family, index, job, cookies, redeemed, burned, raced>>
  BY DEF redisVars
<1>2. era \in Nat  BY ErasSound
<1>3. RedisTyped'  BY <1>1, <1>2 DEF Kept, RedisTyped
<1>4. \A f \in Families : (Usable(f)' <=> Usable(f)) /\ (Live(f)' <=> Live(f))
  BY <1>1 DEF Usable, Live
<1>5. SessionsSound'
  BY <1>1, <1>4 DEF Kept, SessionsSound, RedeemedOnce, EverySessionIndexed,
                    SessionsDieWithSweep, Live
<1>6. ASSUME NEW d \in Calls PROVE JobSound(d, job[d])'
  <2>1. JobSound(d, job[d]) /\ job[d].seen \subseteq Families
    BY DEF Kept, RedisTyped, JobRows
  <2>2. CASE call'[d] = call[d]
    BY <1>1, <1>4, <2>1, <2>2 DEF JobSound, Presented
  <2>3. CASE job[d].op # "sweep" /\ call'[d].pc # "check"
    BY <1>1, <2>1, <2>3 DEF JobSound, Presented
  <2> QED  BY <2>2, <2>3
<1> QED  BY <1>3, <1>5, <1>6 DEF Kept

LEMMA RowsAlone ==
    ASSUME Mailed, Mailed', Kept, NEW c \in Calls,
           \/ GoogleIdentity(c) \/ GoogleFindEmail(c) \/ GoogleCreate(c) \/ GoogleRetry(c)
           \/ LinkIdentity(c) \/ LinkMark(c)
           \/ Forgot(c) \/ Resend(c) \/ Invalidate(c) \/ VerifyConsume(c) \/ VerifyMark(c)
           \/ ResetResets(c) \/ ResetVerifications(c) \/ ResetCommit(c)
           \/ ChangeWrite(c) \/ Block(c)
           \/ \E p \in Passwords : Login(c, p) \/ Register(c, p) \/ Link(c, p)
           \/ \E p, q \in Passwords : ChangeRead(c, p, q)
           \/ \E t \in Tokens : CreateToken(c, t) \/ VerifyRead(c, t)
           \/ \E t \in Tokens, p \in Passwords : ResetRead(c, t, p)
    PROVE  Kept'
<1> DEFINE Away == {"new", "find", "create user", "retry", "identity", "mark",
                    "invalidate", "create", "consume", "resets", "verifications", "commit",
                    "write"}
<1>1. /\ UNCHANGED <<redisVars, stamp, closed>> /\ (era' = era \/ era' = era + 1)
      /\ call[c].pc \in Away
  BY DEF GoogleIdentity, GoogleFindEmail, GoogleCreate, GoogleRetry, LinkIdentity,
         LinkMark, Forgot, Resend, Invalidate, VerifyConsume, VerifyMark, ResetResets,
         ResetVerifications, ResetCommit, ChangeWrite, Block, Login, Register, Link, ChangeRead, CreateToken, VerifyRead,
         ResetRead, NoRedis, rowVars, May, At
<1>2. era \in Nat /\ RowsTyped /\ RowsTyped'  BY ErasSound DEF Mailed
<1>3. job[c].op # "sweep"  BY <1>1 DEF Kept, JobSound
<1>4. call' \in [Calls -> CallRows] /\ call \in [Calls -> CallRows]
  BY <1>2 DEF RowsTyped
<1>5. ASSUME NEW x, call' = [call EXCEPT ![c] = x], x.pc # "check" PROVE Kept'
  <2>1. \A d \in Calls : d # c => call'[d] = call[d]  BY <1>4, <1>5
  <2>2. call'[c] = x  BY <1>4, <1>5
  <2>3. \A d \in Calls : \/ call'[d] = call[d]
                         \/ job[d].op # "sweep" /\ call'[d].pc # "check"
    BY <1>3, <1>5, <2>1, <2>2
  <2>4. era' \in Nat /\ era <= era'
    <3>1. era' = era \/ era' = era + 1  BY <1>1
    <3>2. era \in Nat  BY <1>2
    <3> QED  BY <3>1, <3>2
  <2>5. UNCHANGED <<redisVars, stamp, closed>>  BY <1>1
  <2> QED  BY <2>3, <2>4, <2>5, Still
<1>6. call[c] \in CallRows  BY <1>4
<1>7. ASSUME NEW pc \in Places \ {"check"}, NEW op, To(c, op, pc) PROVE Kept'
  <2> DEFINE x == [call[c] EXCEPT !.op = op, !.pc = pc]
  <2>1. x.pc = pc  BY <1>6 DEF CallRows
  <2>2. call' = [call EXCEPT ![c] = x]  BY <1>4, <1>7 DEF To
  <2> HIDE DEF x
  <2> QED  BY <1>5, <1>7, <2>1, <2>2
<1>8. ASSUME Finish(c) PROVE Kept'
  <2> DEFINE x == [call[c] EXCEPT !.pc = "done"]
  <2>1. x.pc = "done"  BY <1>6 DEF CallRows
  <2>2. call' = [call EXCEPT ![c] = x]  BY <1>4, <1>8 DEF Finish
  <2> HIDE DEF x
  <2> QED  BY <1>5, <2>1, <2>2
<1>9. CASE GoogleIdentity(c) \/ GoogleFindEmail(c) \/ GoogleCreate(c) \/ GoogleRetry(c)
  BY <1>7, <1>9 DEF GoogleIdentity, GoogleFindEmail, GoogleCreate, GoogleRetry, Places
<1>10. CASE LinkIdentity(c) \/ LinkMark(c) \/ Forgot(c) \/ Resend(c)
  BY <1>7, <1>10 DEF LinkIdentity, LinkMark, Forgot, Resend, Places
<1>11. CASE VerifyConsume(c) \/ VerifyMark(c) \/ ChangeWrite(c)
            \/ \E t \in Tokens : CreateToken(c, t)
  BY <1>7, <1>8, <1>11 DEF VerifyConsume, VerifyMark, ChangeWrite, CreateToken, Places
<1>12. CASE \E p \in Passwords : Login(c, p) \/ Register(c, p)
  BY <1>7, <1>12 DEF Login, Register, Places
<1>13. CASE Invalidate(c)
  <2> DEFINE x == [call[c] EXCEPT !.pc = "create", !.seen = liveTokens(call[c].op)]
  <2>1. x.pc # "check" /\ call' = [call EXCEPT ![c] = x]
    BY <1>4, <1>6, <1>13 DEF Invalidate, CallRows
  <2> HIDE DEF x
  <2> QED  BY <1>5, <2>1
<1>14. CASE ResetCommit(c)
  <2> DEFINE x == [call[c] EXCEPT !.pc = "sweep", !.era = era + 1, !.seen = {}]
  <2>1. x.pc # "check" /\ call' = [call EXCEPT ![c] = x]
    BY <1>4, <1>6, <1>14 DEF ResetCommit, CallRows
  <2> HIDE DEF x
  <2> QED  BY <1>5, <2>1
<1>15. CASE Block(c)
  <2> DEFINE x == [call[c] EXCEPT !.op = "block", !.pc = "sweep", !.era = era + 1]
  <2>1. x.pc # "check" /\ call' = [call EXCEPT ![c] = x]
    BY <1>4, <1>6, <1>15 DEF Block, CallRows
  <2> HIDE DEF x
  <2> QED  BY <1>5, <2>1
<1>16. ASSUME NEW p \in Passwords, Link(c, p) PROVE Kept'
  <2> DEFINE x == [call[c] EXCEPT !.op = "link", !.pc = "identity",
                                  !.verified = user.verified]
  <2>1. x.pc # "check" /\ call' = [call EXCEPT ![c] = x]
    BY <1>4, <1>6, <1>16 DEF Link, CallRows
  <2> HIDE DEF x
  <2> QED  BY <1>5, <2>1
<1>17. ASSUME NEW p \in Passwords, NEW q \in Passwords, ChangeRead(c, p, q) PROVE Kept'
  <2> DEFINE x == [call[c] EXCEPT !.op = "changePassword", !.pc = "write", !.pw = q]
  <2>1. x.pc # "check" /\ call' = [call EXCEPT ![c] = x]
    BY <1>4, <1>6, <1>17 DEF ChangeRead, CallRows
  <2> HIDE DEF x
  <2> QED  BY <1>5, <2>1
<1>18. ASSUME NEW t \in Tokens, VerifyRead(c, t) PROVE Kept'
  <2> DEFINE x == [call[c] EXCEPT !.op = "verify", !.pc = "consume", !.t = t,
                                  !.verified = user.verified]
  <2>1. x.pc # "check" /\ call' = [call EXCEPT ![c] = x]
    BY <1>4, <1>6, <1>18 DEF VerifyRead, CallRows
  <2> HIDE DEF x
  <2> QED  BY <1>5, <2>1
<1>19. ASSUME NEW t \in Tokens, NEW p \in Passwords, ResetRead(c, t, p) PROVE Kept'
  <2> DEFINE x == [call[c] EXCEPT !.op = "resetPassword", !.pc = "resets", !.t = t,
                                  !.pw = p]
  <2>1. x.pc # "check" /\ call' = [call EXCEPT ![c] = x]
    BY <1>4, <1>6, <1>19 DEF ResetRead, CallRows
  <2> HIDE DEF x
  <2> QED  BY <1>5, <2>1
<1>20. CASE ResetResets(c)
  <2> DEFINE x == [call[c] EXCEPT !.pc = "verifications", !.seen = liveTokens("reset")]
  <2>1. x.pc # "check" /\ call' = [call EXCEPT ![c] = x]
    BY <1>4, <1>6, <1>20 DEF ResetResets, CallRows
  <2> HIDE DEF x
  <2> QED  BY <1>5, <2>1
<1>21. CASE ResetVerifications(c)
  <2> DEFINE x == [call[c] EXCEPT !.pc = "commit",
                                  !.seen = call[c].seen \cup liveTokens("verification")]
  <2>1. x.pc # "check" /\ call' = [call EXCEPT ![c] = x]
    BY <1>4, <1>6, <1>21 DEF ResetVerifications, CallRows
  <2> HIDE DEF x
  <2> QED  BY <1>5, <2>1
<1> QED  BY <1>20, <1>21, <1>9, <1>10, <1>11, <1>12, <1>13, <1>14, <1>15, <1>16, <1>17, <1>18, <1>19

-----------------------------------------------------------------------------
(* The steps in Redis, one by one.                                         *)
LEMMA SessionFacts ==
    ASSUME Mailed, Kept
    PROVE  /\ RedisTyped /\ RedeemedOnce /\ EverySessionIndexed /\ RowsTyped
           /\ era \in Nat /\ closed \in Nat /\ closed <= era
           /\ family \in [Families -> Secrets \cup {None}]
           /\ job \in [Calls -> JobRows] /\ call \in [Calls -> CallRows]
           /\ stamp \in [Families -> Nat]
           /\ redeemed \subseteq cookies /\ index \subseteq Families
           /\ \A d \in Calls : /\ JobSound(d, job[d]) /\ job[d] \in JobRows
                               /\ job[d].seen \subseteq Families
           /\ 0 \in Secrets /\ None \notin Secrets /\ None \notin Families
BY ErasSound, RefreshAssumption
   DEF Kept, SessionsSound, RedisTyped, JobRows, Secrets, RowsTyped

LEMMA HandOutKeeps ==
    ASSUME Mailed, Kept, NEW c \in Calls, HandOut(c)
    PROVE  Kept'
<1> DEFINE f == job[c].f
<1>1. /\ job[c].op = "issue" /\ index' = index \cup {f}
      /\ raced' = IF Sweeping = {} THEN raced ELSE raced \cup {f}
      /\ cookies' = cookies \cup {<<f, 0>>}
      /\ job' = [job EXCEPT ![c] = Idle]
      /\ stamp' = [stamp EXCEPT ![f] = era]
      /\ UNCHANGED <<family, redeemed, burned, closed, era>>
      /\ Finish(c)
  BY DEF HandOut, IssueIndex, NoRows, rowVars
<1>2. f \in Families  BY <1>1, SessionFacts DEF JobSound
<1> HIDE DEF f
<1>3. /\ job' \in [Calls -> JobRows] /\ job'[c] = Idle
      /\ \A d \in Calls \ {c} : job'[d] = job[d]
  BY <1>1, SessionFacts, IdleRow, JobWrites
<1>4. /\ stamp' \in [Families -> Nat] /\ stamp'[f] = era
      /\ \A g \in Families : g # f => stamp'[g] = stamp[g]
  BY <1>1, <1>2, SessionFacts
<1>5. RedisTyped'
  BY <1>1, <1>2, <1>3, <1>4, SessionFacts DEF RedisTyped
<1>6. RedeemedOnce'  BY <1>1, SessionFacts DEF RedeemedOnce, Live
<1>7. \A g \in Families : Live(g)' => Live(g)  BY <1>1 DEF Live
<1>8. ASSUME NEW g \in Families, Usable(g)'
      PROVE  \/ Usable(g) /\ stamp'[g] = stamp[g]
             \/ g \in index' /\ stamp'[g] = era
  <2>1. CASE g = f  BY <1>1, <1>4, <2>1
  <2>2. CASE g # f
    <3>1. \A n \in Secrets : <<g, n>> \in cookies' => <<g, n>> \in cookies
      BY <1>1, <2>2
    <3> QED  BY <1>4, <1>7, <1>8, <2>2, <3>1 DEF Usable
  <2> QED  BY <2>1, <2>2
<1>9. \A d \in Calls : job[d].op = "sweep" => index' \subseteq index \cup raced'
  BY <1>1 DEF Sweeping
<1>10. call'[c].pc = "done" /\ \A d \in Calls \ {c} : call'[d] = call[d]
  BY <1>1, SessionFacts, Finishes
<1>11. JobSound(c, job[c])'  BY <1>3, <1>10, IdleRow DEF JobSound
<1>12. \A d \in Calls : \/ job'[d] = job[d] /\ call'[d] = call[d]
                        \/ JobSound(d, job[d])'
  BY <1>3, <1>10, <1>11
<1>13. cookies \subseteq cookies' /\ raced \subseteq raced' /\ index \subseteq index'
       /\ closed' = closed /\ era' = era
  BY <1>1
<1> QED  BY <1>5, <1>6, <1>7, <1>8, <1>9, <1>12, <1>13, SessionsKept

LEMMA OpenSessionKeeps ==
    ASSUME Mailed, Kept, NEW c \in Calls, NEW f \in Families, OpenSession(c, f)
    PROVE  Kept'
<1> DEFINE x == [Idle EXCEPT !.op = "issue", !.pc = "add", !.f = f]
<1>1. /\ job[c] = Idle /\ Fresh(f)
      /\ family' = [family EXCEPT ![f] = 0]
      /\ job' = [job EXCEPT ![c] = x]
      /\ UNCHANGED <<index, cookies, redeemed, burned, raced, closed, era, stamp>>
      /\ To(c, call[c].op, "session")
  BY DEF OpenSession, IssueFamily, NoRows, rowVars
<1>2. x \in JobRows /\ x.op = "issue" /\ x.f = f  BY DEF JobRows, Idle
<1> HIDE DEF x
<1>3. /\ job' \in [Calls -> JobRows] /\ job'[c] = x
      /\ \A d \in Calls \ {c} : job'[d] = job[d]
  BY <1>1, <1>2, SessionFacts, JobWrites
<1>4. /\ family' \in [Families -> Secrets \cup {None}] /\ family'[f] = 0
      /\ \A g \in Families : g # f => family'[g] = family[g]
  BY <1>1, SessionFacts
<1>5. RedisTyped'  BY <1>1, <1>3, <1>4, SessionFacts DEF RedisTyped
<1>6. f \notin burned /\ \A n \in Secrets : <<f, n>> \notin cookies
  BY <1>1 DEF Fresh
<1>7. RedeemedOnce'
  <2> SUFFICES ASSUME NEW g \in Families, Live(g)'
               PROVE  /\ g \notin burned
                      /\ \A n \in Secrets : <<g, n>> \in redeemed => n < family'[g]
    BY <1>1 DEF RedeemedOnce
  <2>1. CASE g = f  BY <1>6, <2>1, SessionFacts
  <2>2. CASE g # f  BY <1>4, <2>2, SessionFacts DEF RedeemedOnce, Live
  <2> QED  BY <2>1, <2>2
<1>8. \A g \in Families : Usable(g)' => Usable(g)
  BY <1>1, <1>4, <1>6 DEF Usable, Live
<1>9. \A g \in Families : Live(g)' => Live(g) \/ \A d \in Calls : g \notin job[d].seen
  BY <1>1, <1>4 DEF Live, Fresh
<1>10. call[c].op \in Requests /\ "session" \in Places
  BY SessionFacts DEF CallRows, Places
<1>11. call'[c].pc = "session" /\ \A d \in Calls \ {c} : call'[d] = call[d]
  BY <1>1, <1>10, SessionFacts, GoesTo
<1>12. JobSound(c, job[c])'  BY <1>2, <1>3, <1>11 DEF JobSound
<1>13. \A d \in Calls : \/ job'[d] = job[d] /\ call'[d] = call[d]
                        \/ JobSound(d, job[d])'
  BY <1>3, <1>11, <1>12
<1>14. cookies \subseteq cookies' /\ raced \subseteq raced' /\ index' = index
       /\ closed' = closed /\ era' = era /\ stamp' = stamp
  BY <1>1
<1> QED  BY <1>5, <1>7, <1>8, <1>9, <1>13, <1>14, SessionsKept

LEMMA BeginSweepKeeps ==
    ASSUME Mailed, Kept, NEW c \in Calls, BeginSweep(c)
    PROVE  Kept'
<1> DEFINE x == [Idle EXCEPT !.op = "sweep", !.pc = "families", !.seen = index]
<1>1. /\ job' = [job EXCEPT ![c] = x]
      /\ UNCHANGED <<family, index, cookies, redeemed, burned, raced, closed, era, stamp>>
      /\ To(c, call[c].op, "swept families")
  BY DEF BeginSweep, SweepRead, NoRows, rowVars
<1>2. x \in JobRows /\ x.op = "sweep" /\ x.pc = "families" /\ x.seen = index
  <2>1. index \in SUBSET Families  BY SessionFacts
  <2> QED  BY <2>1 DEF JobRows, Idle
<1> HIDE DEF x
<1>3. /\ job' \in [Calls -> JobRows] /\ job'[c] = x
      /\ \A d \in Calls \ {c} : job'[d] = job[d]
  BY <1>1, <1>2, SessionFacts, JobWrites
<1>4. RedisTyped'  BY <1>1, <1>3, SessionFacts DEF RedisTyped
<1>5. RedeemedOnce'  BY <1>1, SessionFacts DEF RedeemedOnce, Live
<1>6. \A g \in Families : (Usable(g)' <=> Usable(g)) /\ (Live(g)' <=> Live(g))
  BY <1>1 DEF Usable, Live
<1>7. call[c].op \in Requests /\ "swept families" \in Places
  BY SessionFacts DEF CallRows, Places
<1>8. call'[c].pc = "swept families" /\ \A d \in Calls \ {c} : call'[d] = call[d]
  BY <1>1, <1>7, SessionFacts, GoesTo
<1>9. JobSound(c, job[c])'
  BY <1>1, <1>2, <1>3, <1>6, <1>8, SessionFacts DEF JobSound, EverySessionIndexed
<1>10. \A d \in Calls : \/ job'[d] = job[d] /\ call'[d] = call[d]
                        \/ JobSound(d, job[d])'
  BY <1>3, <1>8, <1>9
<1>11. cookies \subseteq cookies' /\ raced \subseteq raced' /\ index' = index
       /\ closed' = closed /\ era' = era /\ stamp' = stamp
  BY <1>1
<1> QED  BY <1>4, <1>5, <1>6, <1>10, <1>11, SessionsKept

LEMMA DeleteFamiliesKeeps ==
    ASSUME Mailed, Kept, NEW c \in Calls, DeleteFamilies(c)
    PROVE  Kept'
<1> DEFINE x == [job[c] EXCEPT !.pc = "index"]
<1>1. /\ job[c].op = "sweep" /\ call[c].pc = "swept families"
      /\ family' = [f \in Families |-> IF f \in job[c].seen THEN None ELSE family[f]]
      /\ job' = [job EXCEPT ![c] = x]
      /\ UNCHANGED <<index, cookies, redeemed, burned, raced, closed, era, stamp>>
      /\ To(c, call[c].op, "swept index")
  BY SessionFacts DEF DeleteFamilies, SweepFamilies, NoRows, rowVars
<1>2. x \in JobRows /\ x.op = "sweep" /\ x.pc = "index" /\ x.seen = job[c].seen
  BY <1>1, SessionFacts DEF JobRows
<1> HIDE DEF x
<1>3. /\ job' \in [Calls -> JobRows] /\ job'[c] = x
      /\ \A d \in Calls \ {c} : job'[d] = job[d]
  BY <1>1, <1>2, SessionFacts, JobWrites
<1>4. /\ family' \in [Families -> Secrets \cup {None}]
      /\ \A g \in Families : family'[g] = None \/ family'[g] = family[g]
      /\ \A g \in job[c].seen : family'[g] = None
  BY <1>1, SessionFacts
<1>5. RedisTyped'  BY <1>1, <1>3, <1>4, SessionFacts DEF RedisTyped
<1>6. RedeemedOnce'  BY <1>1, <1>4, SessionFacts DEF RedeemedOnce, Live
<1>7. \A g \in Families : (Usable(g)' => Usable(g)) /\ (Live(g)' => Live(g))
  BY <1>1, <1>4 DEF Usable, Live
<1>8. call[c].op \in Requests /\ "swept index" \in Places
  BY SessionFacts DEF CallRows, Places
<1>9. /\ call'[c].pc = "swept index" /\ call'[c].era = call[c].era
      /\ \A d \in Calls \ {c} : call'[d] = call[d]
  BY ZenonT(60), <1>1, <1>8, SessionFacts, GoesTo
<1>10. JobSound(c, job[c])'
  <2>1. JobSound(c, job[c])  BY SessionFacts
  <2> QED  BY <1>1, <1>2, <1>3, <1>4, <1>7, <1>9, <2>1 DEF JobSound, Live
<1>11. \A d \in Calls : \/ job'[d] = job[d] /\ call'[d] = call[d]
                        \/ JobSound(d, job[d])'
  BY <1>3, <1>9, <1>10
<1>12. cookies \subseteq cookies' /\ raced \subseteq raced' /\ index' = index
       /\ closed' = closed /\ era' = era /\ stamp' = stamp
  BY <1>1
<1> QED  BY <1>5, <1>6, <1>7, <1>11, <1>12, SessionsKept

LEMMA DropIndexKeeps ==
    ASSUME Mailed, Kept, NEW c \in Calls, DropIndex(c)
    PROVE  Kept'
<1>1. /\ job[c].op = "sweep" /\ job[c].pc = "index" /\ index' = {}
      /\ job' = [job EXCEPT ![c] = Idle]
      /\ UNCHANGED <<family, cookies, redeemed, burned, raced, era, stamp>>
      /\ closed' = IF call[c].era > closed THEN call[c].era ELSE closed
      /\ Finish(c)
  BY DEF DropIndex, SweepIndex, rowVars
<1>2. /\ job' \in [Calls -> JobRows] /\ job'[c] = Idle
      /\ \A d \in Calls \ {c} : job'[d] = job[d]
  BY <1>1, SessionFacts, IdleRow, JobWrites
<1>3. JobSound(c, job[c])  BY SessionFacts
<1>4. call[c].era \in Nat /\ call[c].era <= era  BY ErasSound
<1>5. RedisTyped'  BY <1>1, <1>2, <1>4, SessionFacts DEF RedisTyped
<1>6. RedeemedOnce'  BY <1>1, SessionFacts DEF RedeemedOnce, Live
<1>7. \A g \in Families : (Usable(g)' <=> Usable(g)) /\ (Live(g)' <=> Live(g))
  BY <1>1 DEF Usable, Live
<1>8. \A g \in index : g \in raced' \/ ~Usable(g)'
  <2> SUFFICES ASSUME NEW g \in index PROVE g \in raced \/ ~Usable(g)'
    BY <1>1
  <2>1. g \in Families  BY SessionFacts
  <2>2. g \in job[c].seen \cup raced /\ (g \in job[c].seen => ~Live(g))
    BY <1>1, <1>3 DEF JobSound
  <2>3. Usable(g)' => Live(g)  BY <1>7, <2>1 DEF Usable
  <2> QED  BY <2>2, <2>3
<1>9. SessionsDieWithSweep'
  <2> SUFFICES ASSUME NEW g \in Families, Usable(g)', stamp'[g] < closed'
               PROVE  g \in raced'
    BY DEF SessionsDieWithSweep
  <2>1. Usable(g) /\ Live(g) /\ stamp'[g] = stamp[g]  BY <1>1, <1>7 DEF Usable
  <2>2. CASE closed' = closed
    BY <1>1, <2>1, <2>2 DEF Kept, SessionsSound, SessionsDieWithSweep
  <2>3. CASE closed' = call[c].era
    BY <1>1, <1>3, <2>1, <2>3 DEF JobSound
  <2> QED  BY <1>1, <2>2, <2>3
<1>10. call'[c].pc = "done" /\ \A d \in Calls \ {c} : call'[d] = call[d]
  BY <1>1, SessionFacts, Finishes
<1>11. JobSound(c, job[c])'  BY <1>2, <1>10, IdleRow DEF JobSound
<1>12. \A d \in Calls : \/ job'[d] = job[d] /\ call'[d] = call[d]
                        \/ JobSound(d, job[d])'
  BY <1>2, <1>10, <1>11
<1>13. cookies \subseteq cookies' /\ raced \subseteq raced' /\ index' \subseteq index
       /\ era' = era /\ stamp' = stamp
  BY <1>1
<1> QED  BY <1>5, <1>6, <1>7, <1>8, <1>9, <1>12, <1>13, SessionsKept

LEMMA RefreshKeeps ==
    ASSUME Mailed, Kept, NEW c \in Calls, NEW f \in Families, NEW n \in Secrets,
           Refresh(c, f, n)
    PROVE  Kept'
<1>1. /\ job[c] = Idle /\ <<f, n>> \in cookies
      /\ UNCHANGED <<index, cookies, raced, closed, era, stamp>>
  BY DEF Refresh, Rotate, NoRows, rowVars
<1>2. "refresh" \in Requests /\ "check" \in Places /\ "done" \in Places
  BY DEF Requests, Places
<1>3. CASE family[f] = n
  <2> DEFINE x == [Idle EXCEPT !.op = "rotated", !.f = f, !.n = n + 1]
  <2>1. /\ n < MaxSecret /\ family' = [family EXCEPT ![f] = n + 1]
        /\ redeemed' = redeemed \cup {<<f, n>>} /\ UNCHANGED burned
        /\ job' = [job EXCEPT ![c] = x] /\ To(c, "refresh", "check")
    BY <1>3 DEF Refresh, Rotate
  <2>2. n + 1 \in Secrets /\ n \in Nat
    BY <2>1, RefreshAssumption DEF Secrets
  <2>3. x \in JobRows /\ x.op = "rotated" /\ x.f = f
    BY <2>2 DEF JobRows, Idle
  <2> HIDE DEF x
  <2>4. /\ job' \in [Calls -> JobRows] /\ job'[c] = x
        /\ \A d \in Calls \ {c} : job'[d] = job[d]
    BY <2>1, <2>3, SessionFacts, JobWrites
  <2>5. /\ family' \in [Families -> Secrets \cup {None}] /\ family'[f] = n + 1
        /\ \A g \in Families : g # f => family'[g] = family[g]
    BY <2>1, <2>2, SessionFacts
  <2>6. Live(f)  BY <1>3, SessionFacts DEF Live
  <2>7. RedisTyped'
    BY <1>1, <2>1, <2>4, <2>5, SessionFacts DEF RedisTyped
  <2>8. RedeemedOnce'
    <3> SUFFICES ASSUME NEW g \in Families, Live(g)'
                 PROVE  /\ g \notin burned
                        /\ \A m \in Secrets : <<g, m>> \in redeemed' => m < family'[g]
      BY <2>1 DEF RedeemedOnce
    <3>1. CASE g = f
      <4>1. f \notin burned /\ \A m \in Secrets : <<f, m>> \in redeemed => m < n
        BY <1>3, <2>6, SessionFacts DEF RedeemedOnce
      <4>2. ASSUME NEW m \in Secrets, <<f, m>> \in redeemed' PROVE m < n + 1
        <5>1. m = n \/ <<f, m>> \in redeemed  BY <2>1, <4>2
        <5>2. m \in Nat  BY RefreshAssumption DEF Secrets
        <5>3. m = n \/ m < n  BY <4>1, <5>1
        <5> QED  BY <2>2, <5>2, <5>3
      <4> QED  BY <2>5, <3>1, <4>1, <4>2
    <3>2. CASE g # f
      <4>1. Live(g) /\ family'[g] = family[g]  BY <2>5, <3>2 DEF Live
      <4>2. \A m \in Secrets : <<g, m>> \in redeemed' => <<g, m>> \in redeemed
        BY <2>1, <3>2
      <4> QED  BY <4>1, <4>2, SessionFacts DEF RedeemedOnce
    <3> QED  BY <3>1, <3>2
  <2>9. \A g \in Families : (Usable(g)' => Usable(g)) /\ (Live(g)' => Live(g))
    BY <1>1, <2>5, <2>6 DEF Usable, Live
  <2>10. call'[c].pc = "check" /\ \A d \in Calls \ {c} : call'[d] = call[d]
    BY <1>2, <2>1, SessionFacts, GoesTo
  <2>11. Presented(f)'  BY <1>1 DEF Presented
  <2>12. JobSound(c, job[c])'
    BY <2>3, <2>4, <2>10, <2>11 DEF JobSound, Presented
  <2>13. \A d \in Calls : \/ job'[d] = job[d] /\ call'[d] = call[d]
                          \/ JobSound(d, job[d])'
    BY <2>4, <2>10, <2>12
  <2>14. cookies \subseteq cookies' /\ raced \subseteq raced' /\ index' = index
         /\ closed' = closed /\ era' = era /\ stamp' = stamp
    BY <1>1
  <2> QED  BY <2>7, <2>8, <2>9, <2>13, <2>14, SessionsKept
<1>4. CASE family[f] # n
  <2>1. /\ family' = [family EXCEPT ![f] = None]
        /\ burned' = IF Live(f) THEN burned \cup {f} ELSE burned
        /\ UNCHANGED <<redeemed, job>> /\ To(c, "refresh", "done")
    BY <1>4 DEF Refresh, Rotate
  <2>2. /\ family' \in [Families -> Secrets \cup {None}] /\ family'[f] = None
        /\ \A g \in Families : g # f => family'[g] = family[g]
    BY <2>1, SessionFacts
  <2>3. RedisTyped'  BY <1>1, <2>1, <2>2, SessionFacts DEF RedisTyped
  <2>4. RedeemedOnce'  BY <2>1, <2>2, SessionFacts DEF RedeemedOnce, Live
  <2>5. \A g \in Families : (Usable(g)' => Usable(g)) /\ (Live(g)' => Live(g))
    BY <1>1, <2>2 DEF Usable, Live
  <2>6. call'[c].pc = "done" /\ \A d \in Calls \ {c} : call'[d] = call[d]
    BY <1>2, <2>1, SessionFacts, GoesTo
  <2>7. JobSound(c, job[c])'  BY <1>1, <2>1, <2>6, IdleRow DEF JobSound
  <2>8. \A d \in Calls : \/ job'[d] = job[d] /\ call'[d] = call[d]
                         \/ JobSound(d, job[d])'
    BY <2>1, <2>6, <2>7
  <2>9. cookies \subseteq cookies' /\ raced \subseteq raced' /\ index' = index
        /\ closed' = closed /\ era' = era /\ stamp' = stamp
    BY <1>1
  <2> QED  BY <2>3, <2>4, <2>5, <2>8, <2>9, SessionsKept
<1> QED  BY <1>3, <1>4

LEMMA RevokeReadKeeps ==
    ASSUME Mailed, Kept, NEW c \in Calls, NEW f \in Families, RevokeRead(c, f),
           UNCHANGED <<closed, era, stamp>>,
           call' \in [Calls -> CallRows], call'[c].pc = "revoke",
           \A d \in Calls \ {c} : call'[d] = call[d]
    PROVE  Kept'
<1> DEFINE x == [Idle EXCEPT !.op = "revoke", !.f = f,
                             !.seen = IF Live(f) THEN {f} ELSE {}]
<1>1. /\ job' = [job EXCEPT ![c] = x]
      /\ UNCHANGED <<family, index, cookies, redeemed, burned, raced>>
  BY DEF RevokeRead
<1>2. x \in JobRows /\ x.op = "revoke" /\ x.f = f /\ x.seen \subseteq {f}
  BY DEF JobRows, Idle
<1> HIDE DEF x
<1>3. /\ job' \in [Calls -> JobRows] /\ job'[c] = x
      /\ \A d \in Calls \ {c} : job'[d] = job[d]
  BY <1>1, <1>2, SessionFacts, JobWrites
<1>4. RedisTyped'  BY <1>1, <1>3, SessionFacts DEF RedisTyped
<1>5. RedeemedOnce'  BY <1>1, SessionFacts DEF RedeemedOnce, Live
<1>6. \A g \in Families : (Usable(g)' => Usable(g)) /\ (Live(g)' => Live(g))
  BY <1>1 DEF Usable, Live
<1>7. JobSound(c, job[c])'  BY <1>2, <1>3 DEF JobSound
<1>8. \A d \in Calls : \/ job'[d] = job[d] /\ call'[d] = call[d]
                       \/ JobSound(d, job[d])'
  BY <1>3, <1>7
<1>9. cookies \subseteq cookies' /\ raced \subseteq raced' /\ index' = index
      /\ closed' = closed /\ era' = era /\ stamp' = stamp
  BY <1>1
<1> QED  BY <1>4, <1>5, <1>6, <1>8, <1>9, SessionsKept

LEMMA RefreshCheckKeeps ==
    ASSUME Mailed, Kept, NEW c \in Calls, RefreshCheck(c)
    PROVE  Kept'
<1>1. /\ call[c].pc = "check" /\ UNCHANGED <<closed, era, stamp>>
      /\ \/ Deliver(c) /\ Finish(c)
         \/ RevokeRead(c, job[c].f) /\ To(c, "refresh", "revoke")
  BY DEF RefreshCheck, At, NoRows, rowVars
<1>2. /\ job[c].op = "rotated" /\ job[c].f \in Families /\ Presented(job[c].f)
  BY <1>1, SessionFacts DEF JobSound
<1>3. CASE Deliver(c) /\ Finish(c)
  <2> DEFINE f == job[c].f
             n == job[c].n
  <2>1. /\ cookies' = cookies \cup {<<f, n>>} /\ job' = [job EXCEPT ![c] = Idle]
        /\ UNCHANGED <<family, index, redeemed, burned, raced>>
    BY <1>3 DEF Deliver
  <2>2. f \in Families /\ Presented(f)  BY <1>2
  <2> HIDE DEF f, n
  <2>3. /\ job' \in [Calls -> JobRows] /\ job'[c] = Idle
        /\ \A d \in Calls \ {c} : job'[d] = job[d]
    BY <2>1, SessionFacts, IdleRow, JobWrites
  <2>4. RedisTyped'  BY <1>1, <2>1, <2>3, SessionFacts DEF RedisTyped
  <2>5. RedeemedOnce'  BY <2>1, SessionFacts DEF RedeemedOnce, Live
  <2>6. \A g \in Families : Live(g)' => Live(g)  BY <2>1 DEF Live
  <2>7. ASSUME NEW g \in Families, Usable(g)' PROVE Usable(g)
    <3>1. CASE g = f  BY <2>2, <2>6, <2>7, <3>1 DEF Usable, Presented
    <3>2. CASE g # f
      <4>1. \A m \in Secrets : <<g, m>> \in cookies' => <<g, m>> \in cookies
        BY <2>1, <3>2
      <4> QED  BY <2>6, <2>7, <4>1 DEF Usable
    <3> QED  BY <3>1, <3>2
  <2>8. call'[c].pc = "done" /\ \A d \in Calls \ {c} : call'[d] = call[d]
    BY <1>3, SessionFacts, Finishes
  <2>9. JobSound(c, job[c])'  BY <2>3, <2>8, IdleRow DEF JobSound
  <2>10. \A d \in Calls : \/ job'[d] = job[d] /\ call'[d] = call[d]
                          \/ JobSound(d, job[d])'
    BY <2>3, <2>8, <2>9
  <2>11. cookies \subseteq cookies' /\ raced \subseteq raced' /\ index' = index
         /\ closed' = closed /\ era' = era /\ stamp' = stamp
    BY <1>1, <2>1
  <2> QED  BY <2>4, <2>5, <2>6, <2>7, <2>10, <2>11, SessionsKept
<1>4. CASE RevokeRead(c, job[c].f) /\ To(c, "refresh", "revoke")
  <2>1. "refresh" \in Requests /\ "revoke" \in Places  BY DEF Requests, Places
  <2>2. /\ call' \in [Calls -> CallRows] /\ call'[c].pc = "revoke"
        /\ \A d \in Calls \ {c} : call'[d] = call[d]
    BY <1>4, <2>1, SessionFacts, GoesTo
  <2> QED  BY <1>1, <1>2, <1>4, <2>2, RevokeReadKeeps
<1> QED  BY <1>1, <1>3, <1>4

LEMMA LogoutKeeps ==
    ASSUME Mailed, Kept, NEW c \in Calls, NEW f \in Families, Logout(c, f)
    PROVE  Kept'
<1>1. /\ RevokeRead(c, f) /\ To(c, "logout", "revoke")
      /\ UNCHANGED <<closed, era, stamp>>
  BY DEF Logout, NoRows, rowVars
<1>2. "logout" \in Requests /\ "revoke" \in Places  BY DEF Requests, Places
<1>3. /\ call' \in [Calls -> CallRows] /\ call'[c].pc = "revoke"
      /\ \A d \in Calls \ {c} : call'[d] = call[d]
  BY <1>1, <1>2, SessionFacts, GoesTo
<1> QED  BY <1>1, <1>3, RevokeReadKeeps

(* A call ends, with families deleted or not.                              *)
LEMMA EndingKeeps ==
    ASSUME Mailed, Kept, NEW c \in Calls, Finish(c),
           job' = [job EXCEPT ![c] = Idle],
           \A g \in Families : family'[g] \in {None, family[g]},
           family' \in [Families -> Secrets \cup {None}],
           index' \subseteq index, \A g \in index \ index' : ~Live(g)',
           UNCHANGED <<cookies, redeemed, burned, raced, closed, era, stamp>>
    PROVE  Kept'
<1>1. /\ job' \in [Calls -> JobRows] /\ job'[c] = Idle
      /\ \A d \in Calls \ {c} : job'[d] = job[d]
  BY SessionFacts, IdleRow, JobWrites
<1>2. RedisTyped'  BY <1>1, SessionFacts DEF RedisTyped
<1>3. RedeemedOnce'  BY SessionFacts DEF RedeemedOnce, Live
<1>4. \A g \in Families : (Usable(g)' => Usable(g)) /\ (Live(g)' => Live(g))
  BY DEF Usable, Live
<1>5. \A g \in index : g \in index' \/ ~Usable(g)'  BY DEF Usable
<1>6. call'[c].pc = "done" /\ \A d \in Calls \ {c} : call'[d] = call[d]
  BY SessionFacts, Finishes
<1>7. JobSound(c, job[c])'  BY <1>1, <1>6, IdleRow DEF JobSound
<1>8. \A d \in Calls : \/ job'[d] = job[d] /\ call'[d] = call[d]
                       \/ JobSound(d, job[d])'
  BY <1>1, <1>6, <1>7
<1>9. cookies \subseteq cookies' /\ raced \subseteq raced' /\ closed' = closed
      /\ era' = era /\ stamp' = stamp
  OBVIOUS
<1> QED  BY <1>2, <1>3, <1>4, <1>5, <1>8, <1>9, SessionsKept

LEMMA RevokeKeeps ==
    ASSUME Mailed, Kept, NEW c \in Calls, Revoke(c)
    PROVE  Kept'
<1> DEFINE f == job[c].f
<1>1. /\ job[c].op = "revoke" /\ family' = [family EXCEPT ![f] = None]
      /\ index' = index \ job[c].seen /\ job' = [job EXCEPT ![c] = Idle]
      /\ UNCHANGED <<cookies, redeemed, burned, raced, closed, era, stamp>>
      /\ Finish(c)
  BY DEF Revoke, RevokeDelete, NoRows, rowVars
<1>2. f \in Families /\ job[c].seen \subseteq {f}
  BY <1>1, SessionFacts DEF JobSound
<1> HIDE DEF f
<1>3. /\ \A g \in Families : family'[g] \in {None, family[g]}
      /\ family' \in [Families -> Secrets \cup {None}] /\ family'[f] = None
  BY <1>1, <1>2, SessionFacts
<1>4. \A g \in index \ index' : ~Live(g)'  BY <1>1, <1>2, <1>3 DEF Live
<1>5. index' \subseteq index  BY <1>1
<1> QED  BY <1>1, <1>3, <1>4, <1>5, EndingKeeps

LEMMA DieKeeps ==
    ASSUME Mailed, Kept, NEW c \in Calls, Die(c)
    PROVE  Kept'
<1>1. /\ Finish(c) /\ UNCHANGED <<closed, era, stamp>>
      /\ Abandon(c) \/ (job[c].op = "none" /\ UNCHANGED redisVars)
  BY DEF Die, rowVars
<1>2. CASE Abandon(c)
  BY <1>1, <1>2, SessionFacts, EndingKeeps DEF Abandon
<1>3. CASE job[c].op = "none" /\ UNCHANGED redisVars
  <2>1. call'[c].pc = "done" /\ \A d \in Calls \ {c} : call'[d] = call[d]
    BY <1>1, SessionFacts, Finishes
  <2>2. \A d \in Calls : \/ call'[d] = call[d]
                         \/ job[d].op # "sweep" /\ call'[d].pc # "check"
    BY <1>3, <2>1
  <2>3. era' \in Nat /\ era <= era'  BY <1>1, SessionFacts
  <2> QED  BY <1>1, <1>3, <2>2, <2>3, Still
<1> QED  BY <1>1, <1>2, <1>3

LEMMA ExpiryKeeps ==
    ASSUME Mailed, Kept, NEW f \in Families, SessionExpires(f)
    PROVE  Kept'
<1>1. /\ family' = [family EXCEPT ![f] = None]
      /\ UNCHANGED <<index, job, cookies, redeemed, burned, raced, closed, era, stamp, call>>
  BY DEF SessionExpires, Expire, rowVars
<1>2. /\ family' \in [Families -> Secrets \cup {None}]
      /\ \A g \in Families : family'[g] \in {None, family[g]}
  BY <1>1, SessionFacts
<1>3. RedisTyped'  BY <1>1, <1>2, SessionFacts DEF RedisTyped
<1>4. RedeemedOnce'  BY <1>1, <1>2, SessionFacts DEF RedeemedOnce, Live
<1>5. \A g \in Families : (Usable(g)' => Usable(g)) /\ (Live(g)' => Live(g))
  BY <1>1, <1>2 DEF Usable, Live
<1> QED  BY <1>1, <1>3, <1>4, <1>5, SessionsKept

LEMMA KeptStarts == Init => Kept
<1> SUFFICES ASSUME Init PROVE Kept  OBVIOUS
<1>1. /\ family = [f \in Families |-> None] /\ index = {} /\ cookies = {}
      /\ job = [c \in Calls |-> Idle] /\ redeemed = {} /\ raced = {}
      /\ call = [c \in Calls |-> NewCall] /\ era = 0 /\ closed = 0
      /\ stamp = [f \in Families |-> 0]
  BY DEF Init, SessionsInit
<1>2. RedisTyped  BY <1>1, IdleRow DEF RedisTyped
<1>3. \A f \in Families : ~Live(f) /\ ~Usable(f)  BY <1>1 DEF Live, Usable
<1>4. SessionsSound
  BY <1>3 DEF SessionsSound, RedeemedOnce, EverySessionIndexed, SessionsDieWithSweep
<1>5. \A c \in Calls : JobSound(c, job[c])
  BY <1>1, IdleRow DEF JobSound, NewCall
<1> QED  BY <1>2, <1>4, <1>5 DEF Kept

LEMMA KeptKept == Mailed /\ Kept /\ [Next]_vars => Kept'
<1> SUFFICES ASSUME Mailed, Kept, [Next]_vars PROVE Kept'  OBVIOUS
<1>1. Mailed'  BY MailedKept
<1>2. ASSUME NEW c \in Calls, Step(c) PROVE Kept'
  BY <1>1, <1>2, RowsAlone, HandOutKeeps, OpenSessionKeeps, BeginSweepKeeps,
     DeleteFamiliesKeeps, DropIndexKeeps, RefreshKeeps, RefreshCheckKeeps,
     LogoutKeeps, RevokeKeeps, DieKeeps DEF Step
<1>3. ASSUME UNCHANGED <<redisVars, stamp, closed, era, call>> PROVE Kept'
  <2>1. era' \in Nat /\ era <= era'  BY <1>3, SessionFacts
  <2>2. \A d \in Calls : call'[d] = call[d]  BY <1>3
  <2> QED  BY <1>3, <2>1, <2>2, Still
<1>4. CASE Unblock \/ (\E t \in Tokens : ExpireToken(t)) \/ UNCHANGED vars
  BY <1>3, <1>4 DEF Unblock, ExpireToken, NoRedis, rowVars, vars
<1>5. CASE \E f \in Families : SessionExpires(f)  BY <1>5, ExpiryKeeps
<1> QED  BY <1>2, <1>4, <1>5 DEF Next

(* Whatever requests race and whichever command fails, a refresh cookie    *)
(* rotates once and kills its family when it is shown again, every session *)
(* a browser can use is in the index or was indexed during a sweep, and    *)
(* once a reset or a block is answered no older session is left but those  *)
(* (rotate-refresh-token.lua, RefreshTokenService.revokeAllForUser).       *)
THEOREM SessionsAlwaysSound == Spec => []SessionsSound
<1>1. Init => Mailed /\ Kept  BY MailedStarts, KeptStarts
<1>2. Mailed /\ Kept /\ [Next]_vars => (Mailed /\ Kept)'  BY MailedKept, KeptKept
<1>3. Mailed /\ Kept => SessionsSound  BY DEF Kept
<1> QED  BY <1>1, <1>2, <1>3, PTL DEF Spec
=============================================================================
