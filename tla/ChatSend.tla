------------------------------ MODULE ChatSend ------------------------------
(***************************************************************************)
(* POST /chat/messages: one student's messages to Engy.  A unit of the     *)
(* monthly quota is spent, the clientMessageId is claimed in Redis (SET NX *)
(* EX), a chain of Gemini models is called, the reply is stored in the     *)
(* claim for later replays and the exchange is appended to the session.    *)
(*                                                                         *)
(* Time is counted in CHAT_REPLY_TIMEOUT_MS.  Redis and database calls and *)
(* the second a duplicate polls take none; a model's answer may.           *)
(***************************************************************************)
EXTENDS Integers, Sequences, FiniteSets

CONSTANTS Sends,               \* the requests, each made once
          Ids,                 \* clientMessageIds
          FREE, PRO,           \* the aiQuery limits of USAGE_QUOTA_CONFIG
          CLAIM_POLL_ATTEMPTS,
          MODELS,              \* the length of the Gemini model chain
          ATTEMPT_TIMEOUT,     \* what one model is given to answer
          STREAM_TIME,         \* bound on a streamed body (the code has none)
          PENDING_TTL,         \* pendingClaimTtlSeconds
          MAX_EXCHANGES,       \* MAX_CHAT_TURNS / 2
          None

Months == {0, 1}

ASSUME ChatAssumption ==
    /\ FREE \in Nat \ {0} /\ PRO \in Nat /\ FREE <= PRO
    /\ CLAIM_POLL_ATTEMPTS \in Nat \ {0} /\ MODELS \in Nat \ {0}
    /\ ATTEMPT_TIMEOUT \in Nat /\ STREAM_TIME \in Nat
    /\ PENDING_TTL \in Nat \ {0}
    /\ MAX_EXCHANGES \in Nat \ {0}
    /\ None \notin Sends \cup Ids \cup Months

VARIABLES month,
          isPro,      \* the student's PRO_MONTHLY subscription has not expired
          used,       \* UsageCounter.count of each month
          claim,      \* chat:claim:<id>: the send that set it, the TTL left
          session,    \* chat:session: the sends whose exchange it holds
          send,       \* the requests
          answers,    \* history: the sends whose reply an id was answered with
          unwound,    \* history: the ids whose stored reply was dropped again
          outlived    \* history: the ids whose claim ran out under its call

vars == <<month, isPro, used, claim, session, send, answers, unwound, outlived>>

NoClaim == [status |-> "none", by |-> None, left |-> 0]
NewSend == [pc |-> "new", id |-> None, limit |-> 0, paidIn |-> None, polls |-> 0,
            model |-> 0, left |-> 0, aborted |-> FALSE]

Present(id) == claim[id].status # "none"

(* The request has the claim, and calls or is about to call Gemini.        *)
Owning == {"history", "calling", "streaming", "commit", "append", "release"}
Owner(s) == send[s].pc \in Owning

Init ==
    /\ month = 0 /\ isPro \in BOOLEAN
    /\ used = [m \in Months |-> 0]
    /\ claim = [id \in Ids |-> NoClaim]
    /\ session = <<>>
    /\ send = [s \in Sends |-> NewSend]
    /\ answers = {} /\ unwound = {} /\ outlived = {}
-----------------------------------------------------------------------------
Goto(s, pc) ==
    send' = [send EXCEPT ![s] = [@ EXCEPT !.pc = pc, !.polls = 0, !.model = 0,
                                          !.left = 0, !.aborted = FALSE]]
OnlySend    == UNCHANGED <<month, isPro, used, claim, session, answers, unwound, outlived>>

(* getProStatusAndTimeZone: the limit is known before it is applied.       *)
Receive(s, id) ==
    /\ send[s].pc = "new"
    /\ send' = [send EXCEPT ![s].pc = "quota", ![s].id = id,
                            ![s].limit = IF isPro THEN PRO ELSE FREE]
    /\ OnlySend

(* Mutant: the counter is read first and incremented whatever it is by then. *)
SpendUnguarded(s) ==
    /\ send[s].pc = "quota"
    /\ used' = [used EXCEPT ![month] = @ + 1]
    /\ send' = [send EXCEPT ![s].pc = "prepare", ![s].paidIn = month]
    /\ UNCHANGED <<month, isPro, claim, session, answers, unwound, outlived>>

(* INSERT ... ON CONFLICT DO UPDATE ... WHERE count < limit RETURNING.     *)
Spend(s) ==
    /\ send[s].pc = "quota"
    /\ used[month] < send[s].limit
    /\ used' = [used EXCEPT ![month] = @ + 1]
    /\ send' = [send EXCEPT ![s].pc = "prepare", ![s].paidIn = month]
    /\ UNCHANGED <<month, isPro, claim, session, answers, unwound, outlived>>

QuotaExceeded(s) ==
    /\ send[s].pc = "quota"
    /\ used[month] >= send[s].limit
    /\ Goto(s, "failed") /\ OnlySend

(* A placement attempt in progress, a context that is not the student's,   *)
(* or no Redis: an error status.  A claim already taken stays behind.      *)
Refuse(s) ==
    /\ send[s].pc \in {"prepare", "polling", "history"}
    /\ Goto(s, "failed") /\ OnlySend

(* Mutant: SET without NX. *)
ClaimAgain(s) ==
    /\ send[s].pc = "prepare"
    /\ claim' = [claim EXCEPT ![send[s].id] =
                   [status |-> "pending", by |-> s, left |-> PENDING_TTL]]
    /\ Goto(s, "history")
    /\ UNCHANGED <<month, isPro, used, session, answers, unwound, outlived>>

Claim(s) ==
    /\ send[s].pc = "prepare"
    /\ ~Present(send[s].id)
    /\ claim' = [claim EXCEPT ![send[s].id] =
                   [status |-> "pending", by |-> s, left |-> PENDING_TTL]]
    /\ Goto(s, "history")
    /\ UNCHANGED <<month, isPro, used, session, answers, unwound, outlived>>

LoseClaim(s) ==
    /\ send[s].pc = "prepare"
    /\ Present(send[s].id)
    /\ Goto(s, "polling") /\ OnlySend

(* Mutant: the poll loop has no budget. *)
PollForever(s) ==
    LET c == claim[send[s].id]
    IN  /\ send[s].pc = "polling"
        /\ \/ /\ Present(send[s].id) /\ c.status = "done"
              /\ Goto(s, "answered")
              /\ answers' = answers \cup {<<send[s].id, c.by>>}
           \/ /\ ~Present(send[s].id)
              /\ Goto(s, "failed") /\ UNCHANGED answers
           \/ /\ Present(send[s].id) /\ c.status = "pending"
              /\ UNCHANGED <<send, answers>>
        /\ UNCHANGED <<month, isPro, used, claim, session, unwound, outlived>>

(* One poll: the stored reply is replayed; a claim that vanished, or is    *)
(* still pending on the last poll, is a 409.                               *)
Poll(s) ==
    LET c == claim[send[s].id]
    IN  /\ send[s].pc = "polling"
        /\ \/ /\ Present(send[s].id) /\ c.status = "done"
              /\ Goto(s, "answered")
              /\ answers' = answers \cup {<<send[s].id, c.by>>}
           \/ /\ ~Present(send[s].id)
              /\ Goto(s, "failed") /\ UNCHANGED answers
           \/ /\ Present(send[s].id) /\ c.status = "pending"
              /\ send' = [send EXCEPT ![s].polls = @ + 1,
                            ![s].pc = IF send[s].polls + 1 = CLAIM_POLL_ATTEMPTS
                                      THEN "failed" ELSE "polling"]
              /\ UNCHANGED answers
        /\ UNCHANGED <<month, isPro, used, claim, session, unwound, outlived>>

(* getTurns, the SSE headers, and the first model of the chain.            *)
Call(s) ==
    /\ send[s].pc = "history"
    /\ send' = [send EXCEPT ![s].pc = "calling", ![s].model = 1,
                            ![s].left = ATTEMPT_TIMEOUT]
    /\ OnlySend

(* 429, 503 or a timeout: the next model gets a timeout of its own.        *)
NextModel(s) ==
    /\ send[s].pc = "calling" /\ ~send[s].aborted
    /\ send[s].model < MODELS
    /\ send' = [send EXCEPT ![s].model = @ + 1, ![s].left = ATTEMPT_TIMEOUT]
    /\ OnlySend

(* The headers are in: the attempt's timer is cleared, the body streams.   *)
Headers(s) ==
    /\ send[s].pc = "calling" /\ ~send[s].aborted
    /\ send' = [send EXCEPT ![s].pc = "streaming", ![s].left = STREAM_TIME]
    /\ OnlySend

Reply(s) ==
    /\ send[s].pc = "streaming" /\ ~send[s].aborted
    /\ Goto(s, "commit") /\ OnlySend

(* Any error of the provider, an abort, or Redis failing on the way out.   *)
Fail(s) ==
    /\ send[s].pc \in {"calling", "streaming", "commit", "append"}
    /\ Goto(s, "release") /\ OnlySend

(* Mutant: the claim is dropped once the reply is there. *)
CommitByRelease(s) ==
    /\ send[s].pc = "commit"
    /\ claim' = [claim EXCEPT ![send[s].id] = NoClaim]
    /\ Goto(s, "append")
    /\ UNCHANGED <<month, isPro, used, session, answers, unwound, outlived>>

(* The claim becomes the stored reply, whoever's claim it is by now.  (It  *)
(* is kept for CHAT_SESSION_TTL_SECONDS, half an hour: not modelled.)      *)
Commit(s) ==
    /\ send[s].pc = "commit"
    /\ claim' = [claim EXCEPT ![send[s].id] =
                   [status |-> "done", by |-> s, left |-> 0]]
    /\ Goto(s, "append")
    /\ UNCHANGED <<month, isPro, used, session, answers, unwound, outlived>>

(* append-chat-turn.lua: one EVAL, the oldest exchange dropped beyond MAX. *)
Extended(s) ==
    IF Len(session) < MAX_EXCHANGES THEN Append(session, s)
    ELSE Append(Tail(session), s)

AppendTurn(s) ==
    /\ send[s].pc = "append"
    /\ session' = Extended(s)
    /\ answers' = answers \cup {<<send[s].id, s>>}
    /\ Goto(s, "answered")
    /\ UNCHANGED <<month, isPro, used, claim, unwound, outlived>>

(* DEL, whoever's key it is and whatever it holds; best effort.            *)
Release(s) ==
    LET id == send[s].id
    IN  /\ send[s].pc = "release"
        /\ \/ /\ claim' = [claim EXCEPT ![id] = NoClaim]
              /\ unwound' = IF claim[id].status = "done" THEN unwound \cup {id}
                            ELSE unwound
           \/ UNCHANGED <<claim, unwound>>
        /\ Goto(s, "failed")
        /\ UNCHANGED <<month, isPro, used, session, answers, outlived>>

(* The client goes away while its reply is awaited.  Before the 'close'    *)
(* listener is attached, and once the reply is complete, nobody notices.   *)
Disconnect(s) ==
    /\ send[s].pc \in {"calling", "streaming"}
    /\ ~send[s].aborted
    /\ send' = [send EXCEPT ![s].aborted = TRUE]
    /\ OnlySend

ServerDies(s) ==
    /\ send[s].pc \notin {"new", "answered", "failed"}
    /\ Goto(s, "failed") /\ OnlySend

(* DELETE /chat/session, or thirty idle minutes. *)
ClearSession ==
    /\ session' = <<>>
    /\ UNCHANGED <<month, isPro, used, claim, send, answers, unwound, outlived>>

ProChanges ==
    /\ isPro' = ~isPro
    /\ UNCHANGED <<month, used, claim, session, send, answers, unwound, outlived>>

NewMonth ==
    /\ month = 0 /\ month' = 1
    /\ UNCHANGED <<isPro, used, claim, session, send, answers, unwound, outlived>>

(* The pending claim runs out now, and a request still works on its call.  *)
Outlives(id) ==
    /\ claim[id].status = "pending" /\ claim[id].left = 1
    /\ \E s \in Sends : Owner(s) /\ send[s].id = id

(* Time passes only while models think or bodies stream, and no further    *)
(* than their timers let it; a claim whose TTL runs out is gone, also      *)
(* under the request that set it.                                          *)
Tick ==
    /\ \A s \in Sends :
          \/ send[s].pc \in {"new", "answered", "failed"}
          \/ send[s].pc \in {"calling", "streaming"} /\ send[s].left > 0
    /\ send' = [s \in Sends |-> [send[s] EXCEPT !.left = IF @ > 0 THEN @ - 1 ELSE 0]]
    /\ claim' = [id \in Ids |->
                    IF claim[id].status # "pending" THEN claim[id]
                    ELSE IF claim[id].left = 1 THEN NoClaim
                    ELSE [claim[id] EXCEPT !.left = @ - 1]]
    /\ outlived' = outlived \cup {id \in Ids : Outlives(id)}
    /\ UNCHANGED <<month, isPro, used, session, answers, unwound>>

SendStep(s) ==
    \/ Spend(s) \/ QuotaExceeded(s) \/ Claim(s) \/ LoseClaim(s) \/ Poll(s)
    \/ Call(s) \/ NextModel(s) \/ Headers(s) \/ Reply(s) \/ Fail(s)
    \/ Commit(s) \/ AppendTurn(s) \/ Release(s)

Next ==
    \/ \E s \in Sends : SendStep(s) \/ Refuse(s) \/ Disconnect(s) \/ ServerDies(s)
    \/ \E s \in Sends, id \in Ids : Receive(s, id)
    \/ ClearSession \/ ProChanges \/ NewMonth \/ Tick

Spec == Init /\ [][Next]_vars

(* A request that can go on does: the event loop resumes it, and a model   *)
(* that does not answer is timed out.  Nothing obliges it to be refused.   *)
FairSpec == Spec /\ \A s \in Sends : WF_vars(SendStep(s))
-----------------------------------------------------------------------------
SendType ==
    [pc : Owning \cup {"new", "quota", "prepare", "polling", "answered", "failed"},
     id : Ids \cup {None}, limit : {0, FREE, PRO}, paidIn : Months \cup {None},
     polls : 0 .. CLAIM_POLL_ATTEMPTS, model : 0 .. MODELS, left : Nat,
     aborted : BOOLEAN]

(* Every variable has its type, and the session its bound. *)
TypeOK ==
    /\ month \in Months /\ isPro \in BOOLEAN
    /\ used \in [Months -> Nat]
    /\ claim \in [Ids -> [status : {"none", "pending", "done"},
                          by : Sends \cup {None}, left : Nat]]
    /\ session \in Seq(Sends) /\ Len(session) <= MAX_EXCHANGES
    /\ send \in [Sends -> SendType]
    /\ answers \subseteq Ids \X Sends
    /\ unwound \subseteq Ids /\ outlived \subseteq Ids

(* A message is worked on by one request at a time: duplicates, retries,   *)
(* aborts, crashes and failing releases never lead to two Gemini calls at  *)
(* once for one clientMessageId.  Only a call that goes on when its own    *)
(* claim has run out (80 seconds at the defaults, which four models of 20  *)
(* seconds and an unbounded stream do reach) can meet a second one.        *)
OneOwner ==
    \A s, t \in Sends :
        Owner(s) /\ Owner(t) /\ send[s].id = send[t].id /\ send[s].id \notin outlived
            => s = t

(* A message appears in the conversation once, and everyone who sent it    *)
(* gets the same reply -- unless the append failed after the reply was     *)
(* stored, when the reply a duplicate may have been given is dropped, or   *)
(* the claim ran out under a call that then went on.                       *)
OneReplyPerMessage ==
    /\ \A i, j \in DOMAIN session :
          LET id == send[session[i]].id
          IN  send[session[j]].id = id /\ id \notin outlived => i = j
    /\ \A a, b \in answers :
          a[1] = b[1] /\ a[1] \notin unwound \cup outlived => a = b

(* One unit per accepted request and none per refused one, and no request  *)
(* is accepted beyond the limit it was read, however many arrive at the    *)
(* last unit, while the subscription lapses or the month turns.            *)
QuotaHolds ==
    \A m \in Months :
        LET paid == {s \in Sends : send[s].paidIn = m}
        IN  /\ used[m] = Cardinality(paid)
            /\ used[m] <= PRO
            /\ (\A s \in paid : send[s].limit = FREE) => used[m] <= FREE

(* Every request is answered or refused: a duplicate never waits beyond    *)
(* its poll budget, and the owner's chain of models ends.                  *)
EverySendEnds ==
    \A s \in Sends : send[s].pc # "new" ~> send[s].pc \in {"answered", "failed"}
=============================================================================
