--------------------------- MODULE ChatSendProofs ---------------------------
(***************************************************************************)
(* A message whose claim did not run out under its call has one request    *)
(* working on it and one reply, for any number of requests, messages,      *)
(* models and polls and any time to live of a claim.                       *)
(***************************************************************************)
EXTENDS ChatSend, FiniteSetTheorems, TLAPS

Pcs == Owning \cup {"new", "quota", "prepare", "polling", "answered", "failed"}

(* A request has its id, a call is at one of its models, a poll is within  *)
(* its budget.                                                             *)
Started(s) ==
    /\ send[s].pc # "new" => send[s].id \in Ids
    /\ send[s].pc = "polling" => send[s].polls < CLAIM_POLL_ATTEMPTS
    /\ send[s].pc = "calling" => send[s].model >= 1

(* A claim in Redis was set by a request, and a pending one has time left. *)
ClaimKept(id) ==
    /\ Present(id) => claim[id].by \in Sends
    /\ claim[id].status = "pending" => claim[id].left > 0

Shape == /\ TypeOK
         /\ \A s \in Sends : Started(s)
         /\ \A id \in Ids : ClaimKept(id)

-----------------------------------------------------------------------------
LEMMA SendTyped == ASSUME TypeOK, NEW s \in Sends PROVE send[s] \in SendType
BY DEF TypeOK

LEMMA MovedTyped ==
    ASSUME TypeOK, NEW s \in Sends, NEW new \in SendType,
           send' = [send EXCEPT ![s] = new]
    PROVE  /\ send' \in [Sends -> SendType]
           /\ send'[s] = new /\ \A r \in Sends \ {s} : send'[r] = send[r]
BY DEF TypeOK

LEMMA GotoTyped ==
    ASSUME TypeOK, NEW s \in Sends, NEW pc \in Pcs, Goto(s, pc)
    PROVE  /\ send' \in [Sends -> SendType]
           /\ send'[s].pc = pc /\ send'[s].id = send[s].id
           /\ send'[s].left = 0 /\ send'[s].polls = 0
           /\ \A r \in Sends \ {s} : send'[r] = send[r]
<1>1. send[s] \in SendType  BY SendTyped
<1> DEFINE new == [send[s] EXCEPT !.pc = pc, !.polls = 0, !.model = 0, !.left = 0,
                                  !.aborted = FALSE]
<1>2. 0 \in 0 .. CLAIM_POLL_ATTEMPTS /\ 0 \in 0 .. MODELS  BY ChatAssumption
<1>3. new \in SendType  BY <1>1, <1>2 DEF SendType, Pcs
<1>4. new.pc = pc /\ new.id = send[s].id /\ new.left = 0 /\ new.polls = 0
  BY <1>1 DEF SendType
<1>5. send' = [send EXCEPT ![s] = new]  BY <1>1 DEF Goto
<1> HIDE DEF new
<1>6. QED  BY <1>3, <1>4, <1>5, MovedTyped

(* A request that moves on keeps the requests in shape. *)
LEMMA GotoKeeps ==
    ASSUME Shape, NEW s \in Sends, NEW pc \in Pcs \ {"calling", "new"},
           send[s].pc # "new", Goto(s, pc)
    PROVE  /\ send' \in [Sends -> SendType]
           /\ \A r \in Sends : Started(r)'
<1>1. TypeOK /\ \A r \in Sends : Started(r)  BY DEF Shape
<1>2. /\ send' \in [Sends -> SendType]
      /\ send'[s].pc = pc /\ send'[s].id = send[s].id /\ send'[s].polls = 0
      /\ \A r \in Sends \ {s} : send'[r] = send[r]
  BY <1>1, GotoTyped
<1>3. Started(s)'  BY <1>1, <1>2, ChatAssumption DEF Started
<1>4. ASSUME NEW r \in Sends \ {s} PROVE Started(r)'
  BY <1>1, <1>2, <1>4 DEF Started
<1>5. QED  BY <1>2, <1>3, <1>4

LEMMA InitShape == Init => Shape
<1> SUFFICES ASSUME Init PROVE Shape  OBVIOUS
<1>1. NewSend \in SendType  BY ChatAssumption DEF NewSend, SendType, Months
<1>2. NoClaim \in [status : {"none", "pending", "done"}, by : Sends \cup {None},
                   left : Nat]
  BY DEF NoClaim
<1>3. session \in Seq(Sends) /\ Len(session) <= MAX_EXCHANGES
  BY ChatAssumption DEF Init
<1>4. TypeOK  BY <1>1, <1>2, <1>3 DEF Init, TypeOK, Months
<1>5. \A s \in Sends : Started(s)  BY DEF Init, Started, NewSend
<1>6. \A id \in Ids : ClaimKept(id)  BY DEF Init, ClaimKept, Present, NoClaim
<1>7. QED  BY <1>4, <1>5, <1>6 DEF Shape

LEMMA NextShape == Shape /\ [Next]_vars => Shape'
<1> SUFFICES ASSUME Shape, [Next]_vars PROVE Shape'  OBVIOUS
<1> USE DEF Pcs
<1>0. TypeOK /\ (\A s \in Sends : Started(s)) /\ (\A id \in Ids : ClaimKept(id))
  BY DEF Shape
<1>1. ASSUME NEW s \in Sends, NEW id \in Ids, Receive(s, id) PROVE Shape'
  <2> DEFINE new == [send[s] EXCEPT !.pc = "quota", !.id = id,
                                    !.limit = IF isPro THEN PRO ELSE FREE]
  <2>1. send[s] \in SendType  BY <1>0, SendTyped
  <2>2. new \in SendType /\ new.pc = "quota" /\ new.id = id
        /\ new.polls = send[s].polls
    BY <2>1 DEF SendType
  <2>3. send' = [send EXCEPT ![s] = new]  BY <1>1, <2>1 DEF Receive, SendType
  <2> HIDE DEF new
  <2>4. /\ send' \in [Sends -> SendType]
        /\ send'[s] = new /\ \A r \in Sends \ {s} : send'[r] = send[r]
    BY <1>0, <2>2, <2>3, MovedTyped
  <2>5. Started(s)'  BY <1>0, <1>1, <2>2, <2>4 DEF Started, Receive
  <2>6. \A r \in Sends : Started(r)'  BY <1>0, <2>4, <2>5 DEF Started
  <2>7. QED
    BY <1>0, <1>1, <2>4, <2>6 DEF Receive, OnlySend, Shape, TypeOK, ClaimKept, Present
<1>2. ASSUME NEW s \in Sends, Spend(s) PROVE Shape'
  <2> DEFINE new == [send[s] EXCEPT !.pc = "prepare", !.paidIn = month]
  <2>1. send[s] \in SendType  BY <1>0, SendTyped
  <2>2. new \in SendType /\ new.pc = "prepare" /\ new.id = send[s].id
        /\ new.polls = send[s].polls
    BY <1>0, <2>1 DEF SendType, TypeOK
  <2>3. send' = [send EXCEPT ![s] = new]  BY <1>2, <2>1 DEF Spend, SendType
  <2> HIDE DEF new
  <2>4. /\ send' \in [Sends -> SendType]
        /\ send'[s] = new /\ \A r \in Sends \ {s} : send'[r] = send[r]
    BY <1>0, <2>2, <2>3, MovedTyped
  <2>5. Started(s)'  BY <1>0, <1>2, <2>2, <2>4 DEF Started, Spend
  <2>6. \A r \in Sends : Started(r)'  BY <1>0, <2>4, <2>5 DEF Started
  <2>7. used' \in [Months -> Nat]  BY <1>0, <1>2 DEF Spend, TypeOK, Months
  <2>8. QED
    BY <1>0, <1>2, <2>4, <2>6, <2>7 DEF Spend, Shape, TypeOK, ClaimKept, Present
<1>3. ASSUME NEW s \in Sends,
             \/ QuotaExceeded(s) \/ Refuse(s) \/ LoseClaim(s) \/ Reply(s)
             \/ Fail(s) \/ ServerDies(s)
      PROVE  Shape'
  <2>1. OnlySend /\ send[s].pc # "new" /\ \E pc \in Pcs \ {"calling", "new"} : Goto(s, pc)
    BY <1>3 DEF QuotaExceeded, Refuse, LoseClaim, Reply, Fail, ServerDies, Owning
  <2>2. send' \in [Sends -> SendType] /\ \A r \in Sends : Started(r)'
    BY <2>1, GotoKeeps
  <2>3. QED
    BY <1>0, <2>1, <2>2 DEF OnlySend, Shape, TypeOK, ClaimKept, Present
<1>4. ASSUME NEW s \in Sends, Claim(s) PROVE Shape'
  <2>1. send' \in [Sends -> SendType] /\ \A r \in Sends : Started(r)'
    BY <1>4, GotoKeeps DEF Claim, Owning
  <2>2. send[s].id \in Ids /\ PENDING_TTL \in Nat \ {0}
    BY <1>0, <1>4, ChatAssumption DEF Claim, Started
  <2> DEFINE set == [status |-> "pending", by |-> s, left |-> PENDING_TTL]
  <2>3. claim' = [claim EXCEPT ![send[s].id] = set]  BY <1>4 DEF Claim
  <2>4. set \in [status : {"none", "pending", "done"}, by : Sends \cup {None},
                 left : Nat]
        /\ set.by \in Sends /\ set.left > 0
    BY <2>2
  <2> HIDE DEF set
  <2>5. claim' \in [Ids -> [status : {"none", "pending", "done"},
                            by : Sends \cup {None}, left : Nat]]
    BY <1>0, <2>3, <2>4 DEF TypeOK
  <2>6. \A id \in Ids : ClaimKept(id)'
    BY <1>0, <2>2, <2>3, <2>4 DEF TypeOK, ClaimKept, Present
  <2>7. QED  BY <1>0, <1>4, <2>1, <2>5, <2>6 DEF Claim, Shape, TypeOK
<1>5. ASSUME NEW s \in Sends, Poll(s) PROVE Shape'
  <2>1. send[s].pc = "polling" /\ send[s].id \in Ids
    BY <1>0, <1>5 DEF Poll, Started
  <2>2. answers' \subseteq Ids \X Sends
    BY <1>0, <1>5, <2>1 DEF Poll, TypeOK, ClaimKept
  <2>3. send' \in [Sends -> SendType] /\ \A r \in Sends : Started(r)'
    <3>1. CASE \E pc \in {"answered", "failed"} : Goto(s, pc)
      BY <2>1, <3>1, GotoKeeps
    <3>2. CASE send' = [send EXCEPT ![s].polls = @ + 1,
                          ![s].pc = IF send[s].polls + 1 = CLAIM_POLL_ATTEMPTS
                                    THEN "failed" ELSE "polling"]
      <4> DEFINE new == [send[s] EXCEPT !.polls = @ + 1,
                           !.pc = IF send[s].polls + 1 = CLAIM_POLL_ATTEMPTS
                                  THEN "failed" ELSE "polling"]
      <4>1. send[s] \in SendType  BY <1>0, SendTyped
      <4> DEFINE next == IF send[s].polls + 1 = CLAIM_POLL_ATTEMPTS
                         THEN "failed" ELSE "polling"
      <4>2. send[s].polls + 1 \in 0 .. CLAIM_POLL_ATTEMPTS /\ next \in {"failed", "polling"}
            /\ (next = "polling" => send[s].polls + 1 < CLAIM_POLL_ATTEMPTS)
        BY <1>0, <2>1, <4>1, ChatAssumption DEF SendType, Started
      <4>3. new \in SendType /\ new.pc = next /\ new.id = send[s].id
            /\ new.polls = send[s].polls + 1
        <5> HIDE DEF next
        <5>1. new = [send[s] EXCEPT !.polls = @ + 1, !.pc = next]  BY DEF next
        <5>2. QED  BY <4>1, <4>2, <5>1 DEF SendType
      <4>4. send' = [send EXCEPT ![s] = new]  BY <3>2, <4>1 DEF SendType
      <4> HIDE DEF next, new
      <4>5. /\ send' \in [Sends -> SendType]
            /\ send'[s] = new /\ \A r \in Sends \ {s} : send'[r] = send[r]
        BY <1>0, <4>3, <4>4, MovedTyped
      <4>6. Started(s)'  BY <2>1, <4>2, <4>3, <4>5 DEF Started
      <4>7. \A r \in Sends : Started(r)'  BY <1>0, <4>5, <4>6 DEF Started
      <4>8. QED  BY <4>5, <4>7
    <3>3. QED  BY <1>5, <3>1, <3>2 DEF Poll
  <2>4. QED
    BY <1>0, <1>5, <2>2, <2>3 DEF Poll, Shape, TypeOK, ClaimKept, Present
<1>6. ASSUME NEW s \in Sends, Call(s) \/ NextModel(s) \/ Headers(s) \/ Disconnect(s)
      PROVE  Shape'
  <2>1. send[s] \in SendType /\ send[s].pc # "new"
    BY <1>0, <1>6, SendTyped DEF Call, NextModel, Headers, Disconnect
  <2>2. PICK new \in SendType :
           /\ send' = [send EXCEPT ![s] = new]
           /\ new.id = send[s].id /\ new.pc \in {"calling", "streaming"}
           /\ new.pc = "calling" => new.model >= 1
    <3>0. 1 \in 0 .. MODELS /\ ATTEMPT_TIMEOUT \in Nat /\ STREAM_TIME \in Nat
      BY ChatAssumption
    <3>1. CASE Call(s)
      <4> DEFINE new == [send[s] EXCEPT !.pc = "calling", !.model = 1,
                                        !.left = ATTEMPT_TIMEOUT]
      <4>1. new \in SendType /\ new.pc = "calling" /\ new.id = send[s].id
            /\ new.model = 1
        BY <2>1, <3>0 DEF SendType, Owning
      <4>2. send' = [send EXCEPT ![s] = new]  BY <2>1, <3>1 DEF Call, SendType
      <4> HIDE DEF new
      <4>3. new.model >= 1  BY <4>1
      <4>4. QED  BY <4>1, <4>2, <4>3
    <3>2. CASE NextModel(s)
      <4> DEFINE new == [send[s] EXCEPT !.model = @ + 1, !.left = ATTEMPT_TIMEOUT]
      <4>1. send[s].model >= 1 /\ send[s].model < MODELS /\ send[s].pc = "calling"
        BY <1>0, <3>2 DEF NextModel, Started
      <4>2. send[s].model + 1 \in 0 .. MODELS /\ send[s].model + 1 >= 1
        BY <2>1, <4>1, ChatAssumption DEF SendType
      <4>3. new \in SendType /\ new.pc = "calling" /\ new.id = send[s].id
            /\ new.model = send[s].model + 1
        BY <2>1, <3>0, <4>1, <4>2 DEF SendType
      <4>4. send' = [send EXCEPT ![s] = new]  BY <2>1, <3>2 DEF NextModel, SendType
      <4> HIDE DEF new
      <4>5. QED  BY <4>2, <4>3, <4>4
    <3>3. CASE Headers(s)
      <4> DEFINE new == [send[s] EXCEPT !.pc = "streaming", !.left = STREAM_TIME]
      <4>1. new \in SendType /\ new.pc = "streaming" /\ new.id = send[s].id
        BY <2>1, <3>0 DEF SendType, Owning
      <4>2. send' = [send EXCEPT ![s] = new]  BY <2>1, <3>3 DEF Headers, SendType
      <4> HIDE DEF new
      <4>3. QED  BY <4>1, <4>2
    <3>4. CASE Disconnect(s)
      <4> DEFINE new == [send[s] EXCEPT !.aborted = TRUE]
      <4>1. new \in SendType  BY <2>1 DEF SendType
      <4>2. send' = [send EXCEPT ![s] = new]
        BY <2>1, <3>4 DEF Disconnect, SendType
      <4>3. new.id = send[s].id /\ new.pc \in {"calling", "streaming"}
            /\ (new.pc = "calling" => new.model >= 1)
        BY <1>0, <2>1, <3>4 DEF SendType, Disconnect, Started
      <4> HIDE DEF new
      <4>4. QED  BY <4>1, <4>2, <4>3
    <3>5. QED  BY <1>6, <3>1, <3>2, <3>3, <3>4
  <2>3. /\ send' \in [Sends -> SendType]
        /\ send'[s] = new /\ \A r \in Sends \ {s} : send'[r] = send[r]
    BY <1>0, <2>2, MovedTyped
  <2>4. \A r \in Sends : Started(r)'
    BY <1>0, <2>1, <2>2, <2>3 DEF Started
  <2>5. OnlySend  BY <1>6 DEF Call, NextModel, Headers, Disconnect
  <2>6. QED  BY <1>0, <2>3, <2>4, <2>5 DEF OnlySend, Shape, TypeOK, ClaimKept, Present
<1>7. ASSUME NEW s \in Sends, Commit(s) PROVE Shape'
  <2>1. send' \in [Sends -> SendType] /\ \A r \in Sends : Started(r)'
    BY <1>7, GotoKeeps DEF Commit, Owning
  <2> DEFINE set == [status |-> "done", by |-> s, left |-> 0]
  <2>2. claim' = [claim EXCEPT ![send[s].id] = set]  BY <1>7 DEF Commit
  <2>3. set \in [status : {"none", "pending", "done"}, by : Sends \cup {None},
                 left : Nat]
        /\ set.by \in Sends /\ set.status = "done"
    OBVIOUS
  <2> HIDE DEF set
  <2>4. claim' \in [Ids -> [status : {"none", "pending", "done"},
                            by : Sends \cup {None}, left : Nat]]
    BY <1>0, <2>2, <2>3 DEF TypeOK
  <2>5. \A id \in Ids : ClaimKept(id)'
    BY <1>0, <2>2, <2>3 DEF TypeOK, ClaimKept, Present
  <2>6. QED  BY <1>0, <1>7, <2>1, <2>4, <2>5 DEF Commit, Shape, TypeOK
<1>8. ASSUME NEW s \in Sends, AppendTurn(s) PROVE Shape'
  <2>1. send' \in [Sends -> SendType] /\ \A r \in Sends : Started(r)'
    BY <1>8, GotoKeeps DEF AppendTurn, Owning
  <2>2. session' \in Seq(Sends) /\ Len(session') <= MAX_EXCHANGES
    BY <1>0, <1>8, ChatAssumption DEF AppendTurn, Extended, TypeOK
  <2>3. answers' \subseteq Ids \X Sends
    BY <1>0, <1>8 DEF AppendTurn, TypeOK, Started
  <2>4. QED
    BY <1>0, <1>8, <2>1, <2>2, <2>3
    DEF AppendTurn, Shape, TypeOK, ClaimKept, Present
<1>9. ASSUME NEW s \in Sends, Release(s) PROVE Shape'
  <2>1. send' \in [Sends -> SendType] /\ \A r \in Sends : Started(r)'
    BY <1>9, GotoKeeps DEF Release, Owning
  <2>2. NoClaim \in [status : {"none", "pending", "done"}, by : Sends \cup {None},
                     left : Nat]
        /\ NoClaim.status = "none"
    BY DEF NoClaim
  <2>3. claim' \in [Ids -> [status : {"none", "pending", "done"},
                            by : Sends \cup {None}, left : Nat]]
    BY <1>0, <1>9, <2>2 DEF TypeOK, Release
  <2>4. \A id \in Ids : ClaimKept(id)'
    BY <1>0, <1>9, <2>2 DEF TypeOK, ClaimKept, Present, Release
  <2>5. unwound' \subseteq Ids  BY <1>0, <1>9 DEF TypeOK, Release, Started
  <2>6. QED  BY <1>0, <1>9, <2>1, <2>3, <2>4, <2>5 DEF Release, Shape, TypeOK
<1>10. CASE ClearSession \/ ProChanges \/ NewMonth
  <2>1. session' \in Seq(Sends) /\ Len(session') <= MAX_EXCHANGES
    <3>1. session' = session \/ session' = <<>>
      BY <1>10 DEF ClearSession, ProChanges, NewMonth
    <3>2. <<>> \in Seq(Sends) /\ Len(<<>>) <= MAX_EXCHANGES  BY ChatAssumption
    <3>3. QED  BY <1>0, <3>1, <3>2 DEF TypeOK
  <2>2. UNCHANGED <<used, claim, send, answers, unwound, outlived>>
        /\ month' \in Months /\ isPro' \in BOOLEAN
    BY <1>0, <1>10 DEF ClearSession, ProChanges, NewMonth, TypeOK, Months
  <2>3. QED  BY <1>0, <2>1, <2>2 DEF Shape, TypeOK, Started, ClaimKept, Present
<1>11. CASE Tick
  <2>1. ASSUME NEW s \in Sends
        PROVE  /\ send'[s] \in SendType
               /\ Started(s)'
    <3> DEFINE new == [send[s] EXCEPT !.left = IF @ > 0 THEN @ - 1 ELSE 0]
    <3>1. send[s] \in SendType  BY <1>0, SendTyped
    <3>2. send'[s] = new  BY <1>11 DEF Tick
    <3>3. new \in SendType /\ new.pc = send[s].pc /\ new.id = send[s].id
          /\ new.polls = send[s].polls /\ new.model = send[s].model
      BY <3>1 DEF SendType
    <3> HIDE DEF new
    <3>4. QED  BY <1>0, <3>2, <3>3 DEF Started
  <2>2. send' \in [Sends -> SendType]
    <3>1. send' = [s \in Sends |-> send'[s]]  BY <1>11 DEF Tick
    <3>2. QED  BY <2>1, <3>1
  <2>3. ASSUME NEW id \in Ids
        PROVE  /\ claim'[id] \in [status : {"none", "pending", "done"},
                                  by : Sends \cup {None}, left : Nat]
               /\ ClaimKept(id)'
    <3>1. claim[id] \in [status : {"none", "pending", "done"},
                         by : Sends \cup {None}, left : Nat]
      BY <1>0 DEF TypeOK
    <3>2. claim'[id] = IF claim[id].status # "pending" THEN claim[id]
                       ELSE IF claim[id].left = 1 THEN NoClaim
                       ELSE [claim[id] EXCEPT !.left = @ - 1]
      BY <1>11 DEF Tick
    <3>3. CASE claim[id].status # "pending"
      BY <1>0, <3>1, <3>2, <3>3 DEF ClaimKept, Present
    <3>4. CASE claim[id].status = "pending" /\ claim[id].left = 1
      BY <3>2, <3>4 DEF ClaimKept, Present, NoClaim
    <3>5. CASE claim[id].status = "pending" /\ claim[id].left # 1
      BY <1>0, <3>1, <3>2, <3>5 DEF ClaimKept, Present
    <3>6. QED  BY <3>3, <3>4, <3>5
  <2>4. claim' \in [Ids -> [status : {"none", "pending", "done"},
                            by : Sends \cup {None}, left : Nat]]
    <3>1. claim' = [id \in Ids |-> claim'[id]]  BY <1>11 DEF Tick
    <3>2. QED  BY <2>3, <3>1
  <2>5. QED
    BY <1>0, <1>11, <2>1, <2>2, <2>3, <2>4 DEF Tick, Shape, TypeOK
<1>12. CASE UNCHANGED vars
  BY <1>0, <1>12 DEF vars, Shape, TypeOK, Started, ClaimKept, Present
<1>13. QED
  BY <1>1, <1>2, <1>3, <1>4, <1>5, <1>6, <1>7, <1>8, <1>9, <1>10, <1>11, <1>12
  DEF Next, SendStep

(* Every variable keeps its type, and the session its bound. *)
THEOREM Typed == Spec => []TypeOK
<1>1. Shape => TypeOK  BY DEF Shape
<1>2. QED  BY <1>1, InitShape, NextShape, PTL DEF Spec
-----------------------------------------------------------------------------
(* Whoever works on a message holds its claim, unless that ran out under a *)
(* call.                                                                   *)
HeldBy(s) ==
    LET c == claim[send[s].id]
    IN  Owner(s) /\ send[s].id \notin outlived =>
          /\ c.by = s
          /\ send[s].pc = "append" => c.status = "done"
          /\ send[s].pc = "release" => c.status \in {"pending", "done"}
          /\ send[s].pc \notin {"append", "release"} => c.status = "pending"

DoneBy(id, s) == claim[id].status = "done" /\ claim[id].by = s

(* An exchange in the session was answered, once, and is still the one     *)
(* stored in the claim, unless that ran out under a call.                  *)
SessionBacked ==
    \A i \in DOMAIN session :
        /\ send[session[i]].pc = "answered"
        /\ send[session[i]].id \in outlived \/ DoneBy(send[session[i]].id, session[i])
        /\ \A j \in DOMAIN session : session[i] = session[j] => i = j

Backed(a) == a[1] \in unwound \cup outlived \/ DoneBy(a[1], a[2])

Messages == /\ \A s \in Sends : HeldBy(s)
            /\ SessionBacked
            /\ \A a \in answers : Backed(a)

(* A request that moves without touching a claim leaves the others alone.  *)
LEMMA MoveKeeps ==
    ASSUME Shape, Messages, NEW s \in Sends, send[s].pc # "answered",
           \A r \in Sends \ {s} : send'[r] = send[r],
           UNCHANGED <<claim, session, answers, unwound, outlived>>,
           HeldBy(s)'
    PROVE  Messages'
<1>1. \A r \in Sends : HeldBy(r)'  BY DEF Messages, HeldBy, Owner
<1>2. SessionBacked'
  <2>1. session \in Seq(Sends)  BY DEF Shape, TypeOK
  <2>2. \A i \in DOMAIN session : session[i] \in Sends \ {s}
    BY <2>1 DEF Messages, SessionBacked
  <2>3. QED  BY <2>2 DEF Messages, SessionBacked, DoneBy
<1>3. \A a \in answers' : Backed(a)'  BY DEF Messages, Backed, DoneBy
<1>4. QED  BY <1>1, <1>2, <1>3 DEF Messages

(* A request that changes the claim of its message, which is nobody else's *)
(* and not a reply that is still to be replayed, leaves the others alone.  *)
LEMMA ClaimMoveKeeps ==
    ASSUME Shape, Messages, NEW s \in Sends, send[s].pc # "answered",
           \A r \in Sends \ {s} : send'[r] = send[r],
           \A id \in Ids \ {send[s].id} : claim'[id] = claim[id],
           send[s].id \in Ids,
           \/ send[s].id \in outlived
           \/ /\ ~Present(send[s].id) \/ claim[send[s].id].by = s
              /\ claim[send[s].id].status = "done" => send[s].id \in unwound',
           unwound \subseteq unwound',
           UNCHANGED <<session, answers, outlived>>,
           HeldBy(s)'
    PROVE  Messages'
<1>0. /\ session \in Seq(Sends) /\ answers \subseteq Ids \X Sends
      /\ \A r \in Sends : send[r].pc # "new" => send[r].id \in Ids
  BY DEF Shape, TypeOK, Started
<1>1. \A r \in Sends : HeldBy(r)'
  <2>1. ASSUME NEW r \in Sends \ {s} PROVE HeldBy(r)'
    <3>1. CASE ~Owner(r) \/ send[r].id \in outlived  BY <3>1 DEF HeldBy, Owner
    <3>2. CASE Owner(r) /\ send[r].id \notin outlived
      <4>1. claim[send[r].id].by = r /\ Present(send[r].id)
        BY <3>2 DEF Messages, HeldBy, Present
      <4>2. send[r].id \in Ids \ {send[s].id}
        BY <1>0, <3>2, <4>1 DEF Owner, Owning
      <4>3. QED  BY <3>2, <4>2 DEF Messages, HeldBy, Owner
    <3>3. QED  BY <3>1, <3>2
  <2>2. QED  BY <2>1
<1>2. SessionBacked'
  <2>1. ASSUME NEW i \in DOMAIN session
        PROVE  /\ session[i] \in Sends \ {s} /\ send[session[i]].pc = "answered"
               /\ \/ send[session[i]].id \in outlived
                  \/ /\ send[session[i]].id \in Ids \ {send[s].id}
                     /\ DoneBy(send[session[i]].id, session[i])
    <3>1. /\ session[i] \in Sends /\ send[session[i]].pc = "answered"
          /\ \/ send[session[i]].id \in outlived
             \/ DoneBy(send[session[i]].id, session[i])
      BY <1>0 DEF Messages, SessionBacked
    <3>2. session[i] # s  BY <3>1
    <3>3. QED  BY <1>0, <3>1, <3>2 DEF DoneBy, Present
  <2>2. ASSUME NEW i \in DOMAIN session
        PROVE  /\ send'[session[i]].pc = "answered"
               /\ \/ send'[session[i]].id \in outlived
                  \/ DoneBy(send[session[i]].id, session[i])'
    BY <2>1 DEF DoneBy
  <2>3. \A i, j \in DOMAIN session : session[i] = session[j] => i = j
    BY DEF Messages, SessionBacked
  <2>4. QED  BY <2>2, <2>3 DEF SessionBacked
<1>3. ASSUME NEW a \in answers PROVE Backed(a)'
  <2>1. a[1] \in Ids /\ Backed(a)  BY <1>0 DEF Messages
  <2>2. CASE a[1] = send[s].id  BY <2>1, <2>2 DEF Backed, DoneBy, Present
  <2>3. CASE a[1] # send[s].id  BY <2>1, <2>3 DEF Backed, DoneBy
  <2>4. QED  BY <2>2, <2>3
<1>4. QED  BY <1>1, <1>2, <1>3 DEF Messages

LEMMA InitMessages == Init => Messages
<1> SUFFICES ASSUME Init PROVE Messages  OBVIOUS
<1>1. \A s \in Sends : HeldBy(s)  BY DEF Init, HeldBy, Owner, Owning, NewSend
<1>2. SessionBacked  BY DEF Init, SessionBacked
<1>3. QED  BY <1>1, <1>2 DEF Messages, Init

LEMMA NextMessages ==
    ASSUME Shape, Messages, [Next]_vars
    PROVE  Messages'
<1>0. TypeOK /\ (\A s \in Sends : Started(s) /\ HeldBy(s))
  BY DEF Shape, Messages
<1> DEFINE Others(s) == \A r \in Sends \ {s} : send'[r] = send[r]
<1>1. ASSUME NEW s \in Sends, NEW id \in Ids, Receive(s, id) PROVE Messages'
  <2>1. Others(s) /\ send[s].pc = "new" /\ send'[s].pc = "quota"
    BY <1>0, <1>1 DEF Receive, TypeOK, SendType
  <2>2. HeldBy(s)'  BY <2>1 DEF HeldBy, Owner, Owning
  <2>3. QED  BY <1>1, <2>1, <2>2, MoveKeeps DEF Receive, OnlySend
<1>2. ASSUME NEW s \in Sends, Spend(s) PROVE Messages'
  <2>1. Others(s) /\ send[s].pc = "quota" /\ send'[s].pc = "prepare"
    BY <1>0, <1>2 DEF Spend, TypeOK, SendType
  <2>2. HeldBy(s)'  BY <2>1 DEF HeldBy, Owner, Owning
  <2>3. QED  BY <1>2, <2>1, <2>2, MoveKeeps DEF Spend
<1>3. ASSUME NEW s \in Sends,
             QuotaExceeded(s) \/ Refuse(s) \/ LoseClaim(s) \/ ServerDies(s)
      PROVE  Messages'
  <2>1. \E pc \in {"failed", "polling"} : Goto(s, pc)
    BY <1>3 DEF QuotaExceeded, Refuse, LoseClaim, ServerDies
  <2>2. Others(s) /\ send'[s].pc \in {"failed", "polling"}
    BY <1>0, <2>1, GotoTyped DEF Pcs
  <2>3. HeldBy(s)'  BY <2>2 DEF HeldBy, Owner, Owning
  <2>4. send[s].pc # "answered" /\ OnlySend
    BY <1>3 DEF QuotaExceeded, Refuse, LoseClaim, ServerDies
  <2>5. QED  BY <2>2, <2>3, <2>4, MoveKeeps DEF OnlySend
<1>4. ASSUME NEW s \in Sends, Claim(s) PROVE Messages'
  <2>1. /\ Others(s) /\ send'[s].pc = "history" /\ send'[s].id = send[s].id
        /\ send[s].id \in Ids
    BY <1>0, <1>4, GotoTyped DEF Claim, Started, Pcs, Owning
  <2>2. /\ claim'[send[s].id] = [status |-> "pending", by |-> s, left |-> PENDING_TTL]
        /\ \A id \in Ids \ {send[s].id} : claim'[id] = claim[id]
    BY <1>0, <1>4, <2>1 DEF Claim, TypeOK
  <2>3. HeldBy(s)'  BY <2>1, <2>2 DEF HeldBy
  <2>4. QED
    BY <1>4, <2>1, <2>2, <2>3, ClaimMoveKeeps DEF Claim, Present
<1>5. ASSUME NEW s \in Sends, Poll(s) PROVE Messages'
  <2>1. Others(s) /\ send[s].pc = "polling" /\ ~Owner(s)'
    <3>1. CASE \E pc \in {"answered", "failed"} : Goto(s, pc)
      BY <1>0, <1>5, <3>1, GotoTyped DEF Poll, Pcs, Owner, Owning
    <3>2. CASE send' = [send EXCEPT ![s].polls = @ + 1,
                          ![s].pc = IF send[s].polls + 1 = CLAIM_POLL_ATTEMPTS
                                    THEN "failed" ELSE "polling"]
      <4>1. send'[s].pc \in {"failed", "polling"} /\ Others(s)
        BY <1>0, <3>2 DEF TypeOK, SendType
      <4>2. QED  BY <1>5, <4>1 DEF Poll, Owner, Owning
    <3>3. QED  BY <1>5, <3>1, <3>2 DEF Poll
  <2>2. HeldBy(s)'  BY <2>1 DEF HeldBy, Owner
  <2>3. CASE UNCHANGED answers
    BY <1>5, <2>1, <2>2, <2>3, MoveKeeps DEF Poll
  <2>4. CASE /\ claim[send[s].id].status = "done"
             /\ answers' = answers \cup {<<send[s].id, claim[send[s].id].by>>}
    <3>1. \A r \in Sends : HeldBy(r)'
      BY <1>0, <1>5, <2>1, <2>2 DEF HeldBy, Owner, Poll
    <3>2. session \in Seq(Sends)  BY <1>0 DEF TypeOK
    <3>3. \A i \in DOMAIN session : session[i] \in Sends \ {s}
      BY <2>1, <3>2 DEF Messages, SessionBacked
    <3>4. SessionBacked'
      BY <1>5, <2>1, <3>3 DEF Messages, SessionBacked, DoneBy, Poll
    <3>5. \A a \in answers' : Backed(a)'
      BY <1>5, <2>4 DEF Messages, Backed, DoneBy, Poll
    <3>6. QED  BY <3>1, <3>4, <3>5 DEF Messages
  <2>5. QED  BY <1>5, <2>3, <2>4 DEF Poll
<1>6. ASSUME NEW s \in Sends, Call(s) \/ NextModel(s) \/ Headers(s) \/ Disconnect(s)
      PROVE  Messages'
  <2>1. /\ Others(s) /\ send[s].pc \in {"history", "calling", "streaming"}
        /\ send'[s].pc \in {"calling", "streaming"} /\ send'[s].id = send[s].id
    BY <1>0, <1>6 DEF Call, NextModel, Headers, Disconnect, TypeOK, SendType
  <2>2. OnlySend  BY <1>6 DEF Call, NextModel, Headers, Disconnect
  <2>3. HeldBy(s)'
    BY <1>0, <2>1, <2>2 DEF HeldBy, Owner, Owning, OnlySend
  <2>4. QED  BY <2>1, <2>2, <2>3, MoveKeeps DEF OnlySend
<1>7. ASSUME NEW s \in Sends, Reply(s) \/ Fail(s) PROVE Messages'
  <2>1. /\ Others(s) /\ send'[s].id = send[s].id
        /\ \/ send[s].pc = "streaming" /\ send'[s].pc = "commit"
           \/ /\ send[s].pc \in {"calling", "streaming", "commit", "append"}
              /\ send'[s].pc = "release"
    BY <1>0, <1>7, GotoTyped DEF Reply, Fail, Pcs, Owning
  <2>2. claim' = claim /\ outlived' = outlived  BY <1>7 DEF Reply, Fail, OnlySend
  <2>3. HeldBy(s)'  BY <1>0, <2>1, <2>2 DEF HeldBy, Owner, Owning
  <2>4. QED
    BY <1>7, <2>1, <2>3, MoveKeeps DEF Reply, Fail, OnlySend
<1>8. ASSUME NEW s \in Sends, Commit(s) PROVE Messages'
  <2>1. /\ Others(s) /\ send[s].pc = "commit" /\ send'[s].pc = "append"
        /\ send'[s].id = send[s].id /\ send[s].id \in Ids
    BY <1>0, <1>8, GotoTyped DEF Commit, Started, Pcs, Owning
  <2>2. /\ claim'[send[s].id] = [status |-> "done", by |-> s, left |-> 0]
        /\ \A id \in Ids \ {send[s].id} : claim'[id] = claim[id]
    BY <1>0, <1>8, <2>1 DEF Commit, TypeOK
  <2>3. HeldBy(s)'  BY <2>1, <2>2 DEF HeldBy
  <2>4. \/ send[s].id \in outlived
        \/ claim[send[s].id].by = s /\ claim[send[s].id].status = "pending"
    BY <1>0, <2>1 DEF HeldBy, Owner, Owning
  <2>5. QED
    BY <1>8, <2>1, <2>2, <2>3, <2>4, ClaimMoveKeeps DEF Commit
<1>9. ASSUME NEW s \in Sends, AppendTurn(s) PROVE Messages'
  <2>1. /\ Others(s) /\ send[s].pc = "append" /\ send'[s].pc = "answered"
        /\ send'[s].id = send[s].id
    BY <1>0, <1>9, GotoTyped DEF AppendTurn, Pcs, Owning
  <2>2. (send[s].id \in outlived \/ DoneBy(send[s].id, s))
        /\ claim' = claim /\ outlived' = outlived
    BY <1>0, <1>9, <2>1 DEF HeldBy, Owner, Owning, DoneBy, AppendTurn
  <2>3. \A r \in Sends : HeldBy(r)'
    BY <1>0, <2>1, <2>2 DEF HeldBy, Owner, Owning
  <2>4. SessionBacked'
    <3>1. session \in Seq(Sends)  BY <1>0 DEF TypeOK
    <3>2. \A i \in DOMAIN session : session[i] \in Sends \ {s}
      BY <2>1, <3>1 DEF Messages, SessionBacked
    <3>3. session' \in Seq(Sends)
          /\ \A i \in DOMAIN session' :
               session'[i] = s \/ \E k \in DOMAIN session : session'[i] = session[k]
      <4>1. CASE session' = Append(session, s)  BY <3>1, <4>1
      <4>2. CASE session' = Append(Tail(session), s) /\ session # <<>>
        <5> DEFINE rest == Tail(session)
        <5>1. rest \in Seq(Sends) /\ Len(rest) = Len(session) - 1
              /\ \A k \in 1 .. Len(rest) : rest[k] = session[k + 1]
          BY <3>1, <4>2
        <5>2. session' = Append(rest, s)  BY <4>2
        <5> HIDE DEF rest
        <5>3. session' \in Seq(Sends) /\ Len(session') = Len(rest) + 1
              /\ session'[Len(rest) + 1] = s
              /\ \A k \in 1 .. Len(rest) : session'[k] = rest[k]
          BY <5>1, <5>2
        <5>4. ASSUME NEW i \in DOMAIN session'
              PROVE  session'[i] = s \/ \E k \in DOMAIN session : session'[i] = session[k]
          <6>1. CASE i = Len(rest) + 1  BY <5>3, <6>1
          <6>2. CASE i \in 1 .. Len(rest)
            <7>1. i + 1 \in DOMAIN session  BY <3>1, <5>1, <6>2
            <7>2. session'[i] = session[i + 1]  BY <5>1, <5>3, <6>2
            <7>3. QED  BY <7>1, <7>2
          <6>3. i \in 1 .. Len(rest) + 1 /\ Len(rest) \in Nat  BY <5>1, <5>3
          <6>4. QED  BY <6>1, <6>2, <6>3
        <5>5. QED  BY <5>3, <5>4
      <4>3. session # <<>> \/ Len(session) < MAX_EXCHANGES
        BY <3>1, ChatAssumption
      <4>4. QED  BY <1>9, <4>1, <4>2, <4>3 DEF AppendTurn, Extended
    <3>4. \A i, j \in DOMAIN session' : session'[i] = session'[j] => i = j
      <4>1. \A i, j \in DOMAIN session : session[i] = session[j] => i = j
        BY DEF Messages, SessionBacked
      <4>2. CASE session' = Append(session, s)  BY <3>1, <3>2, <4>1, <4>2
      <4>3. CASE session' = Append(Tail(session), s) /\ session # <<>>
        BY <3>1, <3>2, <4>1, <4>3
      <4>4. session # <<>> \/ Len(session) < MAX_EXCHANGES
        BY <3>1, ChatAssumption
      <4>5. QED  BY <1>9, <4>2, <4>3, <4>4 DEF AppendTurn, Extended
    <3>5. ASSUME NEW i \in DOMAIN session'
          PROVE  /\ send'[session'[i]].pc = "answered"
                 /\ \/ send'[session'[i]].id \in outlived'
                    \/ DoneBy(send[session[i]].id, session[i])'
      <4>1. CASE session'[i] = s  BY <2>1, <2>2, <4>1 DEF DoneBy
      <4>2. CASE \E k \in DOMAIN session : session'[i] = session[k]
        BY <2>1, <2>2, <3>2, <4>2 DEF Messages, SessionBacked, DoneBy
      <4>3. QED  BY <3>3, <4>1, <4>2
    <3>6. QED  BY <3>4, <3>5 DEF SessionBacked
  <2>5. \A a \in answers' : Backed(a)'
    BY <1>9, <2>2 DEF AppendTurn, Messages, Backed, DoneBy
  <2>6. QED  BY <2>3, <2>4, <2>5 DEF Messages
<1>10. ASSUME NEW s \in Sends, Release(s) PROVE Messages'
  <2>1. /\ Others(s) /\ send[s].pc = "release" /\ send'[s].pc = "failed"
        /\ send'[s].id = send[s].id /\ send[s].id \in Ids
    BY <1>0, <1>10, GotoTyped DEF Release, Started, Pcs, Owning
  <2>2. HeldBy(s)'  BY <2>1 DEF HeldBy, Owner, Owning
  <2>3. send[s].id \in outlived \/ claim[send[s].id].by = s
    BY <1>0, <2>1 DEF HeldBy, Owner, Owning
  <2>4. CASE UNCHANGED <<claim, unwound>>
    BY <1>10, <2>1, <2>2, <2>4, MoveKeeps DEF Release
  <2>5. CASE /\ claim' = [claim EXCEPT ![send[s].id] = NoClaim]
             /\ unwound' = IF claim[send[s].id].status = "done"
                           THEN unwound \cup {send[s].id} ELSE unwound
    <3>1. \A id \in Ids \ {send[s].id} : claim'[id] = claim[id]
      BY <1>0, <2>5 DEF TypeOK
    <3>2. unwound \subseteq unwound'
          /\ (claim[send[s].id].status = "done" => send[s].id \in unwound')
      BY <2>5
    <3>3. QED
      BY <1>10, <2>1, <2>2, <2>3, <3>1, <3>2, ClaimMoveKeeps DEF Release
  <2>6. QED  BY <1>10, <2>4, <2>5 DEF Release
<1>11. CASE ClearSession
  BY <1>11 DEF ClearSession, Messages, HeldBy, Owner, SessionBacked, Backed, DoneBy
<1>12. CASE ProChanges \/ NewMonth
  BY <1>12 DEF ProChanges, NewMonth, Messages, HeldBy, Owner, SessionBacked, Backed,
               DoneBy
<1>13. CASE Tick
  <2>1. UNCHANGED <<session, answers, unwound>> /\ outlived \subseteq outlived'
        /\ \A s \in Sends : send'[s].pc = send[s].pc /\ send'[s].id = send[s].id
    BY <1>0, <1>13 DEF Tick, TypeOK, SendType
  <2>2. \A id \in Ids, s \in Sends : DoneBy(id, s) => DoneBy(id, s)'
    BY <1>13 DEF Tick, DoneBy
  <2>3. ASSUME NEW s \in Sends PROVE HeldBy(s)'
    <3>1. CASE ~Owner(s) \/ send[s].id \in outlived  BY <2>1, <3>1 DEF HeldBy, Owner
    <3>2. CASE Owner(s) /\ send[s].id \notin outlived
      <4>1. send[s].pc \in {"calling", "streaming"} /\ send[s].id \in Ids
        BY <1>0, <1>13, <3>2 DEF Tick, Owner, Owning, Started
      <4>2. claim[send[s].id].by = s /\ claim[send[s].id].status = "pending"
        BY <1>0, <3>2, <4>1 DEF HeldBy
      <4>3. CASE claim[send[s].id].left = 1
        <5>1. send[s].id \in outlived'
          BY <1>13, <3>2, <4>1, <4>2, <4>3 DEF Tick, Outlives
        <5>2. QED  BY <2>1, <5>1 DEF HeldBy
      <4>4. CASE claim[send[s].id].left # 1
        <5>1. claim'[send[s].id] = [claim[send[s].id] EXCEPT !.left = @ - 1]
          BY <1>13, <4>1, <4>2, <4>4 DEF Tick
        <5>2. claim'[send[s].id].by = s /\ claim'[send[s].id].status = "pending"
          BY <1>0, <4>1, <4>2, <5>1 DEF TypeOK
        <5>3. QED  BY <2>1, <4>1, <5>2 DEF HeldBy
      <4>5. QED  BY <4>3, <4>4
    <3>3. QED  BY <3>1, <3>2
  <2>4. SessionBacked'
    <3>1. \A i \in DOMAIN session : session[i] \in Sends  BY <1>0 DEF TypeOK
    <3>2. \A i \in DOMAIN session : send[session[i]].id \in Ids
      BY <1>0, <3>1 DEF Messages, SessionBacked, Started
    <3>3. QED  BY <2>1, <2>2, <3>1, <3>2 DEF Messages, SessionBacked
  <2>5. \A a \in answers' : Backed(a)'
    BY <1>0, <2>1, <2>2 DEF Messages, Backed, TypeOK
  <2>6. QED  BY <2>3, <2>4, <2>5 DEF Messages
<1>14. CASE UNCHANGED vars
  BY <1>14 DEF vars, Messages, HeldBy, Owner, SessionBacked, Backed, DoneBy
<1>15. QED
  BY <1>1, <1>2, <1>3, <1>4, <1>5, <1>6, <1>7, <1>8, <1>9, <1>10, <1>11, <1>12,
     <1>13, <1>14 DEF Next, SendStep

(* Whatever the time to live of a claim, the models and their timeouts: a  *)
(* message is never worked on by two requests at once, unless its claim    *)
(* ran out under a call.                                                   *)
THEOREM OneOwnerAlways == Spec => []OneOwner
<1>1. Messages => OneOwner  BY DEF Messages, HeldBy, OneOwner
<1>2. Shape /\ Messages /\ [Next]_vars => Shape' /\ Messages'
  BY NextShape, NextMessages
<1>3. QED  BY <1>1, <1>2, InitShape, InitMessages, PTL DEF Spec

(* Such a message is in the conversation once, and everyone who sent it is *)
(* given the same reply, as long as the append does not fail.              *)
THEOREM OneReplyAlways == Spec => []OneReplyPerMessage
<1>1. Shape /\ Messages => OneReplyPerMessage
  <2> SUFFICES ASSUME Shape, Messages PROVE OneReplyPerMessage  OBVIOUS
  <2>1. \A i, j \in DOMAIN session :
           send[session[i]].id = send[session[j]].id /\ send[session[i]].id \notin outlived
              => i = j
    BY DEF Messages, SessionBacked, DoneBy
  <2>2. ASSUME NEW a \in answers, NEW b \in answers, a[1] = b[1], a[1] \notin unwound \cup outlived
        PROVE  a = b
    <3>1. a \in Ids \X Sends /\ b \in Ids \X Sends  BY DEF Shape, TypeOK
    <3>2. a[2] = b[2]  BY <2>2 DEF Messages, Backed, DoneBy
    <3>3. QED  BY <2>2, <3>1, <3>2
  <2>3. QED  BY <2>1, <2>2 DEF OneReplyPerMessage
<1>2. Shape /\ Messages /\ [Next]_vars => Shape' /\ Messages'
  BY NextShape, NextMessages
<1>3. QED  BY <1>1, <1>2, InitShape, InitMessages, PTL DEF Spec
-----------------------------------------------------------------------------
(* The quota                                                               *)

(* A request pays once, on its way out of "quota", and keeps the limit it  *)
(* was read.                                                               *)
PaidIn(m) == {s \in Sends : send[s].paidIn = m}
Paying(s) ==
    /\ send[s].pc \in {"new", "quota"} => send[s].paidIn = None
    /\ send[s].pc # "new" => send[s].limit \in {FREE, PRO}

Quota == /\ \A s \in Sends : Paying(s)
         /\ \A m \in Months : IsFiniteSet(PaidIn(m))
         /\ QuotaHolds

LEMMA InitQuota == Init => Quota
<1> SUFFICES ASSUME Init PROVE Quota  OBVIOUS
<1>1. \A s \in Sends : Paying(s)  BY DEF Init, NewSend, Paying
<1>2. \A m \in Months : PaidIn(m) = {}
  BY ChatAssumption DEF Init, NewSend, PaidIn
<1>3. \A m \in Months : used[m] = Cardinality(PaidIn(m)) /\ used[m] = 0
  BY <1>2, FS_EmptySet DEF Init
<1>4. QuotaHolds  BY <1>3, ChatAssumption DEF QuotaHolds, PaidIn
<1>5. QED  BY <1>1, <1>2, <1>4, FS_EmptySet DEF Quota

(* The other steps spend nothing. *)
LEMMA NothingSpent ==
    ASSUME Quota, UNCHANGED used,
           \A s \in Sends :
              /\ send'[s].paidIn = send[s].paidIn
              /\ send[s].pc # "new" => send'[s].limit = send[s].limit
              /\ send'[s].pc # "new" => send'[s].limit \in {FREE, PRO}
              /\ send'[s].pc \in {"new", "quota"} => send[s].pc \in {"new", "quota"}
    PROVE  Quota'
<1>1. \A m \in Months : PaidIn(m)' = PaidIn(m)  BY DEF PaidIn
<1>2. \A m \in Months : \A s \in PaidIn(m) : send'[s].limit = send[s].limit
  BY ChatAssumption DEF PaidIn, Quota, Paying
<1>3. \A s \in Sends : Paying(s)'  BY DEF Quota, Paying
<1>4. QuotaHolds'
  <2>1. ASSUME NEW m \in Months
        PROVE  /\ used'[m] = Cardinality(PaidIn(m)') /\ used'[m] <= PRO
               /\ (\A s \in PaidIn(m)' : send'[s].limit = FREE) => used'[m] <= FREE
    BY <1>1, <1>2 DEF Quota, QuotaHolds, PaidIn
  <2>2. QED  BY <2>1 DEF QuotaHolds, PaidIn
<1>5. QED  BY <1>1, <1>3, <1>4 DEF Quota

LEMMA OneSendUnpaid ==
    ASSUME TypeOK, Quota, UNCHANGED used, NEW s \in Sends, NEW new,
           send' = [send EXCEPT ![s] = new],
           send[s].pc # "new", new.pc \notin {"new", "quota"},
           new.paidIn = send[s].paidIn, new.limit = send[s].limit
    PROVE  Quota'
<1>1. send'[s] = new /\ \A r \in Sends \ {s} : send'[r] = send[r]  BY DEF TypeOK
<1>2. QED  BY <1>1, NothingSpent DEF Quota, Paying

LEMMA GotoUnpaid ==
    ASSUME TypeOK, Quota, UNCHANGED used, NEW s \in Sends,
           NEW pc \in Pcs \ {"new", "quota"}, send[s].pc # "new", Goto(s, pc)
    PROVE  Quota'
<1> DEFINE new == [send[s] EXCEPT !.pc = pc, !.polls = 0, !.model = 0, !.left = 0,
                                  !.aborted = FALSE]
<1>1. new.pc = pc /\ new.paidIn = send[s].paidIn /\ new.limit = send[s].limit
  BY SendTyped DEF SendType
<1>2. send' = [send EXCEPT ![s] = new]  BY DEF Goto, TypeOK
<1> HIDE DEF new
<1>3. QED  BY <1>1, <1>2, OneSendUnpaid

LEMMA SpendPays == ASSUME TypeOK, Quota, NEW s \in Sends, Spend(s) PROVE Quota'
<1>1. /\ send[s].pc = "quota" /\ send[s].paidIn = None /\ send[s].limit \in {FREE, PRO}
      /\ month \in Months /\ used \in [Months -> Nat] /\ used[month] < send[s].limit
      /\ send[s] \in SendType
  BY DEF Spend, Quota, Paying, TypeOK
<1>2. send'[s] = [send[s] EXCEPT !.pc = "prepare", !.paidIn = month]
      /\ \A r \in Sends \ {s} : send'[r] = send[r]
  BY DEF Spend, TypeOK
<1>3. send'[s].paidIn = month /\ send'[s].pc = "prepare" /\ send'[s].limit = send[s].limit
  BY <1>1, <1>2 DEF SendType
<1>4. used'[month] = used[month] + 1 /\ \A m \in Months \ {month} : used'[m] = used[m]
  BY <1>1 DEF Spend
<1>5. \A r \in Sends : Paying(r)'  BY <1>1, <1>2, <1>3 DEF Quota, Paying
<1>6. ASSUME NEW m \in Months
      PROVE  /\ PaidIn(m)' = IF m = month THEN PaidIn(m) \cup {s} ELSE PaidIn(m)
             /\ m = month => s \notin PaidIn(m)
  <2>1. s \notin PaidIn(m)  BY <1>1, ChatAssumption DEF PaidIn
  <2>2. \A r \in Sends \ {s} : send'[r].paidIn = m <=> send[r].paidIn = m  BY <1>2
  <2>3. s \in PaidIn(m)' <=> m = month  BY <1>3 DEF PaidIn
  <2>4. QED  BY <2>1, <2>2, <2>3 DEF PaidIn
<1>7. ASSUME NEW m \in Months
      PROVE  /\ used'[m] = Cardinality(PaidIn(m)') /\ used'[m] <= PRO
             /\ (\A r \in PaidIn(m)' : send'[r].limit = FREE) => used'[m] <= FREE
             /\ IsFiniteSet(PaidIn(m)')
  <2>0. /\ used[m] = Cardinality(PaidIn(m)) /\ used[m] <= PRO /\ IsFiniteSet(PaidIn(m))
        /\ (\A r \in PaidIn(m) : send[r].limit = FREE) => used[m] <= FREE
    BY DEF Quota, QuotaHolds, PaidIn
  <2>1. CASE m = month
    <3>1. IsFiniteSet(PaidIn(m)') /\ Cardinality(PaidIn(m)') = Cardinality(PaidIn(m)) + 1
      <4> DEFINE paid == PaidIn(m)
      <4>1. PaidIn(m)' = paid \cup {s} /\ s \notin paid  BY <1>6, <2>1
      <4>2. IsFiniteSet(paid)  BY <2>0
      <4> HIDE DEF paid
      <4>3. IsFiniteSet(paid \cup {s}) /\ Cardinality(paid \cup {s}) = Cardinality(paid) + 1
        BY <4>1, <4>2, FS_AddElement
      <4>4. QED  BY <4>1, <4>3 DEF paid
    <3>2. used'[m] = Cardinality(PaidIn(m)')  BY <1>4, <2>0, <2>1, <3>1
    <3>3. used'[m] <= send'[s].limit /\ used'[m] <= PRO
      BY <1>1, <1>3, <1>4, <2>1, ChatAssumption
    <3>4. s \in PaidIn(m)'  BY <1>6, <2>1
    <3>5. QED  BY <3>1, <3>2, <3>3, <3>4
  <2>2. CASE m # month
    <3>1. PaidIn(m)' = PaidIn(m) /\ used'[m] = used[m]  BY <1>4, <1>6, <2>2
    <3>2. \A r \in PaidIn(m) : send'[r].limit = send[r].limit  BY <1>2, <1>3 DEF PaidIn
    <3>3. QED  BY <2>0, <3>1, <3>2
  <2>3. QED  BY <2>1, <2>2
<1>8. QuotaHolds'  BY <1>7 DEF QuotaHolds, PaidIn
<1>9. QED  BY <1>5, <1>7, <1>8 DEF Quota

LEMMA NextQuota == Shape /\ Quota /\ [Next]_vars => Quota'
<1> SUFFICES ASSUME Shape, Quota, [Next]_vars PROVE Quota'  OBVIOUS
<1>0. TypeOK  BY DEF Shape
<1>1. ASSUME NEW s \in Sends, NEW id \in Ids, Receive(s, id) PROVE Quota'
  <2>1. send[s] \in SendType /\ send[s].pc = "new"  BY <1>0, <1>1, SendTyped DEF Receive
  <2>2. send'[s] = [send[s] EXCEPT !.pc = "quota", !.id = id,
                                   !.limit = IF isPro THEN PRO ELSE FREE]
        /\ (\A r \in Sends \ {s} : send'[r] = send[r]) /\ used' = used
    BY <1>0, <1>1 DEF Receive, OnlySend, TypeOK
  <2>3. send'[s].paidIn = send[s].paidIn /\ send'[s].limit \in {FREE, PRO}
    BY <2>1, <2>2 DEF SendType
  <2>4. QED  BY <2>1, <2>2, <2>3, NothingSpent DEF Quota, Paying
<1>2. ASSUME NEW s \in Sends,
             \/ QuotaExceeded(s) \/ Refuse(s) \/ LoseClaim(s) \/ Reply(s) \/ Fail(s)
             \/ ServerDies(s) \/ Claim(s) \/ Commit(s) \/ AppendTurn(s) \/ Release(s)
      PROVE  Quota'
  <2>1. /\ used' = used /\ send[s].pc # "new"
        /\ \E pc \in Pcs \ {"new", "quota"} : Goto(s, pc)
    BY <1>2 DEF QuotaExceeded, Refuse, LoseClaim, Reply, Fail, ServerDies, Claim, Commit,
       AppendTurn, Release, OnlySend, Pcs, Owning
  <2>2. QED  BY <1>0, <2>1, GotoUnpaid
<1>3. ASSUME NEW s \in Sends, Poll(s) PROVE Quota'
  <2>1. used' = used /\ send[s].pc = "polling"  BY <1>3 DEF Poll
  <2>2. CASE \E pc \in Pcs \ {"new", "quota"} : Goto(s, pc)
    BY <1>0, <2>1, <2>2, GotoUnpaid
  <2>3. CASE send' = [send EXCEPT ![s].polls = @ + 1,
                         ![s].pc = IF send[s].polls + 1 = CLAIM_POLL_ATTEMPTS
                                   THEN "failed" ELSE "polling"]
    <3> DEFINE new == [send[s] EXCEPT !.polls = @ + 1,
                         !.pc = IF send[s].polls + 1 = CLAIM_POLL_ATTEMPTS
                                THEN "failed" ELSE "polling"]
    <3>1. send' = [send EXCEPT ![s] = new]  BY <1>0, <2>3 DEF TypeOK
    <3>2. new.pc \in {"failed", "polling"} /\ new.paidIn = send[s].paidIn
          /\ new.limit = send[s].limit
      BY <1>0, SendTyped DEF SendType
    <3> HIDE DEF new
    <3>3. QED  BY <1>0, <2>1, <3>1, <3>2, OneSendUnpaid
  <2>4. QED  BY <1>3, <2>2, <2>3 DEF Poll, Pcs
<1>4. ASSUME NEW s \in Sends, Call(s) \/ NextModel(s) \/ Headers(s) \/ Disconnect(s)
      PROVE  Quota'
  <2>1. send[s] \in SendType /\ send[s].pc \in {"history", "calling", "streaming"}
        /\ used' = used
    BY <1>0, <1>4, SendTyped DEF Call, NextModel, Headers, Disconnect, OnlySend
  <2>2. /\ send'[s].paidIn = send[s].paidIn /\ send'[s].limit = send[s].limit
        /\ send'[s].pc \in {"calling", "streaming"}
        /\ \A r \in Sends \ {s} : send'[r] = send[r]
    BY <1>0, <1>4, <2>1 DEF Call, NextModel, Headers, Disconnect, TypeOK, SendType
  <2>3. QED  BY <2>1, <2>2, NothingSpent DEF Quota, Paying
<1>5. CASE Tick
  <2>1. \A s \in Sends : /\ send'[s].pc = send[s].pc /\ send'[s].paidIn = send[s].paidIn
                          /\ send'[s].limit = send[s].limit
    BY <1>0, <1>5 DEF Tick, TypeOK, SendType
  <2>2. QED  BY <1>5, <2>1, NothingSpent DEF Tick, Quota, Paying
<1>6. CASE ClearSession \/ ProChanges \/ NewMonth \/ UNCHANGED vars
  <2>1. UNCHANGED <<send, used>>  BY <1>6 DEF ClearSession, ProChanges, NewMonth, vars
  <2>2. QED  BY <2>1, NothingSpent DEF Quota, Paying
<1>7. ASSUME NEW s \in Sends, Spend(s) PROVE Quota'  BY <1>0, <1>7, SpendPays
<1>8. QED  BY <1>1, <1>2, <1>3, <1>4, <1>5, <1>6, <1>7 DEF Next, SendStep

(* Whatever the limits are and however many requests arrive at the last    *)
(* unit, each accepted one has paid one unit, and none is accepted beyond  *)
(* the limit it was read.                                                  *)
THEOREM QuotaAlwaysHolds == Spec => []QuotaHolds
<1>1. Spec => [](Shape /\ Quota)
  BY InitShape, InitQuota, NextShape, NextQuota, PTL DEF Spec
<1>2. Shape /\ Quota => QuotaHolds  BY DEF Quota
<1>3. QED  BY <1>1, <1>2, PTL
=============================================================================
