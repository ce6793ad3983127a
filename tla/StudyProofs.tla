----------------------------- MODULE StudyProofs -----------------------------
(***************************************************************************)
(* What a student does beside quizzes and word reviews, for any number of  *)
(* requests, connections, turns, attempts and roadmaps: a lesson step is   *)
(* only set back by a report that read the row before another one wrote    *)
(* it; a completed speaking attempt counts the turns of its one            *)
(* conversation; the roadmap is that of the placement test it names, with  *)
(* a plan made for it; no day holds more study time than passed of it and  *)
(* one flush of each other device; and what a student is told of his       *)
(* listening practice is what his attempts add up to.  A course shows what *)
(* is done and leads on to what is not, while its authors change it; and   *)
(* no piece outlives its topic, nor a topic what was practised in it.      *)
(***************************************************************************)
EXTENDS LessonSteps, SpeakingLive, Placement, StudyClock, Listening, Catalogue,
        PublishedTopics, FiniteSetTheorems, TLAPS

(***************************************************************************)
(* Lesson steps.  `writes` is the version of a row: a request that found   *)
(* it at the version it still has found the row that is still there, and   *)
(* what it makes of that row keeps what the row says.                      *)
(***************************************************************************)
ReportType ==
    [pc : {"new", "read", "write", "done"}, step : StepKinds \cup {None},
     sent : Reports \cup {"start", "complete", None}, read : StepRowType \cup {None},
     at : Nat, retried : BOOLEAN]

ReportInv(p, rows, n) ==
    /\ p.pc \in {"read", "write"} => /\ p.step \in StepKinds
                                     /\ p.step = "VIDEO" => p.sent \in Reports
    /\ p.pc = "write" => /\ p.at <= n[p.step]
                         /\ p.at = n[p.step] => p.read = rows[p.step]

StepsInv ==
    /\ stepRow \in [StepKinds -> StepRowType \cup {None}]
    /\ writes \in [StepKinds -> Nat]
    /\ report \in [Reporters -> ReportType]
    /\ stepRow["THEORY"] # None => stepRow["THEORY"].highest = 0
    /\ \A r \in Reporters : ReportInv(report[r], stepRow, writes)

\* What a transaction writes keeps what the row it read said.
LEMMA CombinedKeeps ==
    ASSUME NEW step \in StepKinds, NEW read \in StepRowType \cup {None}, NEW sent,
           step = "VIDEO" => sent \in Reports
    PROVE  /\ combined(step, read, sent) \in StepRowType
           /\ step = "THEORY" => combined(step, read, sent).highest = 0
           /\ read # None => /\ read.completed => combined(step, read, sent).completed
                             /\ step = "VIDEO" =>
                                   combined(step, read, sent).highest >= read.highest
<1>1. CASE step = "THEORY"
  <2> DEFINE done == sent = "complete" \/ (read # None /\ read.completed)
  <2>1. combined(step, read, sent) = [completed |-> done, highest |-> 0, duration |-> 0]
    BY <1>1 DEF combined
  <2>2. done \in BOOLEAN /\ (read # None /\ read.completed => done)
    OBVIOUS
  <2> HIDE DEF done
  <2> QED BY <1>1, <2>1, <2>2 DEF StepRowType
<1>2. CASE step = "VIDEO"
  <2> DEFINE frozen  == IF read = None THEN sent.duration ELSE read.duration
             before  == IF read = None THEN 0 ELSE read.highest
             highest == IF clamped(sent) > before THEN clamped(sent) ELSE before
             done    == (read # None /\ read.completed) \/ reaches(highest, frozen)
  <2>1. combined(step, read, sent) =
          [completed |-> done, highest |-> highest, duration |-> frozen]
    BY <1>2 DEF combined
  <2>2. clamped(sent) \in Nat /\ sent.duration \in Nat
    BY <1>2, StepsAssumption DEF clamped
  <2>3. frozen \in Nat /\ before \in Nat
    BY <2>2 DEF StepRowType
  <2>4. highest \in Nat /\ highest >= before
    BY <2>2, <2>3
  <2>5. done \in BOOLEAN
    BY DEF reaches
  <2>6. read # None => (read.completed => done) /\ highest >= read.highest
    BY <2>4
  <2> HIDE DEF done, highest, frozen
  <2> QED BY <1>2, <2>1, <2>3, <2>4, <2>5, <2>6 DEF StepRowType
<1> QED BY <1>1, <1>2 DEF StepKinds

LEMMA StepsInitInv == StepsInit => StepsInv
BY DEF StepsInit, StepsInv, NewReport, ReportType, ReportInv, StepKinds

\* A request that moves on leaves the others what they had.
LEMMA ReportMoves ==
    ASSUME StepsInv, NEW r \in Reporters, NEW p \in ReportType,
           ReportInv(p, stepRow, writes),
           report' = [report EXCEPT ![r] = p],
           UNCHANGED <<stepRow, stepXp, writes>>
    PROVE  StepsInv'
BY DEF StepsInv

LEMMA WriteStepInv ==
    ASSUME StepsInv, NEW r \in Reporters, WriteStep(r)
    PROVE  /\ StepsInv'
           /\ \A s \in StepKinds :
                 stepRow'[s] # stepRow[s] =>
                    /\ report[r].pc = "write" /\ report'[r].pc = "done" /\ report[r].step = s
                    /\ report[r].at <= writes[s]
                    /\ stepRow[s] # None /\ report[r].at = writes[s] =>
                          /\ stepRow[s].completed => stepRow'[s].completed
                          /\ stepRow'[s].highest >= stepRow[s].highest
<1> DEFINE p   == report[r]
           s   == p.step
           row == combined(s, p.read, p.sent)
<1>1. /\ p \in ReportType /\ p.pc = "write" /\ s \in StepKinds /\ p.at \in Nat
      /\ p.read \in StepRowType \cup {None}
      /\ s = "VIDEO" => p.sent \in Reports
      /\ p.at <= writes[s] /\ writes[s] \in Nat
      /\ p.at = writes[s] => p.read = stepRow[s]
  BY DEF StepsInv, ReportInv, WriteStep, ReportType
<1>2. /\ row \in StepRowType
      /\ s = "THEORY" => row.highest = 0
      /\ p.read # None => /\ p.read.completed => row.completed
                          /\ s = "VIDEO" => row.highest >= p.read.highest
  BY <1>1, CombinedKeeps
<1>3. /\ stepRow' = [stepRow EXCEPT ![s] = row]
      /\ writes' = [writes EXCEPT ![s] = writes[s] + 1]
      /\ report' = [report EXCEPT ![r].pc = "done"]
  BY DEF WriteStep
<1> HIDE DEF row, s, p
<1>4. row # None
  BY <1>2, StepsAssumption
<1>5. /\ stepRow' \in [StepKinds -> StepRowType \cup {None}]
      /\ writes' \in [StepKinds -> Nat]
      /\ stepRow'[s] = row /\ writes'[s] = writes[s] + 1
      /\ \A k \in StepKinds \ {s} : stepRow'[k] = stepRow[k] /\ writes'[k] = writes[k]
  BY <1>1, <1>2, <1>3 DEF StepsInv
<1>6. /\ report' \in [Reporters -> ReportType] /\ report'[r].pc = "done"
      /\ \A q \in Reporters \ {r} : report'[q] = report[q]
  BY <1>3 DEF StepsInv, ReportType
<1>7. stepRow'["THEORY"] # None => stepRow'["THEORY"].highest = 0
  BY <1>1, <1>2, <1>5 DEF StepsInv, StepKinds
<1>8. ASSUME NEW q \in Reporters
      PROVE  ReportInv(report'[q], stepRow', writes')
  <2>1. CASE q = r
    BY <1>6, <2>1 DEF ReportInv
  <2>2. CASE q # r /\ report[q].step = s
    BY <1>1, <1>5, <1>6, <2>2 DEF ReportInv, StepsInv, ReportType
  <2>3. CASE q # r /\ report[q].step # s
    BY <1>5, <1>6, <2>3 DEF ReportInv, StepsInv, ReportType
  <2> QED BY <2>1, <2>2, <2>3
<1>9. StepsInv'
  BY <1>5, <1>6, <1>7, <1>8 DEF StepsInv
<1>10. ASSUME stepRow[s] # None, p.at = writes[s]
       PROVE  /\ stepRow[s].completed => row.completed
              /\ row.highest >= stepRow[s].highest
  <2>1. p.read = stepRow[s]
    BY <1>1, <1>10
  <2>2. CASE s = "VIDEO"
    BY <1>2, <1>10, <2>1, <2>2
  <2>3. CASE s = "THEORY"
    BY <1>2, <1>10, <2>1, <2>3 DEF StepsInv
  <2> QED BY <1>1, <2>2, <2>3 DEF StepKinds
<1> QED BY <1>1, <1>5, <1>6, <1>9, <1>10 DEF p, s

LEMMA StepsNextInv == StepsInv /\ [StepsNext]_stepVars => StepsInv'
<1> SUFFICES ASSUME StepsInv, [StepsNext]_stepVars PROVE StepsInv'
  OBVIOUS
<1>1. CASE UNCHANGED stepVars
  BY <1>1 DEF StepsInv, stepVars
<1>2. ASSUME NEW r \in Reporters, NEW step \in StepKinds,
             NEW sent \in Reports \cup {"start", "complete"},
             step = "VIDEO" => sent \in Reports, Send(r, step, sent)
      PROVE  StepsInv'
  <2> DEFINE p == [report[r] EXCEPT !.pc = "read", !.step = step, !.sent = sent]
  <2>1. p \in ReportType /\ p.pc = "read" /\ p.step = step /\ p.sent = sent
    BY DEF StepsInv, ReportType
  <2>2. report' = [report EXCEPT ![r] = p] /\ UNCHANGED <<stepRow, stepXp, writes>>
    BY <1>2 DEF Send
  <2> HIDE DEF p
  <2> QED BY <1>2, <2>1, <2>2, ReportMoves DEF ReportInv
<1>3. ASSUME NEW r \in Reporters, ReadStep(r)
      PROVE  StepsInv'
  <2> DEFINE s == report[r].step
             p == [report[r] EXCEPT !.pc = "write", !.read = stepRow[s], !.at = writes[s]]
  <2>1. /\ s \in StepKinds /\ report[r] \in ReportType
        /\ s = "VIDEO" => report[r].sent \in Reports
    BY <1>3 DEF StepsInv, ReportInv, ReadStep
  <2>2. /\ p \in ReportType /\ p.step = s /\ p.sent = report[r].sent
        /\ p.read = stepRow[s] /\ p.at = writes[s] /\ writes[s] \in Nat
    BY <2>1 DEF StepsInv, ReportType
  <2>3. report' = [report EXCEPT ![r] = p] /\ UNCHANGED <<stepRow, stepXp, writes>>
    BY <1>3 DEF ReadStep
  <2> HIDE DEF p, s
  <2>4. ReportInv(p, stepRow, writes)
    BY <2>1, <2>2 DEF ReportInv
  <2> QED BY <2>2, <2>3, <2>4, ReportMoves
<1>4. ASSUME NEW r \in Reporters, LoseCreate(r)
      PROVE  StepsInv'
  <2> DEFINE again == report[r].step = "VIDEO" /\ ~report[r].retried
             p == [report[r] EXCEPT !.pc = IF again THEN "read" ELSE "done", !.retried = TRUE]
  <2>1. /\ report[r].step \in StepKinds /\ report[r] \in ReportType
        /\ report[r].step = "VIDEO" => report[r].sent \in Reports
    BY <1>4 DEF StepsInv, ReportInv, LoseCreate
  <2>2. /\ p \in ReportType /\ p.pc \in {"read", "done"}
        /\ p.step = report[r].step /\ p.sent = report[r].sent
    BY <2>1 DEF ReportType
  <2>3. report' = [report EXCEPT ![r] = p] /\ UNCHANGED <<stepRow, stepXp, writes>>
    BY <1>4 DEF LoseCreate
  <2> HIDE DEF p
  <2> QED BY <2>1, <2>2, <2>3, ReportMoves DEF ReportInv
<1>5. ASSUME NEW r \in Reporters, FailStep(r)
      PROVE  StepsInv'
  <2> DEFINE p == [report[r] EXCEPT !.pc = "done"]
  <2>1. p \in ReportType /\ p.pc = "done"
    BY DEF StepsInv, ReportType
  <2>2. report' = [report EXCEPT ![r] = p] /\ UNCHANGED <<stepRow, stepXp, writes>>
    BY <1>5 DEF FailStep
  <2> HIDE DEF p
  <2> QED BY <2>1, <2>2, ReportMoves DEF ReportInv
<1>6. ASSUME NEW r \in Reporters,
             RecordVideoProgress(r) \/ StartTheory(r) \/ CompleteTheory(r)
      PROVE  StepsInv'
  BY <1>2, <1>6 DEF RecordVideoProgress, StartTheory, CompleteTheory, StepKinds
<1> QED BY <1>1, <1>3, <1>4, <1>5, <1>6, WriteStepInv DEF StepsNext

(* SetBackOnlyByStaleReport for any number of requests and reports: a      *)
(* completed step stays completed, and a video where it was, unless a      *)
(* request writes over a row it read before another one wrote it           *)
(* (recordVideoProgress, completeTheory).                                  *)
THEOREM SetBackAlwaysByStaleReport == StepsSpec => SetBackOnlyByStaleReport
<1>1. ASSUME StepsInv, [StepsNext]_stepVars, NEW s \in StepKinds, stepRow[s] # None,
             \/ stepRow[s].completed /\ ~stepRow'[s].completed
             \/ stepRow'[s].highest < stepRow[s].highest
      PROVE  \E r \in Reporters :
                /\ report[r].pc = "write" /\ report'[r].pc = "done"
                /\ report[r].step = s /\ report[r].at < writes[s]
  <2>1. stepRow[s] \in StepRowType
    BY <1>1 DEF StepsInv
  <2>2. stepRow'[s] # stepRow[s]
    BY <1>1, <2>1 DEF StepRowType
  <2>3. PICK r \in Reporters : WriteStep(r)
    BY <1>1, <2>2 DEF StepsNext, stepVars, RecordVideoProgress, StartTheory, CompleteTheory,
                      Send, ReadStep, LoseCreate, FailStep
  <2>4. /\ StepsInv' /\ report[r].pc = "write" /\ report'[r].pc = "done"
        /\ report[r].step = s /\ report[r].at <= writes[s]
        /\ report[r].at = writes[s] => /\ stepRow[s].completed => stepRow'[s].completed
                                       /\ stepRow'[s].highest >= stepRow[s].highest
    BY <1>1, <2>2, <2>3, WriteStepInv
  <2>5. /\ report[r].at \in Nat /\ writes[s] \in Nat /\ stepRow[s].highest \in Nat
        /\ stepRow'[s] \in StepRowType \cup {None}
    BY <1>1, <2>1, <2>4 DEF StepsInv, ReportType, StepRowType
  <2>6. stepRow'[s] \in StepRowType
    <3>1. s = report[r].step /\ stepRow'[s] = combined(s, report[r].read, report[r].sent)
      BY <1>1, <2>3, <2>4 DEF WriteStep, StepsInv
    <3>2. /\ report[r].read \in StepRowType \cup {None}
          /\ s = "VIDEO" => report[r].sent \in Reports
      BY <1>1, <2>4 DEF StepsInv, ReportInv, ReportType
    <3> QED BY <3>1, <3>2, CombinedKeeps
  <2>7. stepRow'[s].highest \in Nat
    BY <2>6 DEF StepRowType
  <2>8. report[r].at # writes[s]
    BY <1>1, <2>4, <2>5, <2>7
  <2> QED BY <2>4, <2>5, <2>8
<1>2. StepsInv /\ [StepsNext]_stepVars =>
        [\A s \in StepKinds :
          /\ stepRow[s] # None
          /\ \/ stepRow[s].completed /\ ~stepRow'[s].completed
             \/ stepRow'[s].highest < stepRow[s].highest
          => \E r \in Reporters :
                /\ report[r].pc = "write" /\ report'[r].pc = "done"
                /\ report[r].step = s /\ report[r].at < writes[s]]_stepVars
  BY <1>1
<1> QED BY <1>2, StepsInitInv, StepsNextInv, PTL DEF StepsSpec, SetBackOnlyByStaleReport
-----------------------------------------------------------------------------
(***************************************************************************)
(* Speaking.  The script that answers for a ticket deletes it, so one      *)
(* connection at most gets past it for each attempt (OneConversation), and *)
(* what that connection has under way and saved is what was begun          *)
(* (OnlyBegun).  A completion says what Redis held when it counted, and    *)
(* every turn saved since is late (Tallied).                               *)
(***************************************************************************)
SocketType ==
    [pc : {"new", "ticket", "limit", "context", "connect", "served", "rejected"},
     a : Attempts \cup {None}, open : BOOLEAN]
LiveType ==
    [phase : {"idle", "opening", "active"}, up : BOOLEAN, ended : BOOLEAN,
     user : BOOLEAN, ai : BOOLEAN]
CompletionType ==
    [pc : {"new", "told", "count", "write", "clear", "done", "failed"},
     a : Attempts \cup {None}, count : Nat]

SpeakTyped ==
    /\ attempt \in [Attempts -> AttemptType \cup {None}]
    /\ ticket \in [Attempts -> {"none", "live", "refused", "gone"}]
    /\ turns \in [Attempts -> Nat]
    /\ socket \in [Sockets -> SocketType]
    /\ live \in [Sockets -> LiveType]
    /\ saving \in [Sockets -> Nat]
    /\ completion \in [Completions -> CompletionType]
    /\ asked \in [Attempts -> Nat] /\ spoken \in [Attempts -> Nat]
    /\ late \in [Attempts -> Nat] /\ opened \in [Attempts -> Nat]
    /\ \A s \in Sockets : socket[s].pc # "new" => socket[s].a \in Attempts
    /\ \A c \in Completions : completion[c].pc # "new" => completion[c].a \in Attempts

Admitted(k) == k.pc \in {"limit", "context", "connect", "served"}

OneConversation ==
    /\ \A s \in Sockets : Admitted(socket[s]) => ticket[socket[s].a] = "gone"
    /\ \A s, t \in Sockets :
          Admitted(socket[s]) /\ Admitted(socket[t]) /\ socket[s].a = socket[t].a => s = t
    /\ \A a \in Attempts : opened[a] <= 1 /\ (opened[a] # 0 => ticket[a] = "gone")
    /\ \A s \in Sockets :
          Admitted(socket[s]) /\ socket[s].pc # "served" => opened[socket[s].a] = 0

UnderWay(l) == IF l.up /\ ~l.ended /\ l.phase = "active" THEN 1 ELSE 0

OnlyBegun ==
    /\ \A a \in Attempts : spoken[a] <= asked[a]
    /\ \A s \in Sockets :
          IF socket[s].pc = "served"
          THEN LET a == socket[s].a IN spoken[a] + saving[s] + UnderWay(live[s]) <= asked[a]
          ELSE saving[s] = 0 /\ ~live[s].up

Tells(p, a) == p.a = a /\ p.pc \in {"write", "clear", "done"}

Tallied ==
    \A a \in Attempts \ blurred :
        /\ ~Counted(a) => /\ turns[a] = spoken[a] /\ late[a] = 0
                          /\ attempt[a] # None => ~attempt[a].completed
        /\ \A c \in Completions :
              Tells(completion[c], a) => completion[c].count + late[a] = spoken[a]
        /\ attempt[a] # None /\ attempt[a].completed =>
              attempt[a].turnCount + late[a] = spoken[a]

SpeakInv == SpeakTyped /\ OneConversation /\ OnlyBegun /\ Tallied

LEMMA SpeakInitInv == SpeakInit => SpeakInv
<1> SUFFICES ASSUME SpeakInit PROVE SpeakInv
  OBVIOUS
<1>1. SpeakTyped
  BY DEF SpeakInit, SpeakTyped, SocketType, LiveType, CompletionType, NoSession
<1>2. OneConversation
  BY DEF SpeakInit, OneConversation, Admitted
<1>3. OnlyBegun
  BY DEF SpeakInit, OnlyBegun, NoSession
<1>4. Tallied
  BY DEF SpeakInit, Tallied, Tells
<1> QED BY <1>1, <1>2, <1>3, <1>4 DEF SpeakInv

\* The steps, by what they touch.
TicketStep(a) == Start(a) \/ Issue(a) \/ ExpireTicket(a) \/ ExpireTurns(a)
Handshake(s)  == \/ \E a \in Attempts : Connect(s, a)
                 \/ Consume(s) \/ RateLimit(s) \/ LoadContext(s) \/ SessionFails(s)
Talk(s)       == \/ Disconnect(s) \/ ActivityStart(s) \/ TurnComplete(s) \/ Fatal(s)
                 \/ \E who \in {"user", "ai"} : Transcribed(s, who)
Save(s)       == AppendTurn(s) \/ AppendFails(s)
Complete(c)   == \/ \E a \in Attempts : CompleteRead(c, a)
                 \/ Count(c) \/ WriteCompletion(c) \/ Clear(c) \/ CompleteFails(c)

LEMMA SpeakSteps ==
    ASSUME SpeakNext
    PROVE  \/ \E a \in Attempts : TicketStep(a)
           \/ \E s \in Sockets : Handshake(s) \/ SessionUp(s) \/ Talk(s) \/ Save(s)
           \/ \E c \in Completions : Complete(c)
BY DEF SpeakNext, TicketStep, Handshake, Talk, Save, Complete

\* A counter that goes up by one, or is set.
LEMMA CounterSet ==
    ASSUME NEW S, NEW f \in [S -> Nat], NEW x, NEW n, x \in S => n \in Nat
    PROVE  [f EXCEPT ![x] = n] \in [S -> Nat]
OBVIOUS

LEMMA CounterUp ==
    ASSUME NEW S, NEW f \in [S -> Nat], NEW x
    PROVE  [f EXCEPT ![x] = f[x] + 1] \in [S -> Nat]
<1> DEFINE n == f[x] + 1
<1>1. x \in S => n \in Nat
  OBVIOUS
<1> HIDE DEF n
<1>2. [f EXCEPT ![x] = n] \in [S -> Nat]
  BY <1>1, CounterSet
<1> QED BY <1>2 DEF n
-----------------------------------------------------------------------------
(* Every step leaves the state typed.                                      *)
LEMMA TicketStepTyped ==
    ASSUME SpeakTyped, NEW a \in Attempts, TicketStep(a)
    PROVE  SpeakTyped'
<1>1. CASE Start(a)
  BY <1>1 DEF Start, SpeakTyped, Histories, AttemptType
<1>2. CASE Issue(a)
  BY <1>2 DEF Issue, SpeakTyped, Histories
<1>3. CASE ExpireTicket(a)
  BY <1>3 DEF ExpireTicket, SpeakTyped, Histories
<1>4. CASE ExpireTurns(a)
  BY <1>4 DEF ExpireTurns, SpeakTyped
<1> QED BY <1>1, <1>2, <1>3, <1>4 DEF TicketStep

\* A socket that moves on keeps its attempt.
LEMMA MoveTyped ==
    ASSUME SpeakTyped, NEW s \in Sockets, socket[s].pc # "new",
           NEW pc \in {"limit", "context", "connect", "served"},
           Move(s, pc) \/ Reject(s)
    PROVE  /\ socket' \in [Sockets -> SocketType]
           /\ \A t \in Sockets : socket'[t].pc # "new" => socket'[t].a \in Attempts
           /\ \A t \in Sockets \ {s} : socket'[t] = socket[t]
           /\ socket'[s].a = socket[s].a
           /\ socket'[s].pc = pc \/ socket'[s].pc = "rejected"
<1>1. CASE Move(s, pc)
  BY <1>1 DEF SpeakTyped, Move, SocketType
<1>2. CASE Reject(s)
  <2> DEFINE k == [socket[s] EXCEPT !.pc = "rejected", !.open = FALSE]
  <2>1. k \in SocketType /\ k.pc = "rejected" /\ k.a = socket[s].a
    BY DEF SpeakTyped, SocketType
  <2>2. socket' = [socket EXCEPT ![s] = k]
    BY <1>2 DEF Reject
  <2> HIDE DEF k
  <2> QED BY <2>1, <2>2 DEF SpeakTyped
<1> QED BY <1>1, <1>2

LEMMA HandshakeTyped ==
    ASSUME SpeakTyped, NEW s \in Sockets, Handshake(s)
    PROVE  SpeakTyped'
<1>1. CASE \E a \in Attempts : Connect(s, a)
  BY <1>1 DEF Connect, SpeakTyped, SocketType, Histories
<1>2. CASE Consume(s)
  <2>1. ticket' \in [Attempts -> {"none", "live", "refused", "gone"}]
    BY <1>2 DEF Consume, SpeakTyped
  <2> QED BY <1>2, <2>1, MoveTyped DEF Consume, SpeakTyped, Histories
<1>3. CASE RateLimit(s)
  BY <1>3, MoveTyped DEF RateLimit, SpeakTyped, Histories
<1>4. CASE LoadContext(s)
  BY <1>4, MoveTyped DEF LoadContext, SpeakTyped, Histories
<1>5. CASE SessionFails(s)
  BY <1>5, MoveTyped DEF SessionFails, SpeakTyped, Histories
<1> QED BY <1>1, <1>2, <1>3, <1>4, <1>5 DEF Handshake

LEMMA SessionUpTyped ==
    ASSUME SpeakTyped, NEW s \in Sockets, SessionUp(s)
    PROVE  SpeakTyped'
<1>1. [NoSession EXCEPT !.phase = "opening", !.up = TRUE] \in LiveType
  BY DEF LiveType, NoSession
<1>2. live' \in [Sockets -> LiveType]
  BY <1>1 DEF SessionUp, SpeakTyped
<1>3. opened' \in [Attempts -> Nat]
  BY DEF SessionUp, SpeakTyped
<1> QED BY <1>2, <1>3, MoveTyped DEF SessionUp, SpeakTyped

LEMMA TalkTyped ==
    ASSUME SpeakTyped, NEW s \in Sockets, Talk(s)
    PROVE  SpeakTyped'
<1>1. CASE Disconnect(s)
  BY <1>1, ZenonT(60) DEF Disconnect, SpeakTyped, SocketType, LiveType, NoSession, Histories
<1>2. CASE ActivityStart(s)
  <2> DEFINE l == [live[s] EXCEPT !.phase = "active", !.user = FALSE, !.ai = FALSE]
  <2>1. l \in LiveType
    BY DEF SpeakTyped, LiveType
  <2>2. /\ live' = [live EXCEPT ![s] = l]
        /\ asked' = [asked EXCEPT ![socket[s].a] = asked[socket[s].a] + 1]
        /\ UNCHANGED <<attempt, ticket, turns, socket, saving, completion, spoken, late, opened>>
    BY <1>2 DEF ActivityStart
  <2> HIDE DEF l
  <2>3. live' \in [Sockets -> LiveType] /\ asked' \in [Attempts -> Nat]
    BY <2>1, <2>2, CounterUp DEF SpeakTyped
  <2> QED BY <2>2, <2>3 DEF SpeakTyped
<1>3. CASE TurnComplete(s)
  <2> DEFINE l == [live[s] EXCEPT !.phase = "idle", !.user = FALSE, !.ai = FALSE]
  <2>1. l \in LiveType
    BY ZenonT(60) DEF SpeakTyped, LiveType
  <2>2. live' = [live EXCEPT ![s] = l]
    BY <1>3 DEF TurnComplete
  <2> HIDE DEF l
  <2>3. live' \in [Sockets -> LiveType]
    BY <2>1, <2>2 DEF SpeakTyped
  <2>4. saving' \in [Sockets -> Nat]
    BY <1>3 DEF TurnComplete, SpeakTyped
  <2> QED BY <1>3, <2>3, <2>4 DEF TurnComplete, SpeakTyped, Histories
<1>4. CASE Fatal(s)
  BY <1>4 DEF Fatal, SpeakTyped, LiveType, NoSession, Histories
<1>5. ASSUME NEW who \in {"user", "ai"}, Transcribed(s, who)
      PROVE  SpeakTyped'
  BY <1>5, ZenonT(60) DEF Transcribed, SpeakTyped, LiveType, Histories
<1> QED BY <1>1, <1>2, <1>3, <1>4, <1>5 DEF Talk

LEMMA SaveTyped ==
    ASSUME SpeakTyped, NEW s \in Sockets, Save(s)
    PROVE  SpeakTyped'
<1>1. CASE AppendTurn(s)
  <2> DEFINE a == socket[s].a
             n == IF turns[a] < MaxTurns THEN turns[a] + 1 ELSE turns[a]
  <2>1. /\ saving' = [saving EXCEPT ![s] = saving[s] - 1]
        /\ turns' = [turns EXCEPT ![a] = n]
        /\ spoken' = [spoken EXCEPT ![a] = spoken[a] + 1]
        /\ late' = late \/ late' = [late EXCEPT ![a] = late[a] + 1]
    BY <1>1 DEF AppendTurn
  <2>2. a \in Attempts => n \in Nat
    BY DEF SpeakTyped
  <2>3. saving[s] - 1 \in Nat
    BY <1>1 DEF AppendTurn, SpeakTyped
  <2> HIDE DEF a, n
  <2>4. saving' \in [Sockets -> Nat] /\ turns' \in [Attempts -> Nat]
    BY <2>1, <2>2, <2>3, CounterSet DEF SpeakTyped
  <2>5. spoken' \in [Attempts -> Nat] /\ late' \in [Attempts -> Nat]
    BY <2>1, CounterUp DEF SpeakTyped
  <2> QED BY <1>1, <2>4, <2>5 DEF AppendTurn, SpeakTyped
<1>2. CASE AppendFails(s)
  BY <1>2 DEF AppendFails, SpeakTyped, Histories
<1> QED BY <1>1, <1>2 DEF Save

LEMMA CompleteTyped ==
    ASSUME SpeakTyped, NEW c \in Completions, Complete(c)
    PROVE  SpeakTyped'
<1>1. ASSUME NEW a \in Attempts, CompleteRead(c, a)
      PROVE  SpeakTyped'
  BY <1>1 DEF CompleteRead, SpeakTyped, CompletionType, Histories
<1>2. CASE Count(c)
  BY <1>2, ZenonT(60) DEF Count, SpeakTyped, CompletionType
<1>3. CASE WriteCompletion(c)
  BY <1>3 DEF WriteCompletion, SpeakTyped, CompletionType, AttemptType, Histories
<1>4. CASE Clear(c)
  BY <1>4 DEF Clear, SpeakTyped, CompletionType, Histories
<1>5. CASE CompleteFails(c)
  BY <1>5 DEF CompleteFails, SpeakTyped, CompletionType, Histories
<1> QED BY <1>1, <1>2, <1>3, <1>4, <1>5 DEF Complete
-----------------------------------------------------------------------------
(* One conversation: nobody is admitted but by the step that deletes the   *)
(* ticket, and it never comes back.                                        *)
LEMMA AdmittedStays ==
    ASSUME OneConversation, NEW s \in Sockets, Admitted(socket[s]),
           \A t \in Sockets \ {s} : socket'[t] = socket[t],
           socket'[s].a = socket[s].a, socket'[s].pc # "served",
           socket'[s].pc = "rejected" \/ socket[s].pc # "served",
           UNCHANGED <<ticket, opened>>
    PROVE  OneConversation'
BY DEF OneConversation, Admitted

LEMMA TicketStepOne ==
    ASSUME SpeakTyped, OneConversation, NEW a \in Attempts, TicketStep(a)
    PROVE  OneConversation'
<1>1. CASE Start(a) \/ ExpireTurns(a)
  BY <1>1 DEF Start, ExpireTurns, OneConversation, Histories
<1>2. CASE Issue(a)
  <2>1. /\ ticket[a] = "none" /\ UNCHANGED <<socket, opened>>
        /\ \A b \in Attempts \ {a} : ticket'[b] = ticket[b]
    BY <1>2 DEF Issue, SpeakTyped, Histories
  <2>2. /\ opened[a] = 0
        /\ \A t \in Sockets : Admitted(socket[t]) => socket[t].a \in Attempts \ {a}
    BY <2>1 DEF OneConversation, SpeakTyped, Admitted
  <2> QED BY <2>1, <2>2 DEF OneConversation, Admitted
<1>3. CASE ExpireTicket(a)
  BY <1>3 DEF ExpireTicket, SpeakTyped, OneConversation, Histories
<1> QED BY <1>1, <1>2, <1>3 DEF TicketStep

LEMMA HandshakeOne ==
    ASSUME SpeakTyped, OneConversation, NEW s \in Sockets, Handshake(s)
    PROVE  OneConversation'
<1>1. CASE \E a \in Attempts : Connect(s, a)
  BY <1>1 DEF Connect, SpeakTyped, SocketType, OneConversation, Admitted, Histories
<1>2. CASE Consume(s)
  <2> DEFINE a == socket[s].a
  <2>1. /\ a \in Attempts /\ socket[s].pc = "ticket" /\ UNCHANGED opened
        /\ \A t \in Sockets \ {s} : socket'[t] = socket[t]
        /\ socket'[s].a = a
        /\ socket'[s].pc \in {"limit", "rejected"}
    BY <1>2, MoveTyped DEF Consume, SpeakTyped, Histories
  <2>2. CASE ticket[a] = "live"
    <3>1. /\ ticket'[a] = "gone"
          /\ \A b \in Attempts \ {a} : ticket'[b] = ticket[b]
      BY <1>2, <2>1, <2>2 DEF Consume, SpeakTyped
    <3>2. opened[a] = 0 /\ \A t \in Sockets : Admitted(socket[t]) => socket[t].a # a
      BY <2>1, <2>2 DEF OneConversation
    <3>3. \A t \in Sockets : Admitted(socket[t]) => socket[t].a \in Attempts
      BY DEF SpeakTyped, Admitted
    <3> HIDE DEF a
    <3>4. ASSUME NEW t \in Sockets, Admitted(socket'[t])
          PROVE  /\ ticket'[socket'[t].a] = "gone"
                 /\ socket'[t].a = a => t = s
                 /\ t # s => socket'[t] = socket[t] /\ socket[t].a # a
      BY <2>1, <3>1, <3>2, <3>3, <3>4 DEF OneConversation
    <3>5. \A t, u \in Sockets :
             Admitted(socket'[t]) /\ Admitted(socket'[u]) /\ socket'[t].a = socket'[u].a => t = u
      BY <2>1, <3>4 DEF OneConversation
    <3>6. \A b \in Attempts : opened'[b] <= 1 /\ (opened'[b] # 0 => ticket'[b] = "gone")
      BY <2>1, <3>1 DEF OneConversation
    <3>7. \A t \in Sockets :
             Admitted(socket'[t]) /\ socket'[t].pc # "served" => opened'[socket'[t].a] = 0
      BY <2>1, <3>2, <3>4 DEF OneConversation
    <3> QED BY <3>4, <3>5, <3>6, <3>7 DEF OneConversation, Admitted
  <2>3. CASE ticket[a] # "live"
    <3>1. socket'[s].pc = "rejected" /\ UNCHANGED ticket
      BY <1>2, <2>3 DEF Consume, Reject, SpeakTyped, SocketType
    <3> HIDE DEF a
    <3> QED BY <2>1, <3>1 DEF OneConversation, Admitted
  <2> QED BY <2>2, <2>3
<1>3. CASE RateLimit(s) \/ LoadContext(s) \/ SessionFails(s)
  <2>1. /\ socket[s].pc \in {"limit", "context", "connect"} /\ UNCHANGED <<ticket, opened>>
        /\ \E pc \in {"context", "connect"} : Move(s, pc) \/ Reject(s)
    BY <1>3 DEF RateLimit, LoadContext, SessionFails, Histories
  <2>2. /\ \A t \in Sockets \ {s} : socket'[t] = socket[t]
        /\ socket'[s].a = socket[s].a
        /\ socket'[s].pc \in {"context", "connect", "rejected"}
    BY <2>1, MoveTyped
  <2> QED BY <2>1, <2>2, AdmittedStays DEF Admitted
<1> QED BY <1>1, <1>2, <1>3 DEF Handshake

LEMMA SessionUpOne ==
    ASSUME SpeakTyped, OneConversation, NEW s \in Sockets, SessionUp(s)
    PROVE  OneConversation'
<1> DEFINE a == socket[s].a
<1>1. /\ a \in Attempts /\ socket[s].pc = "connect" /\ UNCHANGED ticket
      /\ \A t \in Sockets \ {s} : socket'[t] = socket[t]
      /\ socket'[s].a = a /\ socket'[s].pc = "served"
  BY DEF SessionUp, Move, SpeakTyped, SocketType
<1>2. opened[a] = 0 /\ ticket[a] = "gone"
  BY <1>1 DEF OneConversation, Admitted
<1>3. opened'[a] = 1 /\ \A b \in Attempts \ {a} : opened'[b] = opened[b]
  BY <1>1, <1>2 DEF SessionUp, SpeakTyped
<1>4. \A t \in Sockets : Admitted(socket[t]) => socket[t].a \in Attempts
  BY DEF SpeakTyped, Admitted
<1> HIDE DEF a
<1>5. \A t \in Sockets : Admitted(socket'[t]) =>
         /\ ticket'[socket'[t].a] = "gone" /\ socket'[t].a = socket[t].a /\ Admitted(socket[t])
  BY <1>1, <1>2 DEF OneConversation, Admitted, a
<1>6. \A t, u \in Sockets :
         Admitted(socket'[t]) /\ Admitted(socket'[u]) /\ socket'[t].a = socket'[u].a => t = u
  BY <1>5 DEF OneConversation
<1>7. \A b \in Attempts : opened'[b] <= 1 /\ (opened'[b] # 0 => ticket'[b] = "gone")
  BY <1>1, <1>2, <1>3 DEF OneConversation
<1>8. ASSUME NEW t \in Sockets, Admitted(socket'[t]), socket'[t].pc # "served"
      PROVE  opened'[socket'[t].a] = 0
  <2>1. t # s /\ Admitted(socket[t]) /\ Admitted(socket[s]) /\ socket'[t] = socket[t]
    BY <1>1, <1>8 DEF Admitted
  <2>2. socket[t].a # a /\ socket[t].a \in Attempts
    BY <1>4, <2>1 DEF OneConversation, a
  <2> QED BY <1>3, <1>8, <2>1, <2>2 DEF OneConversation
<1> QED BY <1>5, <1>6, <1>7, <1>8 DEF OneConversation, Admitted

LEMMA TalkOne ==
    ASSUME SpeakTyped, OneConversation, NEW s \in Sockets, Talk(s) \/ Save(s)
    PROVE  OneConversation'
<1>1. CASE Disconnect(s)
  <2>1. \A t \in Sockets : socket'[t].pc = socket[t].pc /\ socket'[t].a = socket[t].a
    BY <1>1 DEF Disconnect, SpeakTyped, SocketType
  <2> QED BY <1>1, <2>1 DEF Disconnect, OneConversation, Admitted, Histories
<1>2. CASE UNCHANGED <<socket, ticket, opened>>
  BY <1>2 DEF OneConversation
<1> QED BY <1>1, <1>2 DEF Talk, Save, ActivityStart, TurnComplete, Fatal, Transcribed,
                        AppendTurn, AppendFails, Histories

LEMMA CompleteOne ==
    ASSUME OneConversation, NEW c \in Completions, Complete(c)
    PROVE  OneConversation'
<1>1. UNCHANGED <<socket, ticket, opened>>
  BY DEF Complete, CompleteRead, Count, WriteCompletion, Clear, CompleteFails, Histories
<1> QED BY <1>1 DEF OneConversation
-----------------------------------------------------------------------------
(* What reached Redis, what is on its way there and the turn under way     *)
(* were all begun by the student: a turn is one of them at a time, and the *)
(* conversation it belongs to is the only one of its attempt.              *)
LEMMA OnlyBegunKept ==
    ASSUME OnlyBegun, UNCHANGED <<live, saving, asked, spoken>>,
           \A s \in Sockets : \/ socket'[s] = socket[s]
                              \/ socket'[s].pc # "served" /\ socket[s].pc # "served"
    PROVE  OnlyBegun'
BY DEF OnlyBegun

LEMMA HandshakeBegun ==
    ASSUME SpeakTyped, OnlyBegun, NEW s \in Sockets, Handshake(s)
    PROVE  OnlyBegun'
<1>1. UNCHANGED <<live, saving, asked, spoken>>
  BY DEF Handshake, Connect, Consume, RateLimit, LoadContext, SessionFails, Histories
<1>2. /\ \A t \in Sockets \ {s} : socket'[t] = socket[t]
      /\ socket[s].pc # "served" /\ socket'[s].pc # "served"
  <2>1. CASE \E a \in Attempts : Connect(s, a)
    BY <2>1 DEF Connect, SpeakTyped, SocketType
  <2>2. CASE ~ \E a \in Attempts : Connect(s, a)
    <3>1. /\ socket[s].pc \in {"ticket", "limit", "context", "connect"}
          /\ \E pc \in {"limit", "context", "connect"} : Move(s, pc) \/ Reject(s)
      BY <2>2 DEF Handshake, Consume, RateLimit, LoadContext, SessionFails
    <3> QED BY <3>1, MoveTyped
  <2> QED BY <2>1, <2>2
<1> QED BY <1>1, <1>2, OnlyBegunKept

LEMMA SessionUpBegun ==
    ASSUME SpeakTyped, OnlyBegun, NEW s \in Sockets, SessionUp(s)
    PROVE  OnlyBegun'
<1> DEFINE a == socket[s].a
<1>1. /\ a \in Attempts /\ socket[s].pc = "connect" /\ UNCHANGED <<saving, asked, spoken>>
      /\ \A t \in Sockets \ {s} : socket'[t] = socket[t] /\ live'[t] = live[t]
      /\ socket'[s].a = a /\ socket'[s].pc = "served"
      /\ live'[s].phase = "opening"
  BY DEF SessionUp, Move, SpeakTyped, SocketType, NoSession
<1>2. saving[s] = 0 /\ spoken[a] <= asked[a] /\ spoken[a] \in Nat /\ asked[a] \in Nat
  BY <1>1 DEF OnlyBegun, SpeakTyped
<1>3. UnderWay(live'[s]) = 0
  BY <1>1 DEF UnderWay
<1> HIDE DEF a
<1>4. spoken'[a] + saving'[s] + UnderWay(live'[s]) <= asked'[a]
  BY <1>1, <1>2, <1>3
<1>5. ASSUME NEW t \in Sockets
      PROVE  IF socket'[t].pc = "served"
             THEN spoken'[socket'[t].a] + saving'[t] + UnderWay(live'[t]) <= asked'[socket'[t].a]
             ELSE saving'[t] = 0 /\ ~live'[t].up
  BY <1>1, <1>4 DEF OnlyBegun
<1> QED BY <1>1, <1>5 DEF OnlyBegun

\* What the session of a socket says and saves is between it and its attempt.
LEMMA OnlyBegunThere ==
    ASSUME SpeakTyped, OneConversation, OnlyBegun, NEW s \in Sockets, socket[s].pc = "served",
           \A t \in Sockets : socket'[t].pc = socket[t].pc /\ socket'[t].a = socket[t].a,
           \A t \in Sockets \ {s} : live'[t] = live[t] /\ saving'[t] = saving[t],
           \A a \in Attempts \ {socket[s].a} : asked'[a] = asked[a] /\ spoken'[a] = spoken[a],
           spoken'[socket[s].a] <= asked'[socket[s].a],
           spoken'[socket[s].a] + saving'[s] + UnderWay(live'[s]) <= asked'[socket[s].a]
    PROVE  OnlyBegun'
<1>1. socket[s].a \in Attempts
  BY DEF SpeakTyped
<1>2. ASSUME NEW t \in Sockets
      PROVE  IF socket'[t].pc = "served"
             THEN spoken'[socket'[t].a] + saving'[t] + UnderWay(live'[t]) <= asked'[socket'[t].a]
             ELSE saving'[t] = 0 /\ ~live'[t].up
  <2>1. CASE t = s
    BY <2>1
  <2>2. CASE t # s /\ socket[t].pc = "served"
    <3>1. socket[t].a \in Attempts \ {socket[s].a}
      BY <2>2 DEF OneConversation, Admitted, SpeakTyped
    <3> QED BY <2>2, <3>1 DEF OnlyBegun
  <2>3. CASE t # s /\ socket[t].pc # "served"
    BY <2>3 DEF OnlyBegun
  <2> QED BY <2>1, <2>2, <2>3
<1> QED BY <1>1, <1>2 DEF OnlyBegun

\* Where a session can be talking, and what it owes there.
LEMMA Served ==
    ASSUME SpeakTyped, OnlyBegun, NEW s \in Sockets, live[s].up \/ saving[s] > 0
    PROVE  /\ socket[s].pc = "served" /\ socket[s].a \in Attempts
           /\ spoken[socket[s].a] \in Nat /\ asked[socket[s].a] \in Nat /\ saving[s] \in Nat
           /\ live[s] \in LiveType /\ UnderWay(live[s]) \in {0, 1}
           /\ spoken[socket[s].a] + saving[s] + UnderWay(live[s]) <= asked[socket[s].a]
BY DEF SpeakTyped, OnlyBegun, UnderWay

LEMMA DisconnectBegun ==
    ASSUME SpeakTyped, OneConversation, OnlyBegun, NEW s \in Sockets, Disconnect(s)
    PROVE  OnlyBegun'
<1>1. /\ \A t \in Sockets : socket'[t].pc = socket[t].pc /\ socket'[t].a = socket[t].a
      /\ UNCHANGED <<saving, asked, spoken>>
      /\ \A t \in Sockets \ {s} : live'[t] = live[t]
      /\ live'[s] = live[s] \/ ~live'[s].up
  BY DEF Disconnect, SpeakTyped, SocketType, Histories, NoSession
<1>2. CASE socket[s].pc # "served"
  BY <1>1, <1>2 DEF OnlyBegun
<1>3. CASE socket[s].pc = "served"
  <2> DEFINE a == socket[s].a
  <2>1. /\ spoken[a] \in Nat /\ asked[a] \in Nat /\ saving[s] \in Nat
        /\ spoken[a] <= asked[a]
        /\ spoken[a] + saving[s] + UnderWay(live[s]) <= asked[a]
    BY <1>3 DEF SpeakTyped, OnlyBegun
  <2>2. UnderWay(live[s]) \in {0, 1} /\ (UnderWay(live'[s]) = 0 \/ live'[s] = live[s])
    BY <1>1 DEF UnderWay
  <2>3. spoken'[a] + saving'[s] + UnderWay(live'[s]) <= asked'[a]
    BY <1>1, <2>1, <2>2
  <2> QED BY <1>1, <1>3, <2>1, <2>3, OnlyBegunThere
<1> QED BY <1>2, <1>3

LEMMA TalkBegun ==
    ASSUME SpeakTyped, OneConversation, OnlyBegun, NEW s \in Sockets, Talk(s)
    PROVE  OnlyBegun'
<1> DEFINE a == socket[s].a
<1>1. CASE Disconnect(s)
  BY <1>1, DisconnectBegun
<1>2. CASE ~Disconnect(s)
  <2>1. live[s].up /\ ~live[s].ended /\ UNCHANGED <<socket, spoken>>
    BY <1>2 DEF Talk, Talking, ActivityStart, TurnComplete, Fatal, Transcribed, Histories
  <2>2. /\ socket[s].pc = "served" /\ a \in Attempts
        /\ spoken[a] \in Nat /\ asked[a] \in Nat /\ saving[s] \in Nat
        /\ live[s] \in LiveType /\ UnderWay(live[s]) \in {0, 1}
        /\ spoken[a] + saving[s] + UnderWay(live[s]) <= asked[a]
    BY <2>1, Served
  <2>3. /\ \A t \in Sockets \ {s} : live'[t] = live[t] /\ saving'[t] = saving[t]
        /\ \A b \in Attempts \ {a} : asked'[b] = asked[b]
        /\ asked[a] <= asked'[a] /\ asked'[a] \in Nat /\ saving'[s] \in Nat
        /\ saving'[s] + UnderWay(live'[s]) + asked[a] <=
              saving[s] + UnderWay(live[s]) + asked'[a]
    <3>1. CASE ActivityStart(s)
      <4>1. /\ asked' = [asked EXCEPT ![a] = asked[a] + 1] /\ UNCHANGED saving
            /\ \A t \in Sockets \ {s} : live'[t] = live[t]
        BY <3>1 DEF ActivityStart, SpeakTyped
      <4>2. UnderWay(live'[s]) \in {0, 1}
        BY DEF UnderWay
      <4> HIDE DEF a
      <4> QED BY <2>2, <4>1, <4>2 DEF SpeakTyped
    <3>2. CASE TurnComplete(s)
      <4>1. /\ UNCHANGED asked
            /\ \A t \in Sockets \ {s} : live'[t] = live[t] /\ saving'[t] = saving[t]
            /\ live'[s].phase = "idle"
            /\ \/ saving'[s] = saving[s]
               \/ saving'[s] = saving[s] + 1 /\ live[s].phase = "active"
        BY <3>2 DEF TurnComplete, SpeakTyped, LiveType, Histories
      <4>2. UnderWay(live'[s]) = 0 /\ (live[s].phase = "active" => UnderWay(live[s]) = 1)
        BY <2>1, <4>1 DEF UnderWay
      <4> HIDE DEF a
      <4> QED BY <2>2, <4>1, <4>2
    <3>3. CASE Fatal(s)
      <4>1. /\ UNCHANGED <<asked, saving>>
            /\ \A t \in Sockets \ {s} : live'[t] = live[t]
            /\ ~live'[s].up
        BY <3>3 DEF Fatal, SpeakTyped, NoSession, Histories
      <4>2. UnderWay(live'[s]) = 0
        BY <4>1 DEF UnderWay
      <4> HIDE DEF a
      <4> QED BY <2>2, <4>1, <4>2
    <3>4. ASSUME NEW who \in {"user", "ai"}, Transcribed(s, who)
          PROVE  /\ UNCHANGED <<asked, saving>>
                 /\ \A t \in Sockets \ {s} : live'[t] = live[t]
                 /\ UnderWay(live'[s]) = UnderWay(live[s])
      BY <3>4 DEF Transcribed, SpeakTyped, LiveType, UnderWay, Histories
    <3> QED BY <1>2, <2>2, <3>1, <3>2, <3>3, <3>4 DEF Talk
  <2> HIDE DEF a
  <2>4. spoken'[a] + saving'[s] + UnderWay(live'[s]) <= asked'[a]
    <3>1. UnderWay(live'[s]) \in {0, 1}
      BY DEF UnderWay
    <3> QED BY <2>1, <2>2, <2>3, <3>1
  <2>5. spoken'[a] <= asked'[a]
    BY <2>1, <2>2, <2>3
  <2> QED BY <2>1, <2>2, <2>3, <2>4, <2>5, OnlyBegunThere DEF a
<1> QED BY <1>1, <1>2

LEMMA SaveBegun ==
    ASSUME SpeakTyped, OneConversation, OnlyBegun, NEW s \in Sockets, Save(s)
    PROVE  OnlyBegun'
<1> DEFINE a == socket[s].a
<1>1. saving[s] > 0 /\ UNCHANGED <<socket, live, asked>>
  BY DEF Save, AppendTurn, AppendFails, Histories
<1>2. /\ socket[s].pc = "served" /\ a \in Attempts
      /\ spoken[a] \in Nat /\ asked[a] \in Nat /\ saving[s] \in Nat
      /\ UnderWay(live[s]) \in {0, 1}
      /\ spoken[a] + saving[s] + UnderWay(live[s]) <= asked[a]
  BY <1>1, Served
<1>3. /\ \A t \in Sockets \ {s} : saving'[t] = saving[t]
      /\ saving'[s] = saving[s] - 1
      /\ \A b \in Attempts \ {a} : spoken'[b] = spoken[b]
      /\ spoken'[a] = spoken[a] \/ spoken'[a] = spoken[a] + 1
  BY <1>2 DEF Save, AppendTurn, AppendFails, SpeakTyped, Histories
<1> HIDE DEF a
<1>4. /\ spoken'[a] + saving'[s] + UnderWay(live'[s]) <= asked'[a]
      /\ spoken'[a] <= asked'[a]
  BY <1>1, <1>2, <1>3
<1> QED BY <1>1, <1>2, <1>3, <1>4, OnlyBegunThere DEF a
-----------------------------------------------------------------------------
(* The tally: until a completion has counted, Redis holds every turn that  *)
(* reached it; from then on what it counted and what came late add up.     *)
TallyOf(a) ==
    /\ ~Counted(a) => /\ turns[a] = spoken[a] /\ late[a] = 0
                      /\ attempt[a] # None => ~attempt[a].completed
    /\ \A c \in Completions :
          Tells(completion[c], a) => completion[c].count + late[a] = spoken[a]
    /\ attempt[a] # None /\ attempt[a].completed =>
          attempt[a].turnCount + late[a] = spoken[a]

LEMMA TalliedByAttempt == Tallied <=> \A a \in Attempts \ blurred : TallyOf(a)
BY DEF Tallied, TallyOf

\* An attempt whose rows and counts stay as they are keeps its tally.
LEMMA TallyKept ==
    ASSUME NEW a \in Attempts, TallyOf(a),
           attempt'[a] = attempt[a], turns'[a] = turns[a] \/ Counted(a),
           late'[a] = late[a], spoken'[a] = spoken[a],
           \A c \in Completions : \/ Tells(completion'[c], a) <=> Tells(completion[c], a)
                                  \/ ~Tells(completion[c], a) /\ ~Tells(completion'[c], a),
           \A c \in Completions :
              Tells(completion'[c], a) => completion'[c].count = completion[c].count
    PROVE  TallyOf(a)'
BY DEF TallyOf, Tells, Counted

LEMMA TicketStepTallied ==
    ASSUME SpeakTyped, Tallied, NEW a \in Attempts, TicketStep(a)
    PROVE  Tallied'
<1>1. UNCHANGED <<spoken, late, completion>>
  BY DEF TicketStep, Start, Issue, ExpireTicket, ExpireTurns, Histories
<1>2. ASSUME NEW b \in Attempts, b \notin blurred'
      PROVE  TallyOf(b)'
  <2>1. b \notin blurred /\ TallyOf(b)
    BY <1>2, TalliedByAttempt DEF TicketStep, Start, Issue, ExpireTicket, ExpireTurns, Histories
  <2>2. CASE Start(a) /\ b = a
    BY <1>1, <2>1, <2>2 DEF Start, TallyOf, Tells, Counted, SpeakTyped, Histories
  <2>3. CASE Start(a) /\ b # a
    BY <1>1, <2>1, <2>3, TallyKept DEF Start, SpeakTyped, Histories
  <2>4. CASE Issue(a) \/ ExpireTicket(a)
    BY <1>1, <2>1, <2>4, TallyKept DEF Issue, ExpireTicket, Histories
  <2>5. CASE ExpireTurns(a)
    <3>1. turns'[b] = turns[b] \/ Counted(b)
      BY <1>2, <2>5 DEF ExpireTurns, SpeakTyped
    <3> QED BY <1>1, <2>1, <2>5, <3>1, TallyKept DEF ExpireTurns
  <2> QED BY <2>2, <2>3, <2>4, <2>5 DEF TicketStep
<1> QED BY <1>2, TalliedByAttempt DEF Tallied, TallyOf, Counted

LEMMA SocketStepTallied ==
    ASSUME Tallied, NEW s \in Sockets, Handshake(s) \/ SessionUp(s) \/ Talk(s) \/ AppendFails(s)
    PROVE  Tallied'
<1>1. UNCHANGED <<attempt, turns, completion, spoken, late, blurred>>
  BY DEF Handshake, Connect, Consume, RateLimit, LoadContext, SessionFails, SessionUp, Talk,
         Disconnect, ActivityStart, TurnComplete, Fatal, Transcribed, AppendFails, Histories
<1> QED BY <1>1 DEF Tallied, Counted

LEMMA AppendTallied ==
    ASSUME SpeakTyped, OnlyBegun, Tallied, NEW s \in Sockets, AppendTurn(s)
    PROVE  Tallied'
<1>0. PICK a \in Attempts : a = socket[s].a
  BY Served DEF AppendTurn, SpeakTyped
<1>1. /\ UNCHANGED <<attempt, completion>>
      /\ \A b \in Attempts \ {a} :
            turns'[b] = turns[b] /\ spoken'[b] = spoken[b] /\ late'[b] = late[b]
      /\ spoken'[a] = spoken[a] + 1
  BY <1>0 DEF AppendTurn, SpeakTyped
<1>2. /\ blurred \subseteq blurred'
      /\ a \notin blurred' => turns'[a] = turns[a] + 1
  BY <1>0 DEF AppendTurn, SpeakTyped
<1>3. IF Counted(a) THEN late'[a] = late[a] + 1 ELSE late'[a] = late[a]
  BY <1>0 DEF AppendTurn, SpeakTyped
<1>4. /\ spoken[a] \in Nat /\ late[a] \in Nat /\ turns[a] \in Nat
      /\ attempt[a] \in AttemptType \cup {None}
      /\ \A c \in Completions : completion[c].count \in Nat
  BY <1>1 DEF SpeakTyped, CompletionType
<1>5. ASSUME NEW b \in Attempts, b \notin blurred'
      PROVE  TallyOf(b)'
  <2>1. TallyOf(b)
    BY <1>2, <1>5, TalliedByAttempt
  <2>2. CASE b # a
    BY <1>1, <2>1, <2>2, TallyKept
  <2>3. CASE b = a /\ Counted(a)
    <3>1. Counted(a)' /\ late'[a] = late[a] + 1
      BY <1>1, <1>3, <2>3 DEF Counted
    <3>2. \A c \in Completions :
             Tells(completion'[c], a) => completion'[c].count + late'[a] = spoken'[a]
      BY <1>1, <1>4, <2>1, <2>3, <3>1 DEF TallyOf
    <3>3. attempt'[a] # None /\ attempt'[a].completed =>
             attempt'[a].turnCount + late'[a] = spoken'[a]
      BY <1>1, <1>4, <2>1, <2>3, <3>1 DEF TallyOf, AttemptType
    <3> QED BY <2>3, <3>1, <3>2, <3>3 DEF TallyOf
  <2>4. CASE b = a /\ ~Counted(a)
    <3>1. ~Counted(a)' /\ late'[a] = late[a] /\ turns'[a] = turns[a] + 1
      BY <1>1, <1>2, <1>3, <1>5, <2>4 DEF Counted
    <3>2. \A c \in Completions : ~Tells(completion'[c], a)
      BY <1>1, <2>4 DEF Counted, Tells
    <3> QED BY <1>1, <1>4, <2>1, <2>4, <3>1, <3>2 DEF TallyOf
  <2> QED BY <2>2, <2>3, <2>4
<1> QED BY <1>5 DEF Tallied, TallyOf

LEMMA CompleteTallied ==
    ASSUME SpeakTyped, Tallied, NEW c \in Completions, Complete(c)
    PROVE  Tallied'
<1>1. /\ UNCHANGED <<spoken, late>> /\ blurred \subseteq blurred'
      /\ \A d \in Completions \ {c} : completion'[d] = completion[d]
  BY DEF Complete, CompleteRead, Count, WriteCompletion, Clear, CompleteFails, Histories,
         SpeakTyped
<1>2. ASSUME NEW a \in Attempts, CompleteRead(c, a)
      PROVE  Tallied'
  <2>1. /\ completion[c].pc = "new" /\ completion'[c].pc \in {"told", "count"}
        /\ UNCHANGED <<attempt, turns, blurred>>
    BY <1>2 DEF CompleteRead, SpeakTyped, Histories
  <2>2. ASSUME NEW b \in Attempts \ blurred' PROVE TallyOf(b)'
    BY <1>1, <2>1, <2>2, TalliedByAttempt, TallyKept DEF Tells
  <2> QED BY <2>2 DEF Tallied, TallyOf
<1>a. completion[c].pc # "new" => \E a \in Attempts : a = completion[c].a
  BY DEF SpeakTyped
<1>3. CASE Count(c)
  <2>0. PICK a \in Attempts : a = completion[c].a
    BY <1>3, <1>a DEF Count
  <2>1. /\ UNCHANGED <<attempt, turns>>
        /\ completion[c].pc = "count"
        /\ completion'[c].pc = "write" /\ completion'[c].a = a /\ completion'[c].count = turns[a]
        /\ Counted(a) => a \in blurred'
    BY <1>3, <2>0 DEF Count, SpeakTyped, CompletionType
  <2>2. ASSUME NEW b \in Attempts \ blurred' PROVE TallyOf(b)'
    <3>1. TallyOf(b)
      BY <1>1, <2>2, TalliedByAttempt
    <3>2. CASE b # a
      BY <1>1, <2>0, <2>1, <3>1, <3>2, TallyKept DEF Tells
    <3>3. CASE b = a
      <4>1. /\ ~Counted(a) /\ Counted(a)' /\ turns[a] = spoken[a] /\ late[a] = 0
            /\ turns[a] \in Nat
            /\ attempt[a] # None => ~attempt[a].completed
        BY <2>1, <2>2, <3>1, <3>3 DEF TallyOf, Counted, SpeakTyped
      <4>2. ASSUME NEW d \in Completions, Tells(completion'[d], a)
            PROVE  d = c
        BY <1>1, <4>1, <4>2 DEF Counted, Tells
      <4>3. \A d \in Completions :
               Tells(completion'[d], a) => completion'[d].count + late'[a] = spoken'[a]
        BY <1>1, <2>1, <4>1, <4>2
      <4> QED BY <1>1, <2>1, <3>3, <4>1, <4>3 DEF TallyOf
    <3> QED BY <3>2, <3>3
  <2> QED BY <2>2 DEF Tallied, TallyOf
<1>4. CASE WriteCompletion(c)
  <2>0. PICK a \in Attempts : a = completion[c].a
    BY <1>4, <1>a DEF WriteCompletion
  <2>1. /\ UNCHANGED <<turns, blurred>>
        /\ completion[c].pc = "write"
        /\ completion'[c].pc = "clear" /\ completion'[c].a = a
        /\ completion'[c].count = completion[c].count
        /\ attempt'[a] = [completed |-> TRUE, turnCount |-> completion[c].count]
        /\ \A b \in Attempts \ {a} : attempt'[b] = attempt[b]
    BY <1>4, <2>0 DEF WriteCompletion, SpeakTyped, CompletionType, Histories
  <2>2. \A d \in Completions : \A b \in Attempts :
           /\ Tells(completion'[d], b) <=> Tells(completion[d], b)
           /\ completion'[d].count = completion[d].count
    BY <1>1, <2>0, <2>1 DEF Tells
  <2>3. Tells(completion[c], a)
    BY <2>0, <2>1 DEF Tells
  <2>4. ASSUME NEW b \in Attempts \ blurred' PROVE TallyOf(b)'
    <3>1. TallyOf(b)
      BY <2>1, <2>4, TalliedByAttempt
    <3>2. CASE b # a
      BY <1>1, <2>1, <2>2, <3>1, <3>2, TallyKept
    <3>3. CASE b = a
      <4>1. Counted(a)'
        BY <2>1 DEF Counted
      <4>2. completion[c].count + late[a] = spoken[a]
        BY <2>3, <3>1, <3>3 DEF TallyOf
      <4> QED BY <1>1, <2>1, <2>2, <3>1, <3>3, <4>1, <4>2 DEF TallyOf
    <3> QED BY <3>2, <3>3
  <2> QED BY <2>4 DEF Tallied, TallyOf
<1>5. CASE Clear(c)
  <2>0. PICK a \in Attempts : a = completion[c].a
    BY <1>5, <1>a DEF Clear
  <2>1. /\ UNCHANGED <<attempt, blurred>>
        /\ completion[c].pc = "clear"
        /\ completion'[c].pc = "done" /\ completion'[c].a = a
        /\ completion'[c].count = completion[c].count
        /\ \A b \in Attempts \ {a} : turns'[b] = turns[b]
    BY <1>5, <2>0 DEF Clear, SpeakTyped, CompletionType, Histories
  <2>2. Counted(a)
    BY <2>0, <2>1 DEF Counted
  <2>3. ASSUME NEW b \in Attempts \ blurred' PROVE TallyOf(b)'
    <3>1. TallyOf(b)
      BY <2>1, <2>3, TalliedByAttempt
    <3>2. turns'[b] = turns[b] \/ Counted(b)
      BY <2>1, <2>2
    <3>3. \A d \in Completions :
             /\ Tells(completion'[d], b) <=> Tells(completion[d], b)
             /\ completion'[d].count = completion[d].count
      BY <1>1, <2>0, <2>1 DEF Tells
    <3> QED BY <1>1, <2>1, <3>1, <3>2, <3>3, TallyKept
  <2> QED BY <2>3 DEF Tallied, TallyOf
<1>6. CASE CompleteFails(c)
  <2>1. /\ UNCHANGED <<attempt, turns, blurred>>
        /\ \/ completion[c].pc = "count" /\ completion'[c].pc = "failed"
           \/ completion[c].pc \in {"write", "clear"} /\ completion'[c].pc = "done"
        /\ completion'[c].a = completion[c].a /\ completion'[c].count = completion[c].count
    BY <1>6 DEF CompleteFails, SpeakTyped, CompletionType, Histories
  <2>2. ASSUME NEW b \in Attempts \ blurred' PROVE TallyOf(b)'
    <3>1. TallyOf(b)
      BY <2>1, <2>2, TalliedByAttempt
    <3>2. \A d \in Completions :
             /\ Tells(completion'[d], b) <=> Tells(completion[d], b)
             /\ completion'[d].count = completion[d].count
      BY <1>1, <2>1 DEF Tells
    <3> QED BY <1>1, <2>1, <3>1, <3>2, TallyKept
  <2> QED BY <2>2 DEF Tallied, TallyOf
<1> QED BY <1>2, <1>3, <1>4, <1>5, <1>6 DEF Complete
-----------------------------------------------------------------------------
LEMMA SpeakNextInv == SpeakInv /\ [SpeakNext]_speakVars => SpeakInv'
<1> SUFFICES ASSUME SpeakInv, [SpeakNext]_speakVars PROVE SpeakInv'
  OBVIOUS
<1>1. SpeakTyped /\ OneConversation /\ OnlyBegun /\ Tallied
  BY DEF SpeakInv
<1>2. CASE UNCHANGED speakVars
  BY <1>2 DEF SpeakInv, SpeakTyped, OneConversation, OnlyBegun, Tallied, Counted, speakVars
<1>3. ASSUME NEW a \in Attempts, TicketStep(a) PROVE SpeakInv'
  <2>1. OnlyBegun'
    BY <1>1, <1>3, OnlyBegunKept
       DEF TicketStep, Start, Issue, ExpireTicket, ExpireTurns, Histories
  <2> QED BY <1>1, <1>3, <2>1, TicketStepTyped, TicketStepOne, TicketStepTallied DEF SpeakInv
<1>4. ASSUME NEW s \in Sockets, Handshake(s) PROVE SpeakInv'
  BY <1>1, <1>4, HandshakeTyped, HandshakeOne, HandshakeBegun, SocketStepTallied DEF SpeakInv
<1>5. ASSUME NEW s \in Sockets, SessionUp(s) PROVE SpeakInv'
  BY <1>1, <1>5, SessionUpTyped, SessionUpOne, SessionUpBegun, SocketStepTallied DEF SpeakInv
<1>6. ASSUME NEW s \in Sockets, Talk(s) PROVE SpeakInv'
  BY <1>1, <1>6, TalkTyped, TalkOne, TalkBegun, SocketStepTallied DEF SpeakInv
<1>7. ASSUME NEW s \in Sockets, Save(s) PROVE SpeakInv'
  BY <1>1, <1>7, SaveTyped, TalkOne, SaveBegun, SocketStepTallied, AppendTallied
     DEF SpeakInv, Save
<1>8. ASSUME NEW c \in Completions, Complete(c) PROVE SpeakInv'
  <2>1. OnlyBegun'
    BY <1>1, <1>8, OnlyBegunKept
       DEF Complete, CompleteRead, Count, WriteCompletion, Clear, CompleteFails, Histories
  <2> QED BY <1>1, <1>8, <2>1, CompleteTyped, CompleteOne, CompleteTallied DEF SpeakInv
<1> QED BY <1>2, <1>3, <1>4, <1>5, <1>6, <1>7, <1>8, SpeakSteps

(* EveryTurnCounted for any number of attempts, connections, completions   *)
(* and turns: no attempt has a second conversation, no turn reaches Redis  *)
(* that the student did not begin, and a completed attempt whose turns     *)
(* neither expired nor overflowed nor were counted twice counts each that  *)
(* was there when it was counted (SpeakingAttemptService.complete,         *)
(* consume-live-ticket.lua, SpeakingLiveSession).                          *)
THEOREM TurnsAlwaysCounted == SpeakSpec => []EveryTurnCounted
<1>1. SpeakInv => EveryTurnCounted
  BY DEF SpeakInv, OneConversation, OnlyBegun, Tallied, EveryTurnCounted
<1> QED BY <1>1, SpeakInitInv, SpeakNextInv, PTL DEF SpeakSpec
-----------------------------------------------------------------------------
(***************************************************************************)
(* The placement test.  Whoever grades an attempt writes its level and the *)
(* roadmap in one transaction, so the roadmap only has to agree with the   *)
(* attempt it names, and no other step writes a level.  The update of      *)
(* onboardedAt is decided from an old reading; it is only left out when    *)
(* the user was onboarded by then, and nobody is ever un-onboarded.        *)
(***************************************************************************)
CallOwes(q, started, on, road) ==
    /\ q.pc \in {"grade", "finalize"} => q.a \in started /\ q.then \in {"create", "new"}
    /\ q.pc = "finalize" => q.level \in Nat
    /\ q.pc \in {"finalize", "persist"} => q.onboard \in BOOLEAN /\ (q.onboard \/ on)
    /\ q.pc \in {"plan", "analysis"} => road # None /\ q.at \in Nat

CallsOwe ==
    /\ call = [c \in Calls |-> call[c]]
    /\ \A c \in Calls : CallOwes(call[c], Started, onboarded, roadmap)

PlaceTyped ==
    /\ placement \in [Tests -> TestType \cup {None}]
    /\ \E n \in Nat : Started = 1 .. n
    /\ due \subseteq Started
    /\ right \in [Tests -> Nat]
    /\ onboarded \in BOOLEAN
    /\ roadmap \in RoadmapType \cup {None}
    /\ generation \in 0 .. MaxGenerations
    /\ plans \in [1 .. MaxGenerations -> Nat]

RoadmapOfTest ==
    /\ onboarded <=> (roadmap # None)
    /\ Completed # {} => onboarded
    /\ roadmap # None /\ roadmap.attempt # None =>
          roadmap.attempt \in Completed /\ roadmap.level = placement[roadmap.attempt].level

PlanOfRoadmap ==
    /\ roadmap # None => /\ roadmap.at \in 1 .. generation
                         /\ roadmap.plan = None => plans[roadmap.at] = 0
                         /\ roadmap.plan # None => roadmap.plan = roadmap.at
    /\ \A g \in 1 .. MaxGenerations : plans[g] <= 1 /\ (g > generation => plans[g] = 0)

PlaceInv == PlaceTyped /\ CallsOwe /\ RoadmapOfTest /\ PlanOfRoadmap

LEMMA PlaceInitInv == PlaceInit => PlaceInv
<1> SUFFICES ASSUME PlaceInit PROVE PlaceInv
  OBVIOUS
<1>1. Started = {} /\ Completed = {}
  BY DEF PlaceInit, Started, Completed
<1>2. Started = 1 .. 0
  BY <1>1
<1>3. PlaceTyped
  <2>1. \E n \in Nat : Started = 1 .. n
    BY <1>2
  <2>2. placement \in [Tests -> TestType \cup {None}] /\ right \in [Tests -> Nat]
    BY DEF PlaceInit
  <2>3. plans \in [1 .. MaxGenerations -> Nat] /\ generation \in 0 .. MaxGenerations
    BY PlacementAssumption DEF PlaceInit
  <2>4. due \subseteq Started /\ onboarded \in BOOLEAN /\ roadmap \in RoadmapType \cup {None}
    BY DEF PlaceInit
  <2> QED BY <2>1, <2>2, <2>3, <2>4 DEF PlaceTyped
<1>4. CallsOwe
  BY DEF PlaceInit, CallsOwe, CallOwes
<1>5. RoadmapOfTest /\ PlanOfRoadmap
  BY <1>1 DEF PlaceInit, RoadmapOfTest, PlanOfRoadmap
<1> QED BY <1>3, <1>4, <1>5 DEF PlaceInv

\* A call that moves on leaves the others what they owe.
LEMMA CallMoves ==
    ASSUME CallsOwe, NEW c \in Calls, NEW q, Go(c, q),
           Started \subseteq Started', onboarded => onboarded', roadmap # None => roadmap' # None,
           CallOwes(q, Started', onboarded', roadmap')
    PROVE  CallsOwe'
<1>1. call'[c] = q /\ \A d \in Calls \ {c} : call'[d] = call[d]
  BY DEF CallsOwe, Go
<1>2. call' = [d \in Calls |-> call'[d]]
  BY DEF CallsOwe, Go
<1>3. \A d \in Calls \ {c} : CallOwes(call'[d], Started', onboarded', roadmap')
  BY <1>1 DEF CallsOwe, CallOwes
<1> QED BY <1>1, <1>2, <1>3 DEF CallsOwe

\* A call that only reads.
LEMMA CallReads ==
    ASSUME PlaceInv, NEW c \in Calls, NEW q, Go(c, q), UNCHANGED <<Stored, due>>,
           CallOwes(q, Started, onboarded, roadmap)
    PROVE  PlaceInv'
<1>1. UNCHANGED <<placement, due, right, onboarded, roadmap, generation, plans>>
  BY DEF Stored
<1>2. Started' = Started /\ Completed' = Completed
  BY <1>1 DEF Started, Completed
<1>3. CallsOwe'
  BY <1>1, <1>2, CallMoves DEF PlaceInv
<1>4. PlaceTyped' /\ RoadmapOfTest' /\ PlanOfRoadmap'
  BY <1>1, <1>2 DEF PlaceInv, PlaceTyped, RoadmapOfTest, PlanOfRoadmap
<1> QED BY <1>3, <1>4 DEF PlaceInv

LEMMA NothingOwed ==
    ASSUME NEW pc \in {"new", "create"}, NEW started, NEW on, NEW road
    PROVE  CallOwes([pc |-> pc], started, on, road)
BY DEF CallOwes

\* A roadmap that is written anew, of an attempt with its level or of none.
LEMMA RegenerateInv ==
    ASSUME PlaceInv, NEW a \in Tests \cup {None}, NEW level \in Nat, Regenerate(a, level),
           onboarded', UNCHANGED plans
    PROVE  /\ roadmap' \in RoadmapType /\ roadmap' # None
           /\ roadmap'.attempt = a /\ roadmap'.level = level
           /\ generation' \in 0 .. MaxGenerations
           /\ PlanOfRoadmap'
<1>1. /\ generation \in Nat /\ generation' = generation + 1 /\ generation' <= MaxGenerations
      /\ roadmap' = [attempt |-> a, level |-> level, at |-> generation', plan |-> None,
                     summary |-> None]
  BY PlacementAssumption DEF PlaceInv, PlaceTyped, Regenerate
<1>2. roadmap' \in RoadmapType
  BY <1>1 DEF RoadmapType
<1>3. roadmap' # None
  BY <1>2, PlacementAssumption
<1>4. /\ roadmap'.at = generation' /\ roadmap'.plan = None
      /\ roadmap'.attempt = a /\ roadmap'.level = level
  BY <1>1
<1>5. generation' \in 1 .. MaxGenerations /\ generation' > generation
  BY <1>1, PlacementAssumption
<1>6. plans[generation'] = 0
  BY <1>5 DEF PlaceInv, PlanOfRoadmap
<1>7. \A g \in 1 .. MaxGenerations : plans'[g] <= 1 /\ (g > generation' => plans'[g] = 0)
  BY <1>1 DEF PlaceInv, PlanOfRoadmap
<1>8. PlanOfRoadmap'
  BY <1>3, <1>4, <1>5, <1>6, <1>7 DEF PlanOfRoadmap
<1> QED BY <1>1, <1>2, <1>3, <1>4, <1>5, <1>8, PlacementAssumption

LEMMA CreateInv ==
    ASSUME PlaceInv, NEW c \in Calls, Create(c)
    PROVE  PlaceInv'
<1> DEFINE a == Cardinality(Started) + 1
<1>1. PICK n \in Nat : Started = 1 .. n
  BY DEF PlaceInv, PlaceTyped
<1>2. a = n + 1
  <2>1. Cardinality(1 .. n) = n
    BY FS_Interval
  <2> QED BY <1>1, <2>1
<1>3. /\ UNCHANGED <<due, right, onboarded, roadmap, generation, plans>> /\ Done(c)
      /\ \/ UNCHANGED placement
         \/ a \in Tests /\ placement' = [placement EXCEPT ![a] = [level |-> None]]
  BY DEF Create
<1> HIDE DEF a
<1>4. CASE UNCHANGED placement
  BY <1>3, <1>4, CallReads, NothingOwed DEF Create, Done, Stored
<1>5. CASE a \in Tests /\ placement' = [placement EXCEPT ![a] = [level |-> None]]
  <2>1. a \notin Started /\ placement[a] = None
    BY <1>1, <1>2, <1>5 DEF Started
  <2>2. [level |-> None] \in TestType /\ [level |-> None] # None
    BY PlacementAssumption DEF TestType
  <2>3. /\ placement' \in [Tests -> TestType \cup {None}]
        /\ placement'[a] = [level |-> None]
        /\ \A b \in Tests \ {a} : placement'[b] = placement[b]
    BY <1>5, <2>2 DEF PlaceInv, PlaceTyped
  <2>4. Started' = Started \cup {a} /\ Completed' = Completed
    BY <1>5, <2>1, <2>2, <2>3 DEF Started, Completed
  <2>5. Started' = 1 .. (n + 1)
    BY <1>1, <1>2, <2>4
  <2>6. PlaceTyped'
    <3>1. \E m \in Nat : Started' = 1 .. m
      BY <2>5
    <3>2. due' \subseteq Started'
      BY <1>3, <2>4 DEF PlaceInv, PlaceTyped
    <3> QED BY <1>3, <2>3, <3>1, <3>2 DEF PlaceInv, PlaceTyped
  <2>7. RoadmapOfTest'
    BY <1>3, <2>1, <2>3, <2>4 DEF PlaceInv, RoadmapOfTest, Completed, Started
  <2>8. PlanOfRoadmap'
    BY <1>3 DEF PlaceInv, PlanOfRoadmap
  <2>9. CallsOwe'
    BY <1>3, <2>4, CallMoves, NothingOwed DEF PlaceInv, Done
  <2> QED BY <2>6, <2>7, <2>8, <2>9 DEF PlaceInv
<1> QED BY <1>3, <1>4, <1>5

LEMMA FinalizeInv ==
    ASSUME PlaceInv, NEW c \in Calls, Finalize(c)
    PROVE  PlaceInv'
<1> DEFINE q == call[c]
           a == q.a
           level == q.level
<1>1. /\ a \in Started /\ level \in Nat /\ q.then \in {"create", "new"}
      /\ q.onboard \in BOOLEAN /\ (q.onboard \/ onboarded)
  BY DEF PlaceInv, CallsOwe, CallOwes, Finalize
<1>2. /\ placement' = [placement EXCEPT ![a].level = level]
      /\ Regenerate(a, level)
      /\ onboarded'
      /\ Go(c, [pc |-> q.then])
      /\ UNCHANGED <<due, right, plans>>
  BY <1>1 DEF Finalize
<1>3. a \in Tests /\ placement[a] \in TestType
  BY <1>1 DEF PlaceInv, PlaceTyped, Started
<1>4. /\ placement'[a] \in TestType /\ placement'[a].level = level
      /\ placement' \in [Tests -> TestType \cup {None}]
      /\ \A b \in Tests \ {a} : placement'[b] = placement[b]
  BY <1>1, <1>2, <1>3 DEF PlaceInv, PlaceTyped, TestType
<1>5. /\ roadmap' \in RoadmapType /\ roadmap' # None
      /\ roadmap'.attempt = a /\ roadmap'.level = level
      /\ generation' \in 0 .. MaxGenerations
      /\ PlanOfRoadmap'
  BY <1>1, <1>2, <1>3, RegenerateInv
<1> HIDE DEF a, level
<1>6. placement'[a] # None /\ level # None
  BY <1>1, <1>4, PlacementAssumption
<1>7. Started' = Started
  BY <1>1, <1>4, <1>6 DEF Started
<1>8. a \in Completed'
  BY <1>3, <1>4, <1>6 DEF Completed, Started
<1>9. onboarded' = TRUE
  BY <1>1, <1>2 DEF PlaceInv, PlaceTyped, Finalize
<1>10. PlaceTyped'
  BY <1>2, <1>4, <1>5, <1>7, <1>9 DEF PlaceInv, PlaceTyped
<1>11. RoadmapOfTest'
  BY <1>2, <1>4, <1>5, <1>8 DEF RoadmapOfTest
<1>12. CallsOwe'
  BY <1>1, <1>2, <1>5, <1>7, CallMoves, NothingOwed DEF PlaceInv
<1> QED BY <1>5, <1>10, <1>11, <1>12 DEF PlaceInv

LEMMA PersistInv ==
    ASSUME PlaceInv, NEW c \in Calls, Persist(c)
    PROVE  PlaceInv'
<1>1. call[c].onboard \in BOOLEAN /\ (call[c].onboard \/ onboarded)
  BY DEF PlaceInv, CallsOwe, CallOwes, Persist
<1>2. /\ Regenerate(None, 0) /\ onboarded' /\ onboarded' \in BOOLEAN
      /\ Done(c)
      /\ UNCHANGED <<placement, due, right, plans>>
  BY <1>1 DEF PlaceInv, PlaceTyped, Persist
<1>3. /\ roadmap' \in RoadmapType /\ roadmap' # None
      /\ roadmap'.attempt = None
      /\ generation' \in 0 .. MaxGenerations
      /\ PlanOfRoadmap'
  BY <1>2, RegenerateInv
<1>4. Started' = Started /\ Completed' = Completed
  BY <1>2 DEF Started, Completed
<1>5. PlaceTyped'
  BY <1>2, <1>3, <1>4 DEF PlaceInv, PlaceTyped
<1>6. RoadmapOfTest'
  BY <1>2, <1>3 DEF RoadmapOfTest
<1>7. CallsOwe'
  BY <1>2, <1>3, <1>4, CallMoves, NothingOwed DEF PlaceInv, Done
<1> QED BY <1>3, <1>5, <1>6, <1>7 DEF PlaceInv

\* The AI's answers go on the roadmap that is there: no step takes it away.
LEMMA PlanWriteInv ==
    ASSUME PlaceInv, NEW c \in Calls, PlanWrite(c)
    PROVE  PlaceInv'
<1> DEFINE at == call[c].at
<1>1. roadmap # None /\ roadmap \in RoadmapType /\ at \in Nat /\ at # None
  BY PlacementAssumption DEF PlaceInv, PlaceTyped, CallsOwe, CallOwes, PlanWrite
<1>2. Done(c) /\ UNCHANGED <<placement, due, right, onboarded, generation>>
  BY DEF PlanWrite
<1>3. CASE ~Unplanned(at)
  BY <1>3, CallReads, NothingOwed DEF PlanWrite, Done, Stored
<1>4. CASE Unplanned(at)
  <2>1. /\ roadmap.at = at /\ roadmap.plan = None
        /\ roadmap' = [roadmap EXCEPT !.plan = at, !.summary = at]
        /\ plans' = [plans EXCEPT ![at] = plans[at] + 1]
    BY <1>4 DEF PlanWrite, Unplanned
  <2> HIDE DEF at
  <2>2. at \in 1 .. generation /\ at \in 1 .. MaxGenerations /\ plans[at] = 0
    BY <1>1, <2>1, PlacementAssumption DEF PlaceInv, PlaceTyped, PlanOfRoadmap
  <2>3. /\ roadmap' \in RoadmapType /\ roadmap'.plan = at /\ roadmap'.at = at
        /\ roadmap'.attempt = roadmap.attempt /\ roadmap'.level = roadmap.level
    BY <1>1, <2>1 DEF RoadmapType
  <2>4. roadmap' # None
    BY <2>3, PlacementAssumption
  <2>5. /\ plans' \in [1 .. MaxGenerations -> Nat] /\ plans'[at] = 1
        /\ \A g \in 1 .. MaxGenerations \ {at} : plans'[g] = plans[g]
    BY <2>1, <2>2 DEF PlaceInv, PlaceTyped
  <2>6. Started' = Started /\ Completed' = Completed
    BY <1>2 DEF Started, Completed
  <2>7. PlaceTyped'
    BY <1>2, <2>3, <2>5, <2>6 DEF PlaceInv, PlaceTyped
  <2>8. RoadmapOfTest'
    BY <1>1, <1>2, <2>3, <2>4, <2>6 DEF PlaceInv, RoadmapOfTest
  <2>9. \A g \in 1 .. MaxGenerations : plans'[g] <= 1 /\ (g > generation' => plans'[g] = 0)
    BY <1>2, <2>2, <2>5 DEF PlaceInv, PlaceTyped, PlanOfRoadmap
  <2>10. PlanOfRoadmap'
    BY <1>1, <1>2, <2>2, <2>3, <2>9 DEF PlanOfRoadmap
  <2>11. CallsOwe'
    BY <1>2, <2>4, <2>6, CallMoves, NothingOwed DEF PlaceInv, Done
  <2> QED BY <2>7, <2>8, <2>10, <2>11 DEF PlaceInv
<1> QED BY <1>3, <1>4

LEMMA AnalysisWriteInv ==
    ASSUME PlaceInv, NEW c \in Calls, AnalysisWrite(c)
    PROVE  PlaceInv'
<1>1. roadmap \in RoadmapType /\ call[c].at \in Nat
  BY DEF PlaceInv, PlaceTyped, CallsOwe, CallOwes, AnalysisWrite
<1>2. /\ Done(c) /\ UNCHANGED <<placement, due, right, onboarded, generation, plans>>
      /\ roadmap' = [roadmap EXCEPT !.summary = call[c].at]
  BY DEF AnalysisWrite
<1>3. /\ roadmap' \in RoadmapType /\ roadmap'.plan = roadmap.plan /\ roadmap'.at = roadmap.at
      /\ roadmap'.attempt = roadmap.attempt /\ roadmap'.level = roadmap.level
  BY <1>1, <1>2 DEF RoadmapType
<1>4. roadmap # None /\ roadmap' # None
  BY <1>1, <1>3, PlacementAssumption
<1>5. Started' = Started /\ Completed' = Completed
  BY <1>2 DEF Started, Completed
<1>6. PlaceTyped'
  BY <1>2, <1>3, <1>5 DEF PlaceInv, PlaceTyped
<1>7. RoadmapOfTest' /\ PlanOfRoadmap'
  BY <1>2, <1>3, <1>4, <1>5 DEF PlaceInv, RoadmapOfTest, PlanOfRoadmap
<1>8. CallsOwe'
  BY <1>2, <1>4, <1>5, CallMoves, NothingOwed DEF PlaceInv, Done
<1> QED BY <1>6, <1>7, <1>8 DEF PlaceInv

LEMMA PlaceNextInv == PlaceInv /\ [PlaceNext]_placeVars => PlaceInv'
<1> SUFFICES ASSUME PlaceInv, [PlaceNext]_placeVars PROVE PlaceInv'
  OBVIOUS
<1>1. CASE UNCHANGED placeVars
  <2>1. Started' = Started /\ Completed' = Completed
    BY <1>1 DEF Started, Completed, placeVars
  <2> QED BY <1>1, <2>1
         DEF PlaceInv, PlaceTyped, CallsOwe, RoadmapOfTest, PlanOfRoadmap, placeVars
<1>2. CASE SetGoal \/ \E a \in Tests : Deadline(a)
  <2>1. /\ UNCHANGED <<placement, right, onboarded, roadmap, generation, plans, call>>
        /\ due' \subseteq Started
    BY <1>2 DEF SetGoal, Deadline, Stored, PlaceInv, PlaceTyped
  <2>2. Started' = Started /\ Completed' = Completed
    BY <2>1 DEF Started, Completed
  <2> QED BY <2>1, <2>2 DEF PlaceInv, PlaceTyped, CallsOwe, RoadmapOfTest, PlanOfRoadmap
<1>3. ASSUME NEW c \in Calls, NEW then \in {"create", "new"}, Look(c, then)
      PROVE  PlaceInv'
  <2>1. CASE InProgress # {} /\ Newest \in due
    <3> DEFINE q == [pc |-> "grade", a |-> Newest, then |-> then]
    <3>1. Newest \in Started
      BY <2>1 DEF PlaceInv, PlaceTyped
    <3>2. CallOwes(q, Started, onboarded, roadmap)
      BY <3>1 DEF CallOwes
    <3>3. Go(c, q) /\ UNCHANGED <<Stored, due>>
      BY <1>3, <2>1 DEF Look
    <3> HIDE DEF q
    <3> QED BY <3>2, <3>3, CallReads
  <2>2. CASE ~(InProgress # {} /\ Newest \in due)
    BY <1>3, <2>2, CallReads, NothingOwed DEF Look, Done
  <2> QED BY <2>1, <2>2
<1>4. ASSUME NEW c \in Calls, NEW a \in Tests, SubmitTest(c, a)
      PROVE  PlaceInv'
  <2> DEFINE q == [pc |-> "grade", a |-> a, then |-> "new"]
  <2>1. CallOwes(q, Started, onboarded, roadmap) /\ UNCHANGED <<Stored, due>>
    BY <1>4 DEF CallOwes, SubmitTest
  <2>2. Done(c) \/ Go(c, q)
    BY <1>4 DEF SubmitTest
  <2> HIDE DEF q
  <2> QED BY <2>1, <2>2, CallReads, NothingOwed DEF Done
<1>5. ASSUME NEW c \in Calls, NEW a \in Tests, Answer(c, a)
      PROVE  PlaceInv'
  <2> DEFINE q == [pc |-> "answer", a |-> a]
  <2>1. CallOwes(q, Started, onboarded, roadmap)
    BY DEF CallOwes
  <2>2. (Done(c) \/ Go(c, q)) /\ UNCHANGED <<Stored, due>>
    BY <1>5 DEF Answer
  <2> HIDE DEF q
  <2> QED BY <2>1, <2>2, CallReads, NothingOwed DEF Done
<1>6. ASSUME NEW c \in Calls, Record(c)
      PROVE  PlaceInv'
  <2>0. PICK n \in {right[call[c].a] + 1, right[call[c].a] - 1} \cap (0 .. MaxRight) :
            right' = [right EXCEPT ![call[c].a] = n]
    BY <1>6 DEF Record
  <2>1. /\ UNCHANGED <<placement, due, onboarded, roadmap, generation, plans>> /\ Done(c)
        /\ n \in Nat
    BY <1>6, PlacementAssumption DEF Record
  <2>2. right' \in [Tests -> Nat]
    BY <2>0, <2>1 DEF PlaceInv, PlaceTyped
  <2>3. Started' = Started /\ Completed' = Completed
    BY <2>1 DEF Started, Completed
  <2>4. CallsOwe'
    BY <2>1, <2>3, CallMoves, NothingOwed DEF PlaceInv, Done
  <2> QED BY <2>1, <2>2, <2>3, <2>4 DEF PlaceInv, PlaceTyped, RoadmapOfTest, PlanOfRoadmap
<1>7. ASSUME NEW c \in Calls, Grade(c)
      PROVE  PlaceInv'
  <2> DEFINE p == call[c]
             q == [pc |-> "finalize", a |-> p.a, then |-> p.then, level |-> right[p.a],
                   onboard |-> ~onboarded]
  <2>1. p.a \in Started /\ p.then \in {"create", "new"} /\ onboarded \in BOOLEAN
    BY <1>7 DEF PlaceInv, PlaceTyped, CallsOwe, CallOwes, Grade
  <2>2. right[p.a] \in Nat
    BY <2>1 DEF PlaceInv, PlaceTyped, Started
  <2>3. Go(c, q) /\ UNCHANGED <<Stored, due>>
    BY <1>7 DEF Grade
  <2>4. CallOwes(q, Started, onboarded, roadmap)
    BY <2>1, <2>2 DEF CallOwes
  <2> HIDE DEF q
  <2> QED BY <2>3, <2>4, CallReads
<1>8. ASSUME NEW c \in Calls, Skip(c)
      PROVE  PlaceInv'
  <2> DEFINE q == [pc |-> "persist", onboard |-> ~onboarded]
  <2>1. CallOwes(q, Started, onboarded, roadmap)
    BY DEF CallOwes, PlaceInv, PlaceTyped
  <2>2. (Done(c) \/ Go(c, q)) /\ UNCHANGED <<Stored, due>>
    BY <1>8 DEF Skip
  <2> HIDE DEF q
  <2> QED BY <2>1, <2>2, CallReads, NothingOwed DEF Done
<1>9. ASSUME NEW c \in Calls, NEW pc \in {"plan", "analysis"}, roadmap # None,
             Done(c) \/ Go(c, [pc |-> pc, at |-> roadmap.at]), UNCHANGED <<Stored, due>>
      PROVE  PlaceInv'
  <2> DEFINE q == [pc |-> pc, at |-> roadmap.at]
  <2>1. CallOwes(q, Started, onboarded, roadmap)
    BY <1>9 DEF CallOwes, PlaceInv, PlaceTyped, RoadmapType
  <2>2. Done(c) \/ Go(c, q)
    BY <1>9
  <2> HIDE DEF q
  <2> QED BY <1>9, <2>1, <2>2, CallReads, NothingOwed DEF Done
<1>10. ASSUME NEW c \in Calls, PlanRead(c) \/ AnalysisRead(c) \/ GiveUp(c)
       PROVE  PlaceInv'
  <2>1. CASE Done(c) /\ UNCHANGED <<Stored, due>>
    BY <2>1, CallReads, NothingOwed DEF Done
  <2> QED BY <1>9, <1>10, <2>1 DEF PlanRead, AnalysisRead, GiveUp
<1> QED BY <1>1, <1>2, <1>3, <1>4, <1>5, <1>6, <1>7, <1>8, <1>10,
           CreateInv, FinalizeInv, PersistInv, PlanWriteInv, AnalysisWriteInv DEF PlaceNext

(* RoadmapSound for any number of requests, attempts and roadmaps: the     *)
(* roadmap has the level of the attempt it names however gradings, retakes *)
(* and skipped tests overlap, a student is onboarded exactly when there is *)
(* one, and a plan is only ever shown on the generation it was made for    *)
(* (finalizeNow, persistRoadmapAndMaybeOnboard, requestRoadmapPlan).       *)
THEOREM RoadmapAlwaysSound == PlaceSpec => []RoadmapSound
<1>1. PlaceInv => RoadmapSound
  <2> SUFFICES ASSUME PlaceInv PROVE RoadmapSound
    OBVIOUS
  <2>1. RoadmapFollowsAttempt
    BY DEF PlaceInv, RoadmapOfTest, RoadmapFollowsAttempt
  <2>2. DOMAIN plans = 1 .. MaxGenerations
    BY DEF PlaceInv, PlaceTyped
  <2>3. PlanOfThisGeneration
    BY <2>2 DEF PlaceInv, PlanOfRoadmap, PlanOfThisGeneration
  <2> QED BY <2>1, <2>3 DEF RoadmapSound
<1> QED BY <1>1, PlaceInitInv, PlaceNextInv, PTL DEF PlaceSpec
-----------------------------------------------------------------------------
(***************************************************************************)
(* Study time.  A sum over a set of things that each weigh at most M is    *)
(* the number of their units.                                              *)
(***************************************************************************)
Units(S, w) == UNION {{x} \X (1 .. w[x]) : x \in S}
SumOver(S, w) == Cardinality(Units(S, w))

LEMMA UnitsFinite ==
    ASSUME NEW S, IsFiniteSet(S), NEW w, NEW M \in Nat, \A x \in S : w[x] \in 0 .. M
    PROVE  /\ IsFiniteSet(Units(S, w)) /\ SumOver(S, w) \in Nat
           /\ SumOver(S, w) <= Cardinality(S) * M
<1>1. Units(S, w) \subseteq S \X (1 .. M)
  <2> SUFFICES ASSUME NEW x \in S PROVE {x} \X (1 .. w[x]) \subseteq S \X (1 .. M)
    BY DEF Units
  <2>1. 1 .. w[x] \subseteq 1 .. M
    OBVIOUS
  <2> QED BY <2>1
<1>2. IsFiniteSet(1 .. M) /\ Cardinality(1 .. M) = M
  BY FS_Interval
<1>3. IsFiniteSet(S \X (1 .. M)) /\ Cardinality(S \X (1 .. M)) = Cardinality(S) * M
  BY <1>2, FS_Product
<1>4. IsFiniteSet(Units(S, w)) /\ Cardinality(Units(S, w)) <= Cardinality(S) * M
  BY <1>1, <1>3, FS_Subset
<1>5. Cardinality(Units(S, w)) \in Nat
  BY <1>4, FS_CardinalityType
<1> QED BY <1>3, <1>4, <1>5 DEF SumOver

LEMMA SumSame ==
    ASSUME NEW S, NEW w, NEW v, \A x \in S : w[x] = v[x]
    PROVE  SumOver(S, w) = SumOver(S, v)
<1>1. Units(S, w) = Units(S, v)
  BY DEF Units
<1> QED BY <1>1 DEF SumOver

LEMMA SumPart ==
    ASSUME NEW S, IsFiniteSet(S), NEW w, NEW M \in Nat, \A x \in S : w[x] \in 0 .. M,
           NEW T \in SUBSET S
    PROVE  SumOver(T, w) <= SumOver(S, w)
<1>1. Units(T, w) \subseteq Units(S, w)
  BY DEF Units
<1> QED BY <1>1, UnitsFinite, FS_Subset DEF SumOver

LEMMA Interval == ASSUME NEW n \in Nat PROVE IsFiniteSet(1 .. n) /\ Cardinality(1 .. n) = n
<1>1. 1 \in Int /\ n \in Int
  OBVIOUS
<1>2. IsFiniteSet(1 .. n) /\ Cardinality(1 .. n) = IF 1 > n THEN 0 ELSE n - 1 + 1
  BY <1>1, FS_Interval
<1>3. (IF 1 > n THEN 0 ELSE n - 1 + 1) = n
  OBVIOUS
<1> QED BY <1>2, <1>3

LEMMA Column ==
    ASSUME NEW x, NEW n \in Nat
    PROVE  IsFiniteSet({x} \X (1 .. n)) /\ Cardinality({x} \X (1 .. n)) = n
<1>1. IsFiniteSet({x}) /\ Cardinality({x}) = 1
  BY FS_Singleton
<1> DEFINE A == {x}  B == 1 .. n
<1>2. IsFiniteSet(B) /\ Cardinality(B) = n
  BY Interval
<1>3. IsFiniteSet(A) /\ Cardinality(A) = 1
  BY <1>1
<1> HIDE DEF A, B
<1>4. IsFiniteSet(A \X B) /\ Cardinality(A \X B) = Cardinality(A) * Cardinality(B)
  BY <1>2, <1>3, FS_Product
<1>5. 1 * n = n
  OBVIOUS
<1>6. IsFiniteSet(A \X B) /\ Cardinality(A \X B) = n
  BY <1>2, <1>3, <1>4, <1>5
<1> QED BY <1>6 DEF A, B

LEMMA SumMore ==
    ASSUME NEW S, IsFiniteSet(S), NEW x, x \notin S,
           NEW w, NEW M \in Nat, \A y \in S \cup {x} : w[y] \in 0 .. M
    PROVE  SumOver(S \cup {x}, w) = SumOver(S, w) + w[x]
<1> DEFINE U == Units(S, w)  one == {x} \X (1 .. w[x])
<1>1. Units(S \cup {x}, w) = U \cup one
  BY DEF Units
<1>2. U \cap one = {}
  BY DEF Units
<1>3. w[x] \in Nat
  OBVIOUS
<1>4. IsFiniteSet(one) /\ Cardinality(one) = w[x]
  BY <1>3, Column
<1>5. IsFiniteSet(U) /\ Cardinality(U) \in Nat
  BY UnitsFinite DEF SumOver
<1> HIDE DEF U, one
<1>6. Cardinality(U \cup one) = Cardinality(U) + Cardinality(one) - Cardinality(U \cap one)
  BY <1>4, <1>5, FS_Union
<1>7. Cardinality(U \cap one) = 0
  BY <1>2, FS_EmptySet
<1>8. Cardinality(U \cup one) = Cardinality(U) + w[x]
  BY <1>3, <1>4, <1>5, <1>6, <1>7
<1> QED BY <1>1, <1>8 DEF SumOver, U

LEMMA SumNone == ASSUME NEW w PROVE SumOver({}, w) = 0
<1>1. Units({}, w) = {}
  BY DEF Units
<1> QED BY <1>1, FS_EmptySet DEF SumOver

LEMMA DayStart ==
    ASSUME NEW at \in Nat
    PROVE  dayStart(at) \in Nat /\ dayStart(at) <= at /\ at - dayStart(at) < DaySeconds
<1>1. at % DaySeconds \in Nat /\ at % DaySeconds < DaySeconds /\ at % DaySeconds <= at
  BY StudyAssumption
<1> QED BY <1>1, StudyAssumption DEF dayStart

(***************************************************************************)
(* What a day holds, and what the heartbeats on their way to it will add,  *)
(* stay within the seconds that passed of it and one flush of every device *)
(* but one: a heartbeat asks for what the day still misses, and every      *)
(* other one was already counted at a flush.                               *)
(***************************************************************************)
EventType == [number : Numbers, credited : 0 .. MaxFlush, at : Nat]

BeatType ==
    [pc : {"none", "sum", "insert"}, number : Numbers \cup {None},
     requested : 0 .. MaxFlush, at : Nat, credited : 0 .. MaxFlush]

BeatSane(b, clock) ==
    /\ b.at <= clock
    /\ b.pc # "none" => b.number \in Numbers

eventsOf(events, start) == {e \in events : dayStart(e.at) = start}
pendingOn(beats, start) ==
    {b \in Beats : beats[b].pc = "insert" /\ dayStart(beats[b].at) = start}

credits(events, start) ==
    SumOver(eventsOf(events, start), [e \in EventType |-> e.credited])
coming(beats, start) ==
    SumOver(pendingOn(beats, start), [b \in Beats |-> beats[b].credited])

passed(clock, start) ==
    IF clock - start < DaySeconds THEN clock - start ELSE DaySeconds

Others == MaxFlush * (Cardinality(Beats) - 1)

EventsSane(events, clock) ==
    /\ IsFiniteSet(events) /\ events \in SUBSET EventType
    /\ \A e \in events : e.at <= clock

BeatsSane(beats, clock) ==
    /\ beats \in [Beats -> BeatType]
    /\ \A b \in Beats : BeatSane(beats[b], clock)

WithinDays(events, beats, clock) ==
    \A s \in Nat : clock >= s =>
        credits(events, s) + coming(beats, s) <= passed(clock, s) + Others

ClockInv ==
    /\ now \in Nat
    /\ EventsSane(studyEvents, now)
    /\ BeatsSane(beat, now)
    /\ WithinDays(studyEvents, beat, now)

LEMMA OthersNat == Others \in Nat
<1>1. IsFiniteSet(Beats) /\ Beats # {} /\ MaxFlush \in Nat
  BY StudyAssumption
<1>2. Cardinality(Beats) \in Nat /\ Cardinality(Beats) # 0
  BY <1>1, FS_CardinalityType, FS_EmptySet
<1>3. Cardinality(Beats) - 1 \in Nat
  BY <1>2
<1> DEFINE k == Cardinality(Beats) - 1
<1>4. k \in Nat
  BY <1>3
<1> HIDE DEF k
<1>5. MaxFlush * k \in Nat
  BY <1>1, <1>4
<1> QED BY <1>5 DEF Others, k

LEMMA CreditsNat ==
    ASSUME NEW events, NEW clock, EventsSane(events, clock), NEW s
    PROVE  /\ IsFiniteSet(eventsOf(events, s)) /\ credits(events, s) \in Nat
           /\ \A e \in events : [x \in EventType |-> x.credited][e] \in 0 .. MaxFlush
<1>1. IsFiniteSet(eventsOf(events, s))
  BY FS_Subset DEF eventsOf, EventsSane
<1>2. \A e \in events : [x \in EventType |-> x.credited][e] \in 0 .. MaxFlush
  BY DEF EventsSane, EventType
<1>3. \A e \in eventsOf(events, s) : [x \in EventType |-> x.credited][e] \in 0 .. MaxFlush
  BY <1>2 DEF eventsOf
<1> QED BY <1>1, <1>2, <1>3, UnitsFinite, StudyAssumption DEF credits

LEMMA ComingNat ==
    ASSUME NEW beats \in [Beats -> BeatType], NEW s
    PROVE  /\ IsFiniteSet(pendingOn(beats, s)) /\ coming(beats, s) \in Nat
           /\ \A b \in Beats : [x \in Beats |-> beats[x].credited][b] \in 0 .. MaxFlush
<1>1. IsFiniteSet(pendingOn(beats, s))
  BY FS_Subset, StudyAssumption DEF pendingOn
<1>2. \A b \in Beats : [x \in Beats |-> beats[x].credited][b] \in 0 .. MaxFlush
  BY DEF BeatType
<1>3. \A b \in pendingOn(beats, s) : [x \in Beats |-> beats[x].credited][b] \in 0 .. MaxFlush
  BY <1>2 DEF pendingOn
<1> QED BY <1>1, <1>2, <1>3, UnitsFinite, StudyAssumption DEF coming

LEMMA PassedUp ==
    ASSUME NEW clock \in Nat, NEW s \in Nat, clock >= s
    PROVE  passed(clock, s) \in Nat /\ passed(clock, s) <= passed(clock + 1, s)
BY StudyAssumption DEF passed

\* A heartbeat that leaves or is put off does not add to what is coming.
LEMMA ComingDown ==
    ASSUME NEW beats \in [Beats -> BeatType], NEW b \in Beats,
           NEW v \in BeatType, v.pc # "insert", NEW s
    PROVE  coming([beats EXCEPT ![b] = v], s) <= coming(beats, s)
<1> DEFINE new == [beats EXCEPT ![b] = v]
           w == [x \in Beats |-> beats[x].credited]
           u == [x \in Beats |-> new[x].credited]
<1>1. pendingOn(new, s) \subseteq pendingOn(beats, s) \ {b}
  BY DEF pendingOn
<1>2. \A x \in pendingOn(new, s) : u[x] = w[x]
  BY <1>1 DEF pendingOn
<1>3. SumOver(pendingOn(new, s), u) = SumOver(pendingOn(new, s), w)
  BY <1>2, SumSame
<1>4. IsFiniteSet(pendingOn(beats, s))
      /\ \A x \in pendingOn(beats, s) : w[x] \in 0 .. MaxFlush
  BY ComingNat DEF pendingOn
<1>5. pendingOn(new, s) \in SUBSET pendingOn(beats, s)
  BY <1>1
<1>6. SumOver(pendingOn(new, s), w) <= SumOver(pendingOn(beats, s), w)
  BY <1>4, <1>5, SumPart, StudyAssumption
<1> QED BY <1>3, <1>6 DEF coming

\* One that is going to be inserted adds what it is credited with, on its day only.
LEMMA ComingUp ==
    ASSUME NEW beats \in [Beats -> BeatType], NEW b \in Beats, beats[b].pc # "insert",
           NEW v \in BeatType, v.pc = "insert", NEW s
    PROVE  /\ dayStart(v.at) # s => coming([beats EXCEPT ![b] = v], s) = coming(beats, s)
           /\ dayStart(v.at) = s =>
                coming([beats EXCEPT ![b] = v], s) = coming(beats, s) + v.credited
<1> DEFINE new == [beats EXCEPT ![b] = v]
           w == [x \in Beats |-> beats[x].credited]
           u == [x \in Beats |-> new[x].credited]
           P == pendingOn(beats, s)
<1>0. new \in [Beats -> BeatType]
  OBVIOUS
<1>1. b \notin P /\ P \subseteq Beats
  BY DEF pendingOn
<1>2. \A x \in P : u[x] = w[x]
  BY <1>1
<1>3. SumOver(P, u) = SumOver(P, w)
  BY <1>2, SumSame
<1>4. IsFiniteSet(P) /\ \A x \in Beats : u[x] \in 0 .. MaxFlush
  BY <1>0, ComingNat
<1>5. CASE dayStart(v.at) # s
  <2>1. pendingOn(new, s) = P
    BY <1>5 DEF pendingOn
  <2> QED BY <1>3, <1>5, <2>1 DEF coming
<1>6. CASE dayStart(v.at) = s
  <2>1. pendingOn(new, s) = P \cup {b}
    BY <1>6 DEF pendingOn
  <2>2. \A x \in P \cup {b} : u[x] \in 0 .. MaxFlush
    BY <1>1, <1>4
  <2>3. u[b] = v.credited
    OBVIOUS
  <2> HIDE DEF P, u
  <2>4. SumOver(P \cup {b}, u) = SumOver(P, u) + u[b]
    BY <1>1, <1>4, <2>2, SumMore, StudyAssumption
  <2> USE DEF P, u
  <2> QED BY <1>3, <1>6, <2>1, <2>3, <2>4 DEF coming
<1> QED BY <1>5, <1>6

\* One of Beats can wait beside the others, each at a flush.
LEMMA ComingBound ==
    ASSUME NEW beats \in [Beats -> BeatType], NEW b \in Beats, beats[b].pc # "insert", NEW s
    PROVE  coming(beats, s) <= Others
<1> DEFINE w == [x \in Beats |-> beats[x].credited]  R == Beats \ {b}
           P == pendingOn(beats, s)
<1>1. P \subseteq R
  BY DEF pendingOn
<1>2. \A x \in Beats : w[x] \in 0 .. MaxFlush
  BY ComingNat
<1>3. IsFiniteSet(R) /\ Cardinality(R) = Cardinality(Beats) - 1
  BY StudyAssumption, FS_RemoveElement
<1>4. IsFiniteSet(P) /\ Cardinality(P) <= Cardinality(R)
  BY <1>1, <1>3, FS_Subset
<1>5. Cardinality(P) \in Nat /\ Cardinality(R) \in Nat
  BY <1>3, <1>4, FS_CardinalityType
<1>6. SumOver(P, w) \in Nat /\ SumOver(P, w) <= Cardinality(P) * MaxFlush
  <2>1. \A x \in P : w[x] \in 0 .. MaxFlush
    BY <1>1, <1>2
  <2> HIDE DEF P, w
  <2> QED BY <1>4, <2>1, UnitsFinite, StudyAssumption
<1>7. \A p, r, m \in Nat : p <= r => p * m <= m * r
  OBVIOUS
<1>8. Cardinality(P) * MaxFlush <= MaxFlush * Cardinality(R)
  BY <1>4, <1>5, <1>7, StudyAssumption
<1>9. Cardinality(P) * MaxFlush \in Nat /\ MaxFlush * Cardinality(R) \in Nat
  BY <1>5, StudyAssumption
<1>10. Others = MaxFlush * Cardinality(R)
  BY <1>3 DEF Others
<1>11. SumOver(P, w) <= Others
  <2> HIDE DEF P, w, R
  <2> QED BY <1>6, <1>8, <1>9, <1>10
<1> QED BY <1>11 DEF coming

\* A new event adds what it credits, to its own day only.
LEMMA CreditsUp ==
    ASSUME NEW events, NEW clock, EventsSane(events, clock),
           NEW e \in EventType, e \notin events, NEW s
    PROVE  /\ dayStart(e.at) # s => credits(events \cup {e}, s) = credits(events, s)
           /\ dayStart(e.at) = s =>
                credits(events \cup {e}, s) = credits(events, s) + e.credited
<1> DEFINE w == [x \in EventType |-> x.credited]  E == eventsOf(events, s)
<1>1. CASE dayStart(e.at) # s
  <2>1. eventsOf(events \cup {e}, s) = E
    BY <1>1 DEF eventsOf
  <2> QED BY <1>1, <2>1 DEF credits
<1>2. CASE dayStart(e.at) = s
  <2>1. eventsOf(events \cup {e}, s) = E \cup {e} /\ e \notin E
    BY <1>2 DEF eventsOf
  <2>2. IsFiniteSet(E)
    BY CreditsNat
  <2>3. \A x \in E \cup {e} : w[x] \in 0 .. MaxFlush
    BY DEF EventsSane, EventType, eventsOf
  <2>4. w[e] = e.credited
    OBVIOUS
  <2> HIDE DEF E, w
  <2>5. SumOver(E \cup {e}, w) = SumOver(E, w) + w[e]
    BY <2>1, <2>2, <2>3, SumMore, StudyAssumption
  <2> USE DEF E, w
  <2> QED BY <1>2, <2>1, <2>4, <2>5 DEF credits
<1> QED BY <1>1, <1>2

\* What a heartbeat finds used of its day counts all that the day was credited.
LEMMA UsedCounts ==
    ASSUME NEW events, NEW clock, EventsSane(events, clock), NEW s \in Nat
    PROVE  /\ secondsOf({e \in events : e.at >= s}) \in Nat
           /\ credits(events, s) <= secondsOf({e \in events : e.at >= s})
           /\ credits(events, s) = secondsOf(eventsOf(events, s))
<1> DEFINE w == [x \in EventType |-> x.credited]  U == {e \in events : e.at >= s}
<1>1. \A S \in SUBSET EventType : secondsOf(S) = SumOver(S, w)
  BY DEF secondsOf, SumOver, Units
<1>2. U \subseteq EventType /\ eventsOf(events, s) \subseteq EventType
  BY DEF EventsSane, eventsOf
<1>3. eventsOf(events, s) \subseteq U
  <2> SUFFICES ASSUME NEW e \in events, dayStart(e.at) = s PROVE e.at >= s
    BY DEF eventsOf
  <2>1. e.at \in Nat
    BY DEF EventsSane, EventType
  <2> QED BY <2>1, DayStart
<1>4. IsFiniteSet(U)
  BY FS_Subset DEF EventsSane
<1>5. \A x \in U : w[x] \in 0 .. MaxFlush
  BY CreditsNat
<1>6. secondsOf(U) = SumOver(U, w) /\ secondsOf(eventsOf(events, s)) = SumOver(eventsOf(events, s), w)
  BY <1>1, <1>2
<1> HIDE DEF U, w
<1>7. SumOver(eventsOf(events, s), w) <= SumOver(U, w)
  BY <1>3, <1>4, <1>5, SumPart, StudyAssumption
<1>8. SumOver(U, w) \in Nat
  BY <1>4, <1>5, UnitsFinite, StudyAssumption
<1> QED BY <1>6, <1>7, <1>8 DEF U, w, credits

LEMMA ClockInit == StudyInit => ClockInv
<1> SUFFICES ASSUME StudyInit PROVE ClockInv
  OBVIOUS
<1>1. now \in Nat /\ EventsSane(studyEvents, now)
  BY FS_EmptySet DEF StudyInit, EventsSane
<1>2. NoBeat \in BeatType /\ BeatSane(NoBeat, 0) /\ NoBeat.pc = "none"
  BY StudyAssumption DEF NoBeat, BeatType, BeatSane
<1>3. BeatsSane(beat, now)
  BY <1>2 DEF StudyInit, BeatsSane
<1>4. WithinDays(studyEvents, beat, now)
  <2> SUFFICES ASSUME NEW s \in Nat, now >= s
               PROVE  credits(studyEvents, s) + coming(beat, s) <= passed(now, s) + Others
    BY DEF WithinDays
  <2>1. eventsOf(studyEvents, s) = {} /\ pendingOn(beat, s) = {}
    BY <1>2 DEF StudyInit, eventsOf, pendingOn
  <2>2. credits(studyEvents, s) = 0 /\ coming(beat, s) = 0
    BY <2>1, SumNone DEF credits, coming
  <2>3. passed(now, s) \in Nat
    BY <1>1, PassedUp
  <2> QED BY <2>2, <2>3, OthersNat
<1> QED BY <1>1, <1>3, <1>4 DEF ClockInv

\* A step that credits nothing and puts nothing more on its way.
LEMMA ClockEases ==
    ASSUME ClockInv, NEW b \in Beats, NEW v \in BeatType, v.pc # "insert", BeatSane(v, now),
           beat' = [beat EXCEPT ![b] = v], UNCHANGED <<now, studyEvents>>
    PROVE  ClockInv'
<1>1. beat \in [Beats -> BeatType] /\ beat' \in [Beats -> BeatType]
  BY DEF ClockInv, BeatsSane
<1>2. BeatsSane(beat', now)
  BY <1>1 DEF ClockInv, BeatsSane
<1>3. WithinDays(studyEvents, beat', now)
  <2> SUFFICES ASSUME NEW s \in Nat, now >= s
               PROVE  credits(studyEvents, s) + coming(beat', s) <= passed(now, s) + Others
    BY DEF WithinDays
  <2>1. credits(studyEvents, s) + coming(beat, s) <= passed(now, s) + Others
    BY DEF ClockInv, WithinDays
  <2>2. coming(beat', s) <= coming(beat, s)
    BY <1>1, ComingDown
  <2>3. coming(beat', s) \in Nat /\ coming(beat, s) \in Nat
    BY <1>1, ComingNat
  <2>4. credits(studyEvents, s) \in Nat
    BY CreditsNat DEF ClockInv
  <2>5. passed(now, s) \in Nat
    BY PassedUp DEF ClockInv
  <2> QED BY <2>1, <2>2, <2>3, <2>4, <2>5, OthersNat
<1> QED BY <1>2, <1>3 DEF ClockInv

LEMMA HeartbeatHolds ==
    ASSUME ClockInv, NEW b \in Beats, NEW number \in Numbers, NEW seconds \in 1 .. MaxFlush,
           Heartbeat(b, number, seconds)
    PROVE  ClockInv'
<1> DEFINE v == [pc |-> "sum", number |-> number, requested |-> seconds,
                 at |-> now, credited |-> 0]
<1>1. seconds \in 0 .. MaxFlush /\ 0 \in 0 .. MaxFlush /\ now \in Nat
  BY StudyAssumption DEF ClockInv
<1>2. v.pc = "sum" /\ v \in BeatType /\ BeatSane(v, now)
  BY <1>1 DEF BeatType, BeatSane
<1>3. beat' = [beat EXCEPT ![b] = v] /\ UNCHANGED <<now, studyEvents>>
  BY DEF Heartbeat
<1> HIDE DEF v
<1> QED BY <1>2, <1>3, ClockEases

LEMMA NoBeatHolds ==
    ASSUME ClockInv, NEW b \in Beats, beat' = [beat EXCEPT ![b] = NoBeat],
           UNCHANGED <<now, studyEvents>>
    PROVE  ClockInv'
<1>1. NoBeat \in BeatType /\ BeatSane(NoBeat, now) /\ NoBeat.pc # "insert"
  BY StudyAssumption DEF NoBeat, BeatType, BeatSane, ClockInv
<1> QED BY <1>1, ClockEases

LEMMA SumHolds ==
    ASSUME ClockInv, NEW b \in Beats, Sum(b)
    PROVE  ClockInv'
<1> DEFINE start    == dayStart(beat[b].at)
           used     == usedSince(start)
           credited == creditableSeconds(beat[b].requested, used, beat[b].at - start)
           v        == [beat[b] EXCEPT !.pc = "insert", !.credited = credited]
<1>1. beat \in [Beats -> BeatType] /\ beat[b] \in BeatType /\ beat[b].pc = "sum"
      /\ BeatSane(beat[b], now) /\ UNCHANGED <<now, studyEvents>> /\ now \in Nat
  BY DEF Sum, ClockInv, BeatsSane
<1>2. beat[b].at \in Nat /\ beat[b].at <= now /\ beat[b].requested \in 0 .. MaxFlush
  BY <1>1 DEF BeatSane, BeatType
<1>3. start \in Nat /\ start <= beat[b].at /\ beat[b].at - start < DaySeconds
  BY <1>2, DayStart
<1>4. used \in Nat /\ credits(studyEvents, start) <= used
  BY <1>3, UsedCounts DEF usedSince, ClockInv
<1>5. /\ credited \in 0 .. MaxFlush
      /\ credited # 0 => used + credited <= beat[b].at - start
  <2> DEFINE elapsed == beat[b].at - start
  <2>1. elapsed \in Nat
    BY <1>2, <1>3
  <2> HIDE DEF used, elapsed
  <2> QED BY <1>2, <1>4, <2>1, StudyAssumption DEF creditableSeconds, elapsed
<1>6. CASE credited = 0
  <2>1. beat' = [beat EXCEPT ![b] = NoBeat]
    BY <1>6 DEF Sum
  <2> QED BY <1>1, <2>1, NoBeatHolds
<1>7. CASE credited # 0
  <2>1. beat' = [beat EXCEPT ![b] = v]
    BY <1>7, <1>1 DEF Sum
  <2>2. v \in BeatType /\ v.pc = "insert" /\ v.credited = credited /\ v.at = beat[b].at
        /\ BeatSane(v, now)
    BY <1>1, <1>5 DEF BeatType, BeatSane
  <2> HIDE DEF v, credited, used, start
  <2>3. BeatsSane(beat', now)
    BY <1>1, <2>1, <2>2 DEF ClockInv, BeatsSane
  <2>4. WithinDays(studyEvents, beat', now)
    <3> SUFFICES ASSUME NEW s \in Nat, now >= s
                 PROVE  credits(studyEvents, s) + coming(beat', s) <= passed(now, s) + Others
      BY DEF WithinDays
    <3>1. credits(studyEvents, s) + coming(beat, s) <= passed(now, s) + Others
      BY DEF ClockInv, WithinDays
    <3>2. CASE start # s
      <4>1. coming(beat', s) = coming(beat, s)
        <5>1. dayStart(v.at) # s /\ beat[b].pc # "insert"
          BY <1>1, <2>2, <3>2 DEF start
        <5> QED BY <1>1, <2>1, <2>2, <5>1, ComingUp
      <4> QED BY <3>1, <4>1
    <3>3. CASE start = s
      <4>1. coming(beat', s) = coming(beat, s) + credited
        BY <1>1, <2>1, <2>2, <3>3, ComingUp DEF start
      <4>2. coming(beat, s) <= Others /\ coming(beat, s) \in Nat
        BY <1>1, ComingBound, ComingNat
      <4>3. credits(studyEvents, s) \in Nat
        BY CreditsNat DEF ClockInv
      <4>4. credits(studyEvents, s) + credited <= beat[b].at - s
        BY <1>4, <1>5, <1>7, <3>3, <4>3, <1>2, <1>3
      <4>5. beat[b].at - s <= passed(now, s) /\ passed(now, s) \in Nat
        BY <1>1, <1>2, <1>3, <3>3, StudyAssumption, PassedUp DEF passed
      <4> QED BY <4>1, <4>2, <4>3, <4>4, <4>5, <1>5, <1>2, OthersNat
    <3> QED BY <3>2, <3>3
  <2> QED BY <1>1, <2>3, <2>4 DEF ClockInv
<1> QED BY <1>6, <1>7

LEMMA InsertHolds ==
    ASSUME ClockInv, NEW b \in Beats, Insert(b)
    PROVE  ClockInv'
<1> DEFINE e == [number |-> beat[b].number, credited |-> beat[b].credited, at |-> beat[b].at]
           freed == [beat EXCEPT ![b] = NoBeat]
<1>1. beat \in [Beats -> BeatType] /\ beat[b] \in BeatType /\ beat[b].pc = "insert"
      /\ BeatSane(beat[b], now) /\ now' = now /\ beat' = freed /\ now \in Nat
      /\ EventsSane(studyEvents, now)
  BY DEF Insert, ClockInv, BeatsSane
<1>2. NoBeat \in BeatType /\ BeatSane(NoBeat, now) /\ NoBeat.pc # "insert"
  BY StudyAssumption DEF NoBeat, BeatType, BeatSane, ClockInv
<1>3. CASE \E x \in studyEvents : x.number = beat[b].number
  <2>1. studyEvents' = studyEvents
    BY <1>3 DEF Insert
  <2> QED BY <1>1, <2>1, NoBeatHolds
<1>4. CASE ~ \E x \in studyEvents : x.number = beat[b].number
  <2>1. e \in EventType /\ e \notin studyEvents /\ e.at = beat[b].at /\ e.at <= now
        /\ e.credited = beat[b].credited
    BY <1>1, <1>4 DEF EventType, BeatType, BeatSane
  <2>2. studyEvents' = studyEvents \cup {e}
    BY <1>4 DEF Insert
  <2> HIDE DEF e
  <2>3. EventsSane(studyEvents', now)
    BY <1>1, <2>1, <2>2, FS_AddElement DEF EventsSane
  <2>4. freed \in [Beats -> BeatType] /\ freed[b] = NoBeat
        /\ beat = [freed EXCEPT ![b] = beat[b]]
    BY <1>1, <1>2
  <2>5. BeatsSane(beat', now)
    BY <1>1, <1>2 DEF ClockInv, BeatsSane
  <2> HIDE DEF freed
  <2>6. WithinDays(studyEvents', beat', now)
    <3> SUFFICES ASSUME NEW s \in Nat, now >= s
                 PROVE  credits(studyEvents', s) + coming(freed, s) <= passed(now, s) + Others
      BY <1>1 DEF WithinDays
    <3>1. credits(studyEvents, s) + coming(beat, s) <= passed(now, s) + Others
      BY DEF ClockInv, WithinDays
    <3>2. /\ credits(studyEvents, s) \in Nat /\ coming(freed, s) \in Nat
          /\ beat[b].credited \in Nat
      BY <1>1, <2>4, CreditsNat, ComingNat DEF BeatType
    <3>3. freed[b].pc # "insert"
      BY <1>2, <2>4
    <3>4. CASE dayStart(beat[b].at) = s
      <4>1. coming(beat, s) = coming(freed, s) + beat[b].credited
        BY <1>1, <2>4, <3>3, <3>4, ComingUp
      <4>2. credits(studyEvents', s) = credits(studyEvents, s) + beat[b].credited
        BY <1>1, <2>1, <2>2, <3>4, CreditsUp
      <4> QED BY <3>1, <3>2, <4>1, <4>2
    <3>5. CASE dayStart(beat[b].at) # s
      <4>1. coming(beat, s) = coming(freed, s)
        BY <1>1, <2>4, <3>3, <3>5, ComingUp
      <4>2. credits(studyEvents', s) = credits(studyEvents, s)
        BY <1>1, <2>1, <2>2, <3>5, CreditsUp
      <4> QED BY <3>1, <4>1, <4>2
    <3> QED BY <3>4, <3>5
  <2> QED BY <1>1, <2>3, <2>5, <2>6 DEF ClockInv
<1> QED BY <1>3, <1>4

LEMMA SecondHolds == ASSUME ClockInv, Second PROVE ClockInv'
<1>1. now' = now + 1 /\ UNCHANGED <<studyEvents, beat>> /\ now \in Nat
      /\ EventsSane(studyEvents, now) /\ beat \in [Beats -> BeatType]
  BY DEF Second, ClockInv, BeatsSane
<1>2. EventsSane(studyEvents, now + 1)
  <2> SUFFICES ASSUME NEW e \in studyEvents PROVE e.at <= now + 1
    BY <1>1 DEF EventsSane
  <2>1. e.at \in Nat /\ e.at <= now
    BY <1>1 DEF EventsSane, EventType
  <2> QED BY <1>1, <2>1
<1>3. BeatsSane(beat, now + 1)
  <2> SUFFICES ASSUME NEW b \in Beats PROVE BeatSane(beat[b], now + 1)
    BY <1>1 DEF BeatsSane
  <2>1. BeatSane(beat[b], now) /\ beat[b].at \in Nat
    BY DEF ClockInv, BeatsSane, BeatType
  <2> QED BY <1>1, <2>1 DEF BeatSane
<1>4. WithinDays(studyEvents, beat, now + 1)
  <2> SUFFICES ASSUME NEW s \in Nat, now + 1 >= s
               PROVE  credits(studyEvents, s) + coming(beat, s) <= passed(now + 1, s) + Others
    BY DEF WithinDays
  <2>1. credits(studyEvents, s) \in Nat /\ coming(beat, s) \in Nat
    BY <1>1, CreditsNat, ComingNat
  <2>2. passed(now + 1, s) \in Nat
    BY <1>1, PassedUp
  <2>3. CASE now >= s
    <3>1. credits(studyEvents, s) + coming(beat, s) <= passed(now, s) + Others
      BY <2>3 DEF ClockInv, WithinDays
    <3>2. passed(now, s) <= passed(now + 1, s) /\ passed(now, s) \in Nat
      BY <1>1, <2>3, PassedUp
    <3> QED BY <2>1, <2>2, <3>1, <3>2, OthersNat
  <2>4. CASE ~ (now >= s)
    <3>1. eventsOf(studyEvents, s) = {}
      <4> SUFFICES ASSUME NEW e \in studyEvents PROVE dayStart(e.at) # s
        BY DEF eventsOf
      <4>1. e.at \in Nat /\ e.at <= now
        BY <1>1 DEF EventsSane, EventType
      <4> QED BY <1>1, <2>4, <4>1, DayStart
    <3>2. pendingOn(beat, s) = {}
      <4> SUFFICES ASSUME NEW b \in Beats PROVE dayStart(beat[b].at) # s
        BY DEF pendingOn
      <4>1. beat[b].at \in Nat /\ beat[b].at <= now
        BY <1>1 DEF ClockInv, BeatsSane, BeatSane, BeatType
      <4> QED BY <1>1, <2>4, <4>1, DayStart
    <3>3. credits(studyEvents, s) = 0 /\ coming(beat, s) = 0
      BY <3>1, <3>2, SumNone DEF credits, coming
    <3> QED BY <2>2, <3>3, OthersNat
  <2> QED BY <2>3, <2>4
<1>5. now + 1 \in Nat
  BY <1>1
<1> QED BY <1>1, <1>2, <1>3, <1>4, <1>5 DEF ClockInv

LEMMA ClockHoldsDays == ClockInv => DayHoldsItsSeconds
<1> SUFFICES ASSUME ClockInv, NEW day \in 0 .. Days - 1, now >= day * DaySeconds
             PROVE  creditedOn(day) <= elapsedOn(day) + MaxFlush * (Cardinality(Beats) - 1)
  BY DEF DayHoldsItsSeconds
<1>1. PICK s \in Nat : s = day * DaySeconds
  BY StudyAssumption
<1>2. creditedOn(day) = credits(studyEvents, s)
  BY <1>1, UsedCounts DEF creditedOn, ClockInv, eventsOf
<1>3. elapsedOn(day) = passed(now, s)
  BY <1>1 DEF elapsedOn, passed
<1>4. credits(studyEvents, s) + coming(beat, s) <= passed(now, s) + Others
  BY <1>1 DEF ClockInv, WithinDays
<1>5. credits(studyEvents, s) \in Nat /\ coming(beat, s) \in Nat
      /\ passed(now, s) \in Nat
  BY <1>1, CreditsNat, ComingNat, PassedUp DEF ClockInv, BeatsSane
<1>6. credits(studyEvents, s) <= passed(now, s) + Others
  BY <1>4, <1>5, OthersNat
<1> QED BY <1>2, <1>3, <1>6 DEF Others

(* Whatever a student's devices send, no day holds more study time than    *)
(* has passed of it and one flush of each other device                     *)
(* (StudyTimeService.recordHeartbeat, creditable-seconds.ts:25).           *)
THEOREM DayAlwaysHoldsItsSeconds == StudySpec => []DayHoldsItsSeconds
<1>1. StudyInit => ClockInv
  BY ClockInit
<1>2. ClockInv /\ [StudyNext]_studyVars => ClockInv'
  <2> SUFFICES ASSUME ClockInv, [StudyNext]_studyVars PROVE ClockInv'
    OBVIOUS
  <2>1. CASE UNCHANGED studyVars
    BY <2>1 DEF studyVars, ClockInv, EventsSane, BeatsSane, WithinDays, credits,
                coming, pendingOn
  <2>2. CASE Second
    BY <2>2, SecondHolds
  <2>3. ASSUME NEW b \in Beats, Sum(b) PROVE ClockInv'
    BY <2>3, SumHolds
  <2>4. ASSUME NEW b \in Beats, Insert(b) PROVE ClockInv'
    BY <2>4, InsertHolds
  <2>5. ASSUME NEW b \in Beats, LoseBeat(b) PROVE ClockInv'
    BY <2>5, NoBeatHolds DEF LoseBeat
  <2>6. ASSUME NEW b \in Beats, NEW number \in Numbers, NEW seconds \in 1 .. MaxFlush,
               Heartbeat(b, number, seconds)
        PROVE  ClockInv'
    BY <2>6, HeartbeatHolds
  <2> QED BY <2>1, <2>2, <2>3, <2>4, <2>5, <2>6 DEF StudyNext
<1>3. ClockInv => DayHoldsItsSeconds
  BY ClockHoldsDays
<1> QED BY <1>1, <1>2, <1>3, PTL DEF StudySpec

(***************************************************************************)
(* Listening practice.  A standing is the sum of the attempts at its       *)
(* sentence: it counts them, and its best score, its completion and its    *)
(* mark of assistance are backed by one of them.  That no attempt exceeds  *)
(* it holds as long as nobody wrote it from a standing read before another *)
(* attempt, which is what `stale` tells.  No two rows share a place, and   *)
(* those of the document saved last lie in its order.                      *)
(***************************************************************************)
\* The keys of a student's attempts on a sentence.
KeysOn(rows, mode, s) ==
    {k \in Keys : rows[<<mode, k>>] # None /\ rows[<<mode, k>>].s = s}

\* What a standing claims, some attempt of these keys did.
Backed(p, rows, mode, K) ==
    /\ p.done => \E k \in K : rows[<<mode, k>>].solved
    /\ p.assisted => \E k \in K : rows[<<mode, k>>].assisted
    /\ \E k \in K : rows[<<mode, k>>].score = p.best

\* What the attempts of these keys did, the standing claims.
Reached(p, rows, mode, K) ==
    \A k \in K : /\ rows[<<mode, k>>].solved => p.done
                 /\ rows[<<mode, k>>].assisted => p.assisted
                 /\ rows[<<mode, k>>].score <= p.best

StandingOf(p, rows, mode, K, raced) ==
    /\ IsFiniteSet(K)
    /\ (p = None) <=> (K = {})
    /\ p # None => /\ p.count = Cardinality(K)
                   /\ Backed(p, rows, mode, K)
                   /\ ~raced => Reached(p, rows, mode, K)

Standings ==
    \A mode \in Modes, s \in Sentences :
        /\ StandingOf(progress[<<mode, s>>], attempts, mode, KeysOn(attempts, mode, s),
                      <<mode, s>> \in stale)
        /\ progress[<<mode, s>>] # None => order[s] # None

\* A submission: from "read" on it holds its key and its sentence, and what it has
\* read stays true of them.
RequestInv(q, rows, at) ==
    /\ q.pc \in {"replay", "score", "read", "write"} =>
          q.mode \in Modes /\ q.key \in Keys /\ q.s \in Sentences
    /\ q.pc = "advise" => q.key \in Keys
    /\ q.pc \in {"read", "write"} => /\ at[q.s] # None /\ rows[<<q.mode, q.key>>] = None
                                     /\ q.verdict \in VerdictType /\ q.verdict.s = q.s
    /\ q.pc = "write" =>
          /\ q.previous \in StandingType \cup {None}
          /\ q.previous # None => Backed(q.previous, rows, q.mode, KeysOn(rows, q.mode, q.s))

ListenTyped ==
    /\ order \in [Sentences -> Nat \cup {None}] /\ made \in Nat
    /\ attempts \in [Modes \X Keys -> VerdictType \cup {None}]
    /\ progress \in [Modes \X Sentences -> StandingType \cup {None}]
    /\ request = [r \in Requests |-> request[r]] /\ save = [e \in Editors |-> save[e]]
    /\ saved \in Seq(Sentences) /\ kept \in Seq(Sentences \cup {New}) /\ Len(kept) = Len(saved)
    /\ \A e \in Editors :
          save[e].pc = "write" => save[e].doc \in Documents /\ save[e].seen \subseteq Sentences

KeysHeld ==
    \A r, x \in Requests :
        r # x /\ Open(r) /\ Open(x) /\ request[r].mode = request[x].mode =>
            request[r].key # request[x].key

ListenInv == /\ ListenTyped /\ Standings /\ KeysHeld /\ DocumentAsSaved
             /\ \A r \in Requests : RequestInv(request[r], attempts, order)

\* What the invariant speaks of.
heard == <<order, made, attempts, progress, request, save, saved, kept, stale>>

LEMMA NothingHeard == ASSUME ListenInv, UNCHANGED heard PROVE ListenInv'
<1> USE DEF heard
<1>1. ListenTyped'
  BY DEF ListenInv, ListenTyped
<1>2. Standings'
  BY DEF ListenInv, Standings
<1>3. KeysHeld'
  BY DEF ListenInv, KeysHeld, Open
<1>4. DocumentAsSaved'
  BY DEF ListenInv, DocumentAsSaved, Alive, Positions, LastOf
<1>5. \A r \in Requests : RequestInv(request[r], attempts, order)'
  BY DEF ListenInv
<1> QED BY <1>1, <1>2, <1>3, <1>4, <1>5 DEF ListenInv

LEMMA ListenInitInv == ListenInit => ListenInv
<1> SUFFICES ASSUME ListenInit PROVE ListenInv
  OBVIOUS
<1>1. 1 \in Sentences /\ 2 \in Sentences
  BY ListeningAssumption DEF Sentences
<1>2. ListenTyped
  <2>1. order \in [Sentences -> Nat \cup {None}] /\ made \in Nat
    BY DEF ListenInit, Sentences
  <2>2. saved \in Seq(Sentences) /\ kept \in Seq(Sentences \cup {New}) /\ Len(kept) = Len(saved)
    BY <1>1 DEF ListenInit
  <2> QED BY <2>1, <2>2 DEF ListenTyped, ListenInit
<1>3. Standings
  <2> SUFFICES ASSUME NEW mode \in Modes, NEW s \in Sentences
               PROVE  /\ KeysOn(attempts, mode, s) = {} /\ progress[<<mode, s>>] = None
    BY FS_EmptySet DEF Standings, StandingOf
  <2> QED BY DEF KeysOn, ListenInit
<1>4. KeysHeld /\ \A r \in Requests : RequestInv(request[r], attempts, order)
  BY DEF KeysHeld, Open, RequestInv, ListenInit
<1>5. DocumentAsSaved
  <2>1. Positions(saved) = {1, 2} /\ Len(saved) = 2
    BY DEF Positions, ListenInit
  <2>2. order[1] = 0 /\ order[2] = 1 /\ None \notin Nat
    BY <1>1, ListeningAssumption DEF ListenInit
  <2>3. \A s \in Alive : s \in {1, 2}
    BY DEF Alive, Sentences, ListenInit
  <2>4. saved[1] = 1 /\ saved[2] = 2 /\ kept[1] = 1 /\ kept[2] = 2
    BY Z3 DEF ListenInit
  <2>5. 1 \in Alive /\ 2 \in Alive
    BY <1>1, <2>2 DEF Alive
  <2>6. \A i \in Positions(saved) :
          /\ saved[i] \in Alive /\ (LastOf(saved, i) => order[saved[i]] = i - 1)
          /\ kept[i] # New => saved[i] = kept[i]
    BY <2>1, <2>2, <2>4, <2>5
  <2>7. \A s \in Alive : (~\E i \in Positions(saved) : saved[i] = s) => order[s] >= Len(saved)
    BY <2>1, <2>3, <2>4
  <2>8. \A s, t \in Alive : s # t => order[s] # order[t]
    BY <2>2, <2>3
  <2> QED BY <2>6, <2>7, <2>8 DEF DocumentAsSaved
<1> QED BY <1>2, <1>3, <1>4, <1>5 DEF ListenInv

\* A submission that moves on alone.
LEMMA RequestMoves ==
    ASSUME ListenInv, NEW r \in Requests, NEW q,
           RequestInv(q, attempts, order),
           q.pc \in {"read", "write"} =>
              \A x \in Requests \ {r} : Open(x) /\ request[x].mode = q.mode => request[x].key # q.key,
           Update(r, q), UNCHANGED <<attempts, progress, stale, Editing>>
    PROVE  ListenInv'
<1>1. UNCHANGED <<order, made, attempts, progress, save, saved, kept, stale>>
  BY DEF Editing
<1>2. /\ request' = [x \in Requests |-> request'[x]] /\ request'[r] = q
      /\ \A x \in Requests \ {r} : request'[x] = request[x]
  BY DEF Update, ListenInv, ListenTyped
<1>3. ListenTyped'
  BY <1>1, <1>2 DEF ListenInv, ListenTyped
<1>4. Standings'
  BY <1>1 DEF ListenInv, Standings
<1>5. DocumentAsSaved'
  BY <1>1 DEF ListenInv, DocumentAsSaved, Alive, Positions, LastOf
<1>6. KeysHeld'
  BY <1>2 DEF ListenInv, KeysHeld, Open
<1>7. \A x \in Requests : RequestInv(request[x], attempts, order)'
  BY <1>1, <1>2 DEF ListenInv
<1> QED BY <1>3, <1>4, <1>5, <1>6, <1>7 DEF ListenInv

LEMMA RefuseInv ==
    ASSUME ListenInv, NEW r \in Requests, Refuse(r), UNCHANGED <<attempts, progress, stale, Editing>>
    PROVE  ListenInv'
<1>1. RequestInv([pc |-> "failed"], attempts, order)
  BY DEF RequestInv
<1> QED BY <1>1, RequestMoves DEF Refuse

LEMMA SubmitInv ==
    ASSUME ListenInv, NEW r \in Requests, NEW mode \in Modes, NEW key \in Keys, NEW s \in Sentences,
           Submit(r, mode, key, s)
    PROVE  ListenInv'
<1> DEFINE q == [pc |-> "replay", mode |-> mode, key |-> key, s |-> s]
<1>1. CASE Refuse(r)
  BY <1>1, RefuseInv DEF Submit
<1>2. CASE Update(r, q)
  <2>1. RequestInv(q, attempts, order)
    BY DEF RequestInv
  <2> QED BY <1>2, <2>1, RequestMoves DEF Submit
<1> QED BY <1>1, <1>2 DEF Submit

LEMMA ReplayInv == ASSUME ListenInv, NEW r \in Requests, Replay(r) PROVE ListenInv'
<1> DEFINE q == request[r]
           old == attempts[<<q.mode, q.key>>]
           a == [pc |-> "answered", mode |-> q.mode, key |-> q.key, verdict |-> old]
           b == [q EXCEPT !.pc = "score"]
<1>0. q.pc = "replay" /\ RequestInv(q, attempts, order)
  BY DEF Replay, ListenInv
<1>1. CASE Update(r, a)
  <2>1. RequestInv(a, attempts, order)
    BY DEF RequestInv
  <2> QED BY <1>1, <2>1, RequestMoves DEF Replay
<1>2. CASE Update(r, b)
  <2>1. b.pc = "score" /\ b.mode = q.mode /\ b.key = q.key /\ b.s = q.s
    BY <1>0
  <2>2. RequestInv(b, attempts, order) /\ b.pc \notin {"read", "write"}
    BY <1>0, <2>1 DEF RequestInv
  <2> QED BY <1>2, <2>2, RequestMoves DEF Replay
<1> QED BY <1>1, <1>2 DEF Replay

LEMMA VerdictTyped ==
    ASSUME NEW mode \in Modes, NEW s \in Sentences, NEW score \in Scores, NEW helped \in BOOLEAN
    PROVE  [s |-> s, score |-> score, assisted |-> helped, solved |-> Solved(mode, score),
            feedback |-> None] \in VerdictType
<1>1. Solved(mode, score) \in BOOLEAN
  BY DEF Solved
<1> QED BY <1>1 DEF VerdictType

\* The key is free: it is not recorded, and no other transaction holds it.
LEMMA InsertAttemptInv ==
    ASSUME ListenInv, NEW r \in Requests, NEW score \in Scores, NEW helped \in BOOLEAN,
           InsertAttempt(r, score, helped)
    PROVE  ListenInv'
<1> DEFINE q == request[r]
           v == [s |-> q.s, score |-> score, assisted |-> helped,
                 solved |-> Solved(q.mode, score), feedback |-> None]
           b == [pc |-> "read", mode |-> q.mode, key |-> q.key, s |-> q.s, verdict |-> v]
<1>0. q.pc = "score" /\ RequestInv(q, attempts, order)
  BY DEF InsertAttempt, ListenInv
<1>1. q.mode \in Modes /\ q.key \in Keys /\ q.s \in Sentences
  BY <1>0 DEF RequestInv
<1>2. CASE Refuse(r)
  BY <1>2, RefuseInv DEF InsertAttempt
<1>3. CASE attempts[<<q.mode, q.key>>] = None /\ q.s \in Alive /\ Update(r, b)
  <2>1. v \in VerdictType /\ v.s = q.s
    BY <1>1, VerdictTyped
  <2>2. order[q.s] # None
    BY <1>3 DEF Alive
  <2> HIDE DEF v
  <2>3. RequestInv(b, attempts, order)
    BY <1>1, <1>3, <2>1, <2>2 DEF RequestInv
  <2>4. \A x \in Requests : Open(x) /\ request[x].mode = q.mode => request[x].key # q.key
    BY DEF InsertAttempt
  <2>5. b.pc = "read" /\ b.mode = q.mode /\ b.key = q.key
    OBVIOUS
  <2> HIDE DEF b
  <2>6. UNCHANGED <<attempts, progress, stale, Editing>>
    BY DEF InsertAttempt
  <2> QED BY <1>3, <2>3, <2>4, <2>5, <2>6, RequestMoves
<1> QED BY <1>2, <1>3 DEF InsertAttempt

LEMMA ReadProgressInv == ASSUME ListenInv, NEW r \in Requests, ReadProgress(r) PROVE ListenInv'
<1> DEFINE q == request[r]
           p == progress[<<q.mode, q.s>>]
           b == [pc |-> "write", mode |-> q.mode, key |-> q.key, s |-> q.s,
                 verdict |-> q.verdict, previous |-> p]
<1>1. /\ q.pc = "read" /\ RequestInv(q, attempts, order) /\ Update(r, b) /\ Open(r)
      /\ UNCHANGED <<attempts, progress, stale, Editing>>
  BY DEF ReadProgress, ListenInv, Open
<1>2. q.mode \in Modes /\ q.key \in Keys /\ q.s \in Sentences
  BY <1>1 DEF RequestInv
<1>3. p \in StandingType \cup {None}
  BY <1>2 DEF ListenInv, ListenTyped
<1>4. p # None => Backed(p, attempts, q.mode, KeysOn(attempts, q.mode, q.s))
  BY <1>2 DEF ListenInv, Standings, StandingOf
<1> HIDE DEF p
<1>5. RequestInv(b, attempts, order)
  BY <1>1, <1>2, <1>3, <1>4 DEF RequestInv
<1>6. \A x \in Requests \ {r} : Open(x) /\ request[x].mode = q.mode => request[x].key # q.key
  BY <1>1 DEF ListenInv, KeysHeld
<1>7. b.mode = q.mode /\ b.key = q.key
  OBVIOUS
<1> HIDE DEF b
<1> QED BY <1>1, <1>5, <1>6, <1>7, RequestMoves

LEMMA FeedbackInv ==
    ASSUME ListenInv, NEW r \in Requests, NEW key \in Keys, Feedback(r, key) PROVE ListenInv'
<1> DEFINE a == attempts[<<"SHADOWING", key>>]
           b == [pc |-> "advised", with |-> a.feedback]
           c == [pc |-> "advise", key |-> key]
<1>1. UNCHANGED <<attempts, progress, stale, Editing>> /\ (Update(r, b) \/ Update(r, c))
  BY DEF Feedback
<1>2. /\ RequestInv(b, attempts, order) /\ b.pc \notin {"read", "write"}
      /\ RequestInv(c, attempts, order) /\ c.pc \notin {"read", "write"}
  BY DEF RequestInv
<1> HIDE DEF b, c
<1> QED BY <1>1, <1>2, RequestMoves

\* Attempts that say of these keys what they said.
LEMMA AttemptsSame ==
    ASSUME NEW rows, NEW new, NEW mode, NEW s,
           \A k \in Keys : /\ (new[<<mode, k>>] = None) <=> (rows[<<mode, k>>] = None)
                           /\ new[<<mode, k>>].s = rows[<<mode, k>>].s
                           /\ new[<<mode, k>>].solved = rows[<<mode, k>>].solved
                           /\ new[<<mode, k>>].assisted = rows[<<mode, k>>].assisted
                           /\ new[<<mode, k>>].score = rows[<<mode, k>>].score
    PROVE  /\ KeysOn(new, mode, s) = KeysOn(rows, mode, s)
           /\ \A p : Backed(p, rows, mode, KeysOn(rows, mode, s)) =>
                        Backed(p, new, mode, KeysOn(rows, mode, s))
           /\ \A p : Reached(p, rows, mode, KeysOn(rows, mode, s)) =>
                        Reached(p, new, mode, KeysOn(rows, mode, s))
<1>1. KeysOn(new, mode, s) = KeysOn(rows, mode, s)
  BY DEF KeysOn
<1>2. KeysOn(rows, mode, s) \subseteq Keys
  BY DEF KeysOn
<1> QED BY <1>1, <1>2 DEF Backed, Reached

LEMMA AdviseInv == ASSUME ListenInv, NEW r \in Requests, Advise(r) PROVE ListenInv'
<1> DEFINE q  == request[r]
           at == <<"SHADOWING", q.key>>
           b  == [pc |-> "advised", with |-> r]
<1>0. q.pc = "advise" /\ RequestInv(q, attempts, order) /\ UNCHANGED <<progress, stale, Editing>>
  BY DEF Advise, ListenInv
<1>1. q.key \in Keys /\ at \in Modes \X Keys
  BY <1>0 DEF RequestInv, Modes
<1>2. CASE attempts[at] = None /\ Refuse(r) /\ UNCHANGED attempts
  BY <1>0, <1>2, RefuseInv
<1>3. CASE /\ attempts[at] # None /\ attempts' = [attempts EXCEPT ![at].feedback = r]
           /\ Update(r, b)
  <2>1. attempts \in [Modes \X Keys -> VerdictType \cup {None}] /\ attempts[at] \in VerdictType
    BY <1>1, <1>3 DEF ListenInv, ListenTyped
  <2>2. [attempts[at] EXCEPT !.feedback = r] \in VerdictType
    BY <2>1 DEF VerdictType
  <2>3. VerdictType # {} /\ None \notin VerdictType
    BY <2>1, ListeningAssumption
  <2>4. attempts' \in [Modes \X Keys -> VerdictType \cup {None}]
    BY <1>3, <2>1, <2>2
  <2>5. \A x \in Modes \X Keys : /\ (attempts'[x] = None) <=> (attempts[x] = None)
                                 /\ attempts'[x].s = attempts[x].s
                                 /\ attempts'[x].solved = attempts[x].solved
                                 /\ attempts'[x].assisted = attempts[x].assisted
                                 /\ attempts'[x].score = attempts[x].score
    <3> SUFFICES ASSUME NEW x \in Modes \X Keys
                 PROVE  /\ (attempts'[x] = None) <=> (attempts[x] = None)
                        /\ attempts'[x].s = attempts[x].s
                        /\ attempts'[x].solved = attempts[x].solved
                        /\ attempts'[x].assisted = attempts[x].assisted
                        /\ attempts'[x].score = attempts[x].score
      OBVIOUS
    <3>1. CASE x = at
      <4>1. attempts'[x] = [attempts[at] EXCEPT !.feedback = r]
        BY <1>1, <1>3, <2>1, <3>1
      <4> QED BY <2>1, <2>2, <2>3, <3>1, <4>1 DEF VerdictType
    <3>2. CASE x # at
      BY <1>3, <2>1, <3>2
    <3> QED BY <3>1, <3>2
  <2>6. UNCHANGED <<order, made, progress, stale, save, saved, kept>>
    BY <1>0 DEF Editing
  <2>7. /\ request' = [x \in Requests |-> request'[x]] /\ request'[r] = b /\ b.pc = "advised"
        /\ \A x \in Requests \ {r} : request'[x] = request[x]
    BY <1>3 DEF Update, ListenInv, ListenTyped
  <2> HIDE DEF b
  <2>8. ListenTyped'
    BY <2>4, <2>6, <2>7 DEF ListenInv, ListenTyped
  <2>9. Standings'
    <3> SUFFICES ASSUME NEW mode \in Modes, NEW s \in Sentences
                 PROVE  /\ StandingOf(progress[<<mode, s>>], attempts', mode,
                                      KeysOn(attempts', mode, s), <<mode, s>> \in stale)
                        /\ progress[<<mode, s>>] # None => order[s] # None
      BY <2>6 DEF Standings
    <3>1. /\ StandingOf(progress[<<mode, s>>], attempts, mode, KeysOn(attempts, mode, s),
                        <<mode, s>> \in stale)
          /\ progress[<<mode, s>>] # None => order[s] # None
      BY DEF ListenInv, Standings
    <3>2. \A k \in Keys : <<mode, k>> \in Modes \X Keys
      OBVIOUS
    <3> QED BY <2>5, <3>1, <3>2, AttemptsSame DEF StandingOf
  <2>10. DocumentAsSaved'
    BY <2>6 DEF ListenInv, DocumentAsSaved, Alive, Positions, LastOf
  <2>11. KeysHeld'
    BY <2>7 DEF ListenInv, KeysHeld, Open
  <2>12. \A x \in Requests : RequestInv(request[x], attempts, order)'
    <3> SUFFICES ASSUME NEW x \in Requests PROVE RequestInv(request'[x], attempts', order)
      BY <2>6
    <3>1. CASE x = r
      BY <2>7, <3>1 DEF RequestInv
    <3>2. CASE x # r
      <4>1. request'[x] = request[x] /\ RequestInv(request[x], attempts, order)
        BY <2>7, <3>2 DEF ListenInv
      <4>2. \A mode \in Modes, k \in Keys : <<mode, k>> \in Modes \X Keys
        OBVIOUS
      <4> QED BY <2>5, <4>1, <4>2, AttemptsSame DEF RequestInv
    <3> QED BY <3>1, <3>2
  <2> QED BY <2>8, <2>9, <2>10, <2>11, <2>12 DEF ListenInv
<1> QED BY <1>2, <1>3 DEF Advise

LEMMA ScoreOf == ASSUME NEW v \in VerdictType PROVE v.score \in Nat
<1>1. v.score \in Scores
  BY DEF VerdictType
<1>2. Scores \subseteq 0 .. 100
  BY ListeningAssumption
<1>3. v.score \in 0 .. 100
  BY <1>1, <1>2
<1> QED BY <1>3

\* What the upsert leaves: the old claims and those of the new attempt.
LEMMA CombinedHolds ==
    ASSUME NEW row \in StandingType \cup {None}, NEW previous \in StandingType \cup {None},
           NEW v \in VerdictType
    PROVE  LET c == Combined(row, previous, v)
           IN  /\ c \in StandingType
               /\ c.count = (IF row = None THEN 0 ELSE row.count) + 1
               /\ c.done <=> (previous # None /\ previous.done) \/ v.solved
               /\ c.assisted <=> (previous # None /\ previous.assisted) \/ v.assisted
               /\ c.best >= v.score /\ (previous # None => c.best >= previous.best)
               /\ c.best = v.score \/ (previous # None /\ c.best = previous.best)
<1> DEFINE p == IF previous = None THEN [done |-> FALSE, best |-> 0, assisted |-> FALSE] ELSE previous
           done == p.done \/ v.solved
           best == IF p.best > v.score THEN p.best ELSE v.score
           assisted == p.assisted \/ v.assisted
           count == (IF row = None THEN 0 ELSE row.count) + 1
<1>1. Combined(row, previous, v) =
         [done |-> done, best |-> best, assisted |-> assisted, count |-> count]
  BY DEF Combined
<1>2. v.score \in Nat /\ v.solved \in BOOLEAN /\ v.assisted \in BOOLEAN
  BY ScoreOf DEF VerdictType
<1>3. /\ p.best \in Nat /\ p.done \in BOOLEAN /\ p.assisted \in BOOLEAN
      /\ previous # None => p = previous
      /\ previous = None => p.done = FALSE /\ p.assisted = FALSE /\ p.best = 0
  BY DEF StandingType
<1>4. count \in Nat
  BY DEF StandingType
<1> HIDE DEF p
<1>5. /\ done \in BOOLEAN /\ assisted \in BOOLEAN /\ best \in Nat /\ best >= v.score /\ best >= p.best
      /\ best = v.score \/ best = p.best
  BY <1>2, <1>3
<1>6. best = v.score \/ (previous # None /\ best = p.best)
  BY <1>2, <1>3
<1>7. (done <=> p.done \/ v.solved) /\ (assisted <=> p.assisted \/ v.assisted)
  OBVIOUS
<1> HIDE DEF done, best, assisted
<1>8. [done |-> done, best |-> best, assisted |-> assisted, count |-> count] \in StandingType
  <2> HIDE DEF count
  <2> QED BY <1>4, <1>5 DEF StandingType
<1> QED BY <1>1, <1>2, <1>3, <1>5, <1>6, <1>7, <1>8

LEMMA AbortInv == ASSUME ListenInv, NEW r \in Requests, Abort(r) PROVE ListenInv'
BY RefuseInv DEF Abort

\* The attempt and the upsert, together: the count is of the row that is there, the
\* rest of the row that was read.
LEMMA WriteInv == ASSUME ListenInv, NEW r \in Requests, Write(r) PROVE ListenInv'
<1> DEFINE q  == request[r]
           v  == q.verdict
           m  == q.mode
           at == <<q.mode, q.s>>
           c  == Combined(progress[at], q.previous, v)
           b  == [pc |-> "answered", mode |-> q.mode, key |-> q.key, verdict |-> q.verdict]
<1>0. /\ q.pc = "write" /\ RequestInv(q, attempts, order) /\ Open(r)
      /\ attempts' = [attempts EXCEPT ![<<m, q.key>>] = v]
      /\ progress' = [progress EXCEPT ![at] = c]
      /\ stale' = IF progress[at] = q.previous THEN stale ELSE stale \cup {at}
      /\ Update(r, b) /\ UNCHANGED Editing
  BY DEF Write, ListenInv, Open
<1>1. /\ m \in Modes /\ q.key \in Keys /\ q.s \in Sentences /\ v \in VerdictType /\ v.s = q.s
      /\ order[q.s] # None /\ attempts[<<m, q.key>>] = None
      /\ q.previous \in StandingType \cup {None}
      /\ q.previous # None => Backed(q.previous, attempts, m, KeysOn(attempts, m, q.s))
  BY <1>0 DEF RequestInv
<1>2. /\ attempts \in [Modes \X Keys -> VerdictType \cup {None}]
      /\ progress \in [Modes \X Sentences -> StandingType \cup {None}]
      /\ None \notin VerdictType /\ None \notin StandingType
  BY ListeningAssumption DEF ListenInv, ListenTyped
<1>3. progress[at] \in StandingType \cup {None}
  BY <1>1, <1>2
<1>4. /\ c \in StandingType
      /\ c.count = (IF progress[at] = None THEN 0 ELSE progress[at].count) + 1
      /\ c.done <=> (q.previous # None /\ q.previous.done) \/ v.solved
      /\ c.assisted <=> (q.previous # None /\ q.previous.assisted) \/ v.assisted
      /\ c.best >= v.score /\ (q.previous # None => c.best >= q.previous.best)
      /\ c.best = v.score \/ (q.previous # None /\ c.best = q.previous.best)
  <2> DEFINE row == progress[at]  previous == q.previous
  <2>1. row \in StandingType \cup {None} /\ previous \in StandingType \cup {None} /\ v \in VerdictType
    BY <1>1, <1>3
  <2> HIDE DEF row, previous, v
  <2>2. LET d == Combined(row, previous, v)
        IN  /\ d \in StandingType
            /\ d.count = (IF row = None THEN 0 ELSE row.count) + 1
            /\ d.done <=> (previous # None /\ previous.done) \/ v.solved
            /\ d.assisted <=> (previous # None /\ previous.assisted) \/ v.assisted
            /\ d.best >= v.score /\ (previous # None => d.best >= previous.best)
            /\ d.best = v.score \/ (previous # None /\ d.best = previous.best)
    BY <2>1, CombinedHolds
  <2> QED BY <2>2 DEF row, previous
<1>5. UNCHANGED <<order, made, save, saved, kept>>
  BY <1>0 DEF Editing
<1>6. /\ request' = [x \in Requests |-> request'[x]] /\ request'[r] = b /\ b.pc = "answered"
      /\ \A x \in Requests \ {r} : request'[x] = request[x]
  BY <1>0 DEF Update, ListenInv, ListenTyped
<1> HIDE DEF c, b
<1>7. ListenTyped'
  <2>1. attempts' \in [Modes \X Keys -> VerdictType \cup {None}]
    BY <1>0, <1>1, <1>2
  <2>2. progress' \in [Modes \X Sentences -> StandingType \cup {None}]
    BY <1>0, <1>1, <1>2, <1>4
  <2> QED BY <1>5, <1>6, <2>1, <2>2 DEF ListenInv, ListenTyped
<1>8. /\ attempts'[<<m, q.key>>] = v
      /\ \A mode \in Modes, k \in Keys : <<mode, k>> # <<m, q.key>> => attempts'[<<mode, k>>] = attempts[<<mode, k>>]
      /\ progress'[at] = c
      /\ \A mode \in Modes, s \in Sentences : <<mode, s>> # at => progress'[<<mode, s>>] = progress[<<mode, s>>]
  BY <1>0, <1>1, <1>2
<1>9. /\ KeysOn(attempts', m, q.s) = KeysOn(attempts, m, q.s) \cup {q.key}
      /\ q.key \notin KeysOn(attempts, m, q.s)
  BY <1>1, <1>2, <1>8 DEF KeysOn
<1>10. \A mode \in Modes, s \in Sentences : <<mode, s>> # at =>
          /\ KeysOn(attempts', mode, s) = KeysOn(attempts, mode, s)
          /\ \A k \in KeysOn(attempts, mode, s) : attempts'[<<mode, k>>] = attempts[<<mode, k>>]
  <2> TAKE mode \in Modes, s \in Sentences
  <2> HAVE <<mode, s>> # at
  <2>1. \A k \in Keys : k # q.key \/ mode # m => attempts'[<<mode, k>>] = attempts[<<mode, k>>]
    BY <1>8
  <2>2. mode = m => s # q.s
    OBVIOUS
  <2>3. mode = m => q.key \notin KeysOn(attempts, mode, s) /\ q.key \notin KeysOn(attempts', mode, s)
    BY <1>1, <1>2, <1>8, <2>2 DEF KeysOn
  <2>4. \A k \in Keys : k # q.key \/ mode # m =>
           (k \in KeysOn(attempts', mode, s) <=> k \in KeysOn(attempts, mode, s))
    BY <2>1 DEF KeysOn
  <2>5. KeysOn(attempts', mode, s) \subseteq Keys /\ KeysOn(attempts, mode, s) \subseteq Keys
    BY DEF KeysOn
  <2> QED BY <2>1, <2>3, <2>4, <2>5
<1>11. \A k \in KeysOn(attempts, m, q.s) : attempts'[<<m, k>>] = attempts[<<m, k>>]
  BY <1>8, <1>9, <1>1 DEF KeysOn
<1>12. Standings'
  <2> SUFFICES ASSUME NEW mode \in Modes, NEW s \in Sentences
               PROVE  /\ StandingOf(progress'[<<mode, s>>], attempts', mode,
                                    KeysOn(attempts', mode, s), <<mode, s>> \in stale')
                      /\ progress'[<<mode, s>>] # None => order[s] # None
    BY <1>5 DEF Standings
  <2>1. /\ StandingOf(progress[<<mode, s>>], attempts, mode, KeysOn(attempts, mode, s),
                      <<mode, s>> \in stale)
        /\ progress[<<mode, s>>] # None => order[s] # None
    BY DEF ListenInv, Standings
  <2>2. CASE <<mode, s>> # at
    <3>1. <<mode, s>> \in stale' <=> <<mode, s>> \in stale
      BY <1>0, <2>2
    <3> DEFINE K == KeysOn(attempts, mode, s)
               p == progress[<<mode, s>>]
    <3>2. KeysOn(attempts', mode, s) = K /\ \A k \in K : attempts'[<<mode, k>>] = attempts[<<mode, k>>]
      BY <1>10, <2>2
    <3>3. progress'[<<mode, s>>] = p
      BY <1>8, <2>2
    <3> HIDE DEF K, p
    <3>4. StandingOf(p, attempts, mode, K, <<mode, s>> \in stale)
      BY <2>1 DEF K, p
    <3>5. StandingOf(p, attempts', mode, K, <<mode, s>> \in stale')
      BY <3>1, <3>2, <3>4 DEF StandingOf, Backed, Reached
    <3> QED BY <2>1, <3>2, <3>3, <3>5 DEF p
  <2>3. CASE <<mode, s>> = at
    <3> DEFINE K == KeysOn(attempts, m, q.s)
               L == K \cup {q.key}
               p == progress[at]
    <3>1. StandingOf(p, attempts, m, K, at \in stale) /\ mode = m /\ s = q.s
      BY <2>1, <2>3
    <3>2. KeysOn(attempts', m, q.s) = L /\ q.key \notin K /\ (\A k \in K : attempts'[<<m, k>>] = attempts[<<m, k>>])
      BY <1>9, <1>11
    <3>3. q.previous # None => Backed(q.previous, attempts, m, K)
      BY <1>1
    <3>4. (at \notin stale' => at \notin stale /\ q.previous = p) /\ (at \in stale => at \in stale')
      BY <1>0
    <3> HIDE DEF K, p
    <3>5. IsFiniteSet(L) /\ Cardinality(L) = Cardinality(K) + 1 /\ (K = {} => Cardinality(K) = 0)
      BY <3>1, <3>2, FS_AddElement, FS_EmptySet DEF StandingOf
    <3>6. c.count = Cardinality(L)
      BY <1>4, <3>1, <3>5 DEF StandingOf, p
    <3>7. c # None /\ L # {}
      BY <1>2, <1>4
    <3>8. attempts'[<<m, q.key>>] = v
      BY <1>8
    <3> HIDE DEF v
    <3>9. Backed(c, attempts', m, L)
      <4>1. c.done => \E k \in L : attempts'[<<m, k>>].solved
        BY <1>4, <3>2, <3>3, <3>8 DEF Backed
      <4>2. c.assisted => \E k \in L : attempts'[<<m, k>>].assisted
        BY <1>4, <3>2, <3>3, <3>8 DEF Backed
      <4>3. \E k \in L : attempts'[<<m, k>>].score = c.best
        BY <1>4, <3>2, <3>3, <3>8 DEF Backed
      <4> QED BY <4>1, <4>2, <4>3 DEF Backed
    <3>10. ASSUME at \notin stale' PROVE Reached(c, attempts', m, L)
      <4>1. q.previous = p /\ (p # None => Reached(p, attempts, m, K)) /\ (p = None => K = {})
        BY <3>1, <3>4, <3>10 DEF StandingOf
      <4> SUFFICES ASSUME NEW k \in L
                   PROVE  /\ attempts'[<<m, k>>].solved => c.done
                          /\ attempts'[<<m, k>>].assisted => c.assisted
                          /\ attempts'[<<m, k>>].score <= c.best
        BY DEF Reached
      <4>2. CASE k = q.key
        BY <1>4, <3>8, <4>2
      <4>3. CASE k \in K
        <5>1. p # None /\ p = q.previous /\ attempts'[<<m, k>>] = attempts[<<m, k>>]
          BY <3>2, <4>1, <4>3
        <5>2. /\ attempts[<<m, k>>].solved => p.done
              /\ attempts[<<m, k>>].assisted => p.assisted
              /\ attempts[<<m, k>>].score <= p.best
          BY <4>1, <4>3, <5>1 DEF Reached
        <5>3. k \in Keys /\ attempts[<<m, k>>] # None
          BY <4>3 DEF K, KeysOn
        <5>4. attempts[<<m, k>>].score \in Nat
          BY <1>1, <1>2, <5>3, ScoreOf
        <5>5. p.best \in Nat /\ c.best \in Nat
          BY <1>1, <1>4, <5>1 DEF StandingType
        <5> QED BY <1>4, <5>1, <5>2, <5>4, <5>5
      <4> QED BY <4>2, <4>3
    <3>11. StandingOf(c, attempts', m, L, at \in stale')
      BY <3>5, <3>6, <3>7, <3>9, <3>10 DEF StandingOf
    <3>12. progress'[<<mode, s>>] = c /\ order[s] # None
      BY <1>1, <1>8, <3>1
    <3> QED BY <2>3, <3>1, <3>2, <3>11, <3>12
  <2> QED BY <2>2, <2>3
<1>13. DocumentAsSaved'
  BY <1>5 DEF ListenInv, DocumentAsSaved, Alive, Positions, LastOf
<1>14. KeysHeld'
  BY <1>6 DEF ListenInv, KeysHeld, Open
<1>15. \A x \in Requests : RequestInv(request[x], attempts, order)'
  <2> SUFFICES ASSUME NEW x \in Requests PROVE RequestInv(request'[x], attempts', order)
    BY <1>5
  <2>1. CASE x = r
    BY <1>6, <2>1 DEF RequestInv
  <2>2. CASE x # r
    <3> DEFINE u == request[x]
    <3>1. request'[x] = u /\ RequestInv(u, attempts, order)
      BY <1>6, <2>2 DEF ListenInv
    <3>2. u.pc \in {"read", "write"} => u.mode # m \/ u.key # q.key
      BY <1>0, <2>2 DEF ListenInv, KeysHeld, Open
    <3>3. u.pc \in {"read", "write"} => attempts'[<<u.mode, u.key>>] = None
      BY <1>8, <3>1, <3>2 DEF RequestInv
    <3>4. u.pc = "write" /\ u.previous # None =>
             Backed(u.previous, attempts', u.mode, KeysOn(attempts', u.mode, u.s))
      <4> SUFFICES ASSUME u.pc = "write", u.previous # None
                   PROVE  Backed(u.previous, attempts', u.mode, KeysOn(attempts', u.mode, u.s))
        OBVIOUS
      <4>1. u.mode \in Modes /\ u.s \in Sentences
            /\ Backed(u.previous, attempts, u.mode, KeysOn(attempts, u.mode, u.s))
        BY <3>1 DEF RequestInv
      <4>2. /\ KeysOn(attempts, u.mode, u.s) \subseteq KeysOn(attempts', u.mode, u.s)
            /\ \A k \in KeysOn(attempts, u.mode, u.s) :
                  attempts'[<<u.mode, k>>] = attempts[<<u.mode, k>>]
        BY <1>9, <1>10, <1>11, <4>1
      <4> QED BY <4>1, <4>2 DEF Backed
    <3> HIDE DEF u
    <3> QED BY <3>1, <3>3, <3>4 DEF RequestInv
  <2> QED BY <2>1, <2>2
<1> QED BY <1>7, <1>12, <1>13, <1>14, <1>15 DEF ListenInv

\* Publishing, the category and the modes touch nothing the invariant speaks of.
LEMMA ShelfInv ==
    ASSUME ListenInv,
           PublishCheck(TRUE) \/ PublishWrite \/ Unpublish \/ SetCategory
               \/ \E modes \in SUBSET Modes : UpdateModes(modes)
    PROVE  ListenInv'
<1>1. UNCHANGED heard
  BY DEF PublishCheck, PublishWrite, Unpublish, SetCategory, UpdateModes, Practice, heard
<1> QED BY <1>1, NothingHeard

\* A save that does not write.
LEMMA SaveMoves ==
    ASSUME ListenInv, NEW e \in Editors, NEW f, SetSave(e, f),
           f.pc = "write" => f.doc \in Documents /\ f.seen \subseteq Sentences,
           UNCHANGED <<order, made, attempts, progress, request, saved, kept, stale>>
    PROVE  ListenInv'
<1>1. /\ save' = [x \in Editors |-> save'[x]] /\ save'[e] = f
      /\ \A x \in Editors \ {e} : save'[x] = save[x]
  BY DEF SetSave, ListenInv, ListenTyped
<1>2. ListenTyped'
  BY <1>1 DEF ListenInv, ListenTyped
<1>3. Standings'
  BY DEF ListenInv, Standings
<1>4. KeysHeld'
  BY DEF ListenInv, KeysHeld, Open
<1>5. DocumentAsSaved'
  BY DEF ListenInv, DocumentAsSaved, Alive, Positions, LastOf
<1>6. \A r \in Requests : RequestInv(request[r], attempts, order)'
  BY DEF ListenInv
<1> QED BY <1>2, <1>3, <1>4, <1>5, <1>6 DEF ListenInv

LEMMA SaveReadInv ==
    ASSUME ListenInv, NEW e \in Editors, NEW doc \in Documents, NEW fits \in BOOLEAN,
           SaveRead(e, doc, fits)
    PROVE  ListenInv'
<1> DEFINE f == IF content # None /\ fits THEN [pc |-> "write", doc |-> doc, seen |-> Alive]
                ELSE [pc |-> "failed"]
<1>1. f.pc = "write" => f.doc \in Documents /\ f.seen \subseteq Sentences
  BY DEF Alive
<1>2. SetSave(e, f)
  BY DEF SaveRead
<1>3. UNCHANGED <<order, made, attempts, progress, request, saved, kept, stale>>
  BY DEF SaveRead, Practice
<1> HIDE DEF f
<1> QED BY <1>1, <1>2, <1>3, SaveMoves

LEMMA RemoveInv == ASSUME ListenInv, Remove PROVE ListenInv'
<1>1. /\ ~OpenOn(Sentences) /\ \A x \in DOMAIN attempts : attempts[x] = None
      /\ order' = [s \in Sentences |-> None] /\ saved' = <<>> /\ kept' = <<>>
      /\ UNCHANGED <<made, attempts, progress, request, save, stale>>
  BY DEF Remove, Practice
<1>2. ListenTyped'
  <2>1. saved' \in Seq(Sentences) /\ kept' \in Seq(Sentences \cup {New}) /\ Len(kept') = Len(saved')
    BY <1>1
  <2>2. order' \in [Sentences -> Nat \cup {None}]
    BY <1>1
  <2>3. /\ attempts' \in [Modes \X Keys -> VerdictType \cup {None}]
        /\ progress' \in [Modes \X Sentences -> StandingType \cup {None}] /\ made' \in Nat
        /\ request' = [r \in Requests |-> request'[r]] /\ save' = [e \in Editors |-> save'[e]]
        /\ \A e \in Editors :
              save'[e].pc = "write" => save'[e].doc \in Documents /\ save'[e].seen \subseteq Sentences
    BY <1>1 DEF ListenInv, ListenTyped
  <2> QED BY <2>1, <2>2, <2>3 DEF ListenTyped
<1>3. \A mode \in Modes, s \in Sentences : progress[<<mode, s>>] = None
  <2> SUFFICES ASSUME NEW mode \in Modes, NEW s \in Sentences PROVE progress[<<mode, s>>] = None
    OBVIOUS
  <2>1. \A k \in Keys : attempts[<<mode, k>>] = None
    BY <1>1 DEF ListenInv, ListenTyped
  <2>2. KeysOn(attempts, mode, s) = {}
    BY <2>1 DEF KeysOn
  <2> QED BY <2>2 DEF ListenInv, Standings, StandingOf
<1>4. Standings'
  BY <1>1, <1>3 DEF ListenInv, Standings
<1>5. KeysHeld'
  BY <1>1 DEF ListenInv, KeysHeld, Open
<1>6. \A r \in Requests : RequestInv(request[r], attempts, order)'
  <2> SUFFICES ASSUME NEW r \in Requests PROVE RequestInv(request[r], attempts, order')
    BY <1>1
  <2>1. RequestInv(request[r], attempts, order)
    BY DEF ListenInv
  <2>2. request[r].pc \notin {"read", "write"}
    BY <1>1, <2>1 DEF OpenOn, Open, RequestInv
  <2> QED BY <2>1, <2>2 DEF RequestInv
<1>7. DocumentAsSaved'
  <2>1. Alive' = {} /\ Positions(saved') = {}
    BY <1>1 DEF Alive, Positions
  <2> QED BY <2>1 DEF DocumentAsSaved
<1> QED BY <1>2, <1>4, <1>5, <1>6, <1>7 DEF ListenInv
-----------------------------------------------------------------------------
\* The greatest of some positions.
LEMMA LastPosition ==
    ASSUME NEW n \in Nat, NEW T \in SUBSET (1 .. n), T # {}
    PROVE  \E m \in T : \A j \in T : j <= m
<1> DEFINE U == {n - j : j \in T}
<1>1. U \subseteq Nat /\ U # {}
  <2>1. \A j \in T : n - j \in Nat
    OBVIOUS
  <2>2. PICK j \in T : TRUE
    OBVIOUS
  <2>3. n - j \in U
    OBVIOUS
  <2> QED BY <2>1, <2>3
<1> HIDE DEF U
<1>2. \E x \in U : \A y \in U : <<y, x>> \notin OpToRel(<, Nat)
  BY <1>1, NatLessThanWellFounded, WFMin
<1>3. PICK x \in U : \A y \in U : ~(y < x)
  BY <1>1, <1>2 DEF OpToRel
<1>4. PICK m \in T : x = n - m
  BY DEF U
<1>5. ASSUME NEW j \in T PROVE j <= m
  <2>1. n - j \in U
    BY DEF U
  <2> QED BY <1>3, <1>4, <2>1
<1> QED BY <1>5

\* The rows of a document are ids, those it keeps and, for the others, the next ones.
LEMMA RowsTyped ==
    ASSUME made \in Nat, NEW doc \in Seq(Sentences \cup {New}), NEW seen \in SUBSET Sentences,
           made + Len(doc) <= MaxSentence
    PROVE  /\ RowsOf(doc, seen) \in Seq(Sentences) /\ Len(RowsOf(doc, seen)) = Len(doc)
           /\ \A i \in Positions(doc) : doc[i] \in seen => RowsOf(doc, seen)[i] = doc[i]
<1> DEFINE n == Len(doc)
           fresh(i) == Cardinality({j \in 1 .. i : doc[j] \notin seen})
           row(i) == IF doc[i] \in seen THEN doc[i] ELSE made + fresh(i)
           rows == [i \in 1 .. n |-> row(i)]
<1>1. RowsOf(doc, seen) = rows /\ n \in Nat
  BY DEF RowsOf, Positions
<1>2. ASSUME NEW i \in 1 .. n, doc[i] \notin seen PROVE made + fresh(i) \in Sentences
  <2> DEFINE J == {j \in 1 .. i : doc[j] \notin seen}
  <2>1. i \in Nat /\ J \subseteq 1 .. i /\ i \in J
    BY <1>1, <1>2
  <2>2. IsFiniteSet(1 .. i) /\ Cardinality(1 .. i) = i
    BY <2>1, FS_Interval, Z3
  <2>3. IsFiniteSet(J) /\ Cardinality(J) <= i
    BY <2>1, <2>2, FS_Subset
  <2>4. Cardinality(J) \in Nat /\ Cardinality(J) # 0
    BY <2>1, <2>3, FS_CardinalityType, FS_EmptySet
  <2>5. fresh(i) = Cardinality(J)
    OBVIOUS
  <2> HIDE DEF J, fresh
  <2> QED BY <1>1, <2>1, <2>3, <2>4, <2>5, ListeningAssumption DEF Sentences
<1>3. \A i \in 1 .. n : row(i) \in Sentences
  BY <1>2
<1> HIDE DEF row
<1>4. rows \in Seq(Sentences) /\ Len(rows) = n
  BY <1>1, <1>3
<1>5. \A i \in 1 .. n : doc[i] \in seen => rows[i] = doc[i]
  BY DEF row
<1> QED BY <1>1, <1>4, <1>5 DEF Positions

\* The last entry about each row of a document is the one that LastOf names.
LEMMA LastEntry ==
    ASSUME NEW rows \in Seq(Sentences), NEW s, \E i \in Positions(rows) : rows[i] = s
    PROVE  \E i \in Positions(rows) : rows[i] = s /\ LastOf(rows, i)
<1> DEFINE T == {i \in Positions(rows) : rows[i] = s}
<1>1. Len(rows) \in Nat /\ T \subseteq 1 .. Len(rows) /\ T # {}
  BY DEF Positions
<1>2. PICK m \in T : \A j \in T : j <= m
  BY <1>1, LastPosition
<1>3. ASSUME NEW j \in Positions(rows), j > m, rows[j] = rows[m] PROVE FALSE
  <2>1. j \in T /\ j \in Nat /\ m \in Nat
    BY <1>1, <1>3
  <2> QED BY <1>2, <1>3, <2>1
<1> QED BY <1>3 DEF LastOf

\* Rows of the document, before it, and those of other saves, parked behind it or
\* left where they are, on one line.
OnOneLine(n, named, there, parked, old, places, last) ==
    /\ n \in Nat /\ n < REORDER_OFFSET
    /\ named \subseteq Sentences /\ there \subseteq Sentences /\ parked \subseteq there
    /\ \A s \in there : old[s] \in Nat
    /\ \A s, t \in there : s # t => old[s] # old[t]
    /\ \A a \in parked, b \in there \ parked : old[a] + REORDER_OFFSET # old[b]
    /\ \A s \in there \ (named \cup parked) : old[s] >= n
    /\ \A s \in named : last[s] \in 1 .. n /\ places[s] = last[s] - 1
    /\ \A s, t \in named : s # t => last[s] # last[t]
    /\ \A s \in parked \ named : places[s] = old[s] + REORDER_OFFSET
    /\ \A s \in there \ (named \cup parked) : places[s] = old[s]

LEMMA PlacesApart ==
    ASSUME NEW n, NEW named, NEW there, NEW parked, NEW old, NEW places, NEW last,
           OnOneLine(n, named, there, parked, old, places, last)
    PROVE  /\ \A s \in named : places[s] \in Nat /\ places[s] < n
           /\ \A s \in there \ named : places[s] \in Nat /\ places[s] >= n
           /\ \A s, t \in named \cup there : s # t => places[s] # places[t]
<1> USE DEF OnOneLine
<1>0. REORDER_OFFSET \in Nat
  BY DEF REORDER_OFFSET
<1>1. \A s \in named : places[s] \in Nat /\ places[s] < n
  OBVIOUS
<1>2. \A s \in there \ named : places[s] \in Nat /\ places[s] >= n
  <2> SUFFICES ASSUME NEW s \in there \ named PROVE places[s] \in Nat /\ places[s] >= n
    OBVIOUS
  <2>1. CASE s \in parked
    <3>1. places[s] = old[s] + REORDER_OFFSET /\ old[s] \in Nat
      BY <2>1
    <3> QED BY <1>0, <3>1
  <2>2. CASE s \notin parked
    <3>1. places[s] = old[s] /\ old[s] \in Nat /\ old[s] >= n
      BY <2>2
    <3> QED BY <3>1
  <2> QED BY <2>1, <2>2
<1>3. \A s, t \in named : s # t => places[s] # places[t]
  <2> SUFFICES ASSUME NEW s \in named, NEW t \in named, s # t PROVE places[s] # places[t]
    OBVIOUS
  <2>1. last[s] \in Nat /\ last[t] \in Nat /\ last[s] # last[t]
    OBVIOUS
  <2> QED BY <2>1
<1>4. \A s, t \in there \ named : s # t => places[s] # places[t]
  <2> SUFFICES ASSUME NEW s \in there \ named, NEW t \in there \ named, s # t
               PROVE  places[s] # places[t]
    OBVIOUS
  <2>1. old[s] \in Nat /\ old[t] \in Nat /\ old[s] # old[t]
    OBVIOUS
  <2>2. CASE s \in parked /\ t \in parked
    <3>1. places[s] = old[s] + REORDER_OFFSET /\ places[t] = old[t] + REORDER_OFFSET
      BY <2>2
    <3> QED BY <1>0, <2>1, <3>1
  <2>3. CASE s \notin parked /\ t \notin parked
    <3>1. places[s] = old[s] /\ places[t] = old[t]
      BY <2>3
    <3> QED BY <2>1, <3>1
  <2>4. CASE s \in parked /\ t \notin parked
    <3>1. places[s] = old[s] + REORDER_OFFSET /\ places[t] = old[t]
          /\ old[s] + REORDER_OFFSET # old[t]
      BY <2>4
    <3> QED BY <3>1
  <2>5. CASE s \notin parked /\ t \in parked
    <3>1. places[t] = old[t] + REORDER_OFFSET /\ places[s] = old[s]
          /\ old[t] + REORDER_OFFSET # old[s]
      BY <2>5
    <3> QED BY <3>1
  <2> QED BY <2>2, <2>3, <2>4, <2>5
<1>5. \A s \in named, t \in there \ named : places[s] # places[t]
  <2> SUFFICES ASSUME NEW s \in named, NEW t \in there \ named PROVE places[s] # places[t]
    OBVIOUS
  <2>1. places[s] \in Nat /\ places[s] < n /\ places[t] \in Nat /\ places[t] >= n
    BY <1>1, <1>2
  <2> QED BY <2>1
<1>6. ASSUME NEW s \in named \cup there, NEW t \in named \cup there, s # t
      PROVE  places[s] # places[t]
  <2>1. CASE s \in named /\ t \in named
    BY <1>3, <1>6, <2>1
  <2>2. CASE s \notin named /\ t \notin named
    BY <1>4, <1>6, <2>2
  <2>3. CASE s \in named /\ t \notin named
    BY <1>5, <1>6, <2>3
  <2>4. CASE s \notin named /\ t \in named
    BY <1>5, <1>6, <2>4
  <2> QED BY <2>1, <2>2, <2>3, <2>4
<1> QED BY <1>1, <1>2, <1>6

\* The positions that a document leaves: `where` of SaveWrite.
PlacesOf(positions, rows, named, there, parked) ==
    [s \in Sentences |->
        IF s \in named
        THEN (CHOOSE i \in positions : rows[i] = s /\ LastOf(rows, i)) - 1
        ELSE IF s \notin there THEN None
        ELSE IF s \in parked THEN order[s] + REORDER_OFFSET ELSE order[s]]

\* What a document that is written makes of the positions: `parked` are the rows that
\* were moved out of the way, `there` those that no longer need to be deleted.
Written(rows, named, there, parked, places) ==
    /\ rows \in Seq(Sentences) /\ Len(rows) <= MaxSentence
    /\ named = {s \in Sentences : \E i \in Positions(rows) : rows[i] = s}
    /\ there \subseteq Alive /\ parked \subseteq there
    /\ \A s, t \in Alive : s # t => order[s] # order[t]
    /\ \A a \in parked, b \in there \ parked : order[a] + REORDER_OFFSET # order[b]
    /\ \A s \in there \ (named \cup parked) : order[s] >= Len(rows)
    /\ places = PlacesOf(Positions(rows), rows, named, there, parked)

LEMMA PlacesWritten ==
    ASSUME ListenTyped, NEW rows, NEW named, NEW there, NEW parked, NEW places,
           Written(rows, named, there, parked, places)
    PROVE  /\ places \in [Sentences -> Nat \cup {None}]
           /\ \A s \in Sentences : places[s] # None <=> s \in named \cup there
           /\ \A i \in Positions(rows) : /\ places[rows[i]] # None
                                         /\ LastOf(rows, i) => places[rows[i]] = i - 1
           /\ \A s \in Sentences : places[s] # None /\ s \notin named => places[s] >= Len(rows)
           /\ \A s, t \in Sentences : places[s] # None /\ places[t] # None /\ s # t =>
                 places[s] # places[t]
<1> DEFINE n == Len(rows)
           last(s) == CHOOSE i \in Positions(rows) : rows[i] = s /\ LastOf(rows, i)
<1>0. /\ rows \in Seq(Sentences) /\ n <= MaxSentence
      /\ named = {s \in Sentences : \E i \in Positions(rows) : rows[i] = s}
      /\ there \subseteq Alive /\ parked \subseteq there
      /\ places = PlacesOf(Positions(rows), rows, named, there, parked)
  BY DEF Written
<1>1. n \in Nat /\ Positions(rows) = 1 .. n /\ None \notin Nat /\ n < REORDER_OFFSET
  BY <1>0, ListeningAssumption DEF Positions, REORDER_OFFSET
<1>2. /\ order \in [Sentences -> Nat \cup {None}] /\ there \subseteq Sentences
      /\ \A s \in there : order[s] \in Nat
  BY <1>0 DEF ListenTyped, Alive
<1>3. \A s \in named : last(s) \in 1 .. n /\ rows[last(s)] = s /\ LastOf(rows, last(s))
  <2> SUFFICES ASSUME NEW s \in named
               PROVE  last(s) \in 1 .. n /\ rows[last(s)] = s /\ LastOf(rows, last(s))
    OBVIOUS
  <2>1. \E i \in Positions(rows) : rows[i] = s /\ LastOf(rows, i)
    BY <1>0, LastEntry
  <2> QED BY <1>1, <2>1
<1>4. \A i \in 1 .. n : LastOf(rows, i) => last(rows[i]) = i
  <2> SUFFICES ASSUME NEW i \in 1 .. n, LastOf(rows, i) PROVE last(rows[i]) = i
    OBVIOUS
  <2>1. rows[i] \in named
    BY <1>0, <1>1
  <2>2. last(rows[i]) \in 1 .. n /\ rows[last(rows[i])] = rows[i] /\ LastOf(rows, last(rows[i]))
    BY <1>3, <2>1
  <2> HIDE DEF last
  <2> QED BY <1>1, <2>2 DEF LastOf
<1>5. \A s \in named : places[s] = last(s) - 1
  BY <1>0 DEF PlacesOf
<1>6. \A s \in there \ named : s \in parked => places[s] = order[s] + REORDER_OFFSET
  BY <1>0, <1>2 DEF PlacesOf
<1>7. \A s \in there \ named : s \notin parked => places[s] = order[s]
  BY <1>0, <1>2 DEF PlacesOf
<1>8. \A s \in Sentences \ (there \cup named) : places[s] = None
  BY <1>0 DEF PlacesOf
<1>9. DOMAIN places = Sentences /\ named \subseteq Sentences
  BY <1>0 DEF PlacesOf
<1>10. places = [s \in Sentences |-> places[s]]
  BY <1>0 DEF PlacesOf
<1> HIDE DEF last
<1>11. /\ \A s \in named : places[s] \in Nat /\ places[s] < n
       /\ \A s \in there \ named : places[s] \in Nat /\ places[s] >= n
       /\ \A s, t \in named \cup there : s # t => places[s] # places[t]
  <2> DEFINE at == [s \in named |-> last(s)]
  <2>1. \A s \in named : at[s] \in 1 .. n /\ places[s] = at[s] - 1 /\ rows[at[s]] = s
    BY <1>3, <1>5
  <2>2. \A s, t \in named : s # t => at[s] # at[t]
    <3> SUFFICES ASSUME NEW s \in named, NEW t \in named, at[s] = at[t] PROVE s = t
      OBVIOUS
    <3>1. rows[at[s]] = s /\ rows[at[t]] = t
      BY <2>1
    <3> QED BY <3>1
  <2>3. /\ \A s, t \in there : s # t => order[s] # order[t]
        /\ \A a \in parked, b \in there \ parked : order[a] + REORDER_OFFSET # order[b]
    BY <1>0 DEF Written
  <2>4. \A s \in parked \ named : places[s] = order[s] + REORDER_OFFSET
    BY <1>0, <1>6
  <2>5. \A s \in there \ (named \cup parked) : places[s] = order[s]
    BY <1>7
  <2>6. \A s \in there \ (named \cup parked) : order[s] >= n
    BY DEF Written
  <2> HIDE DEF at, n
  <2>7. n \in Nat /\ n < REORDER_OFFSET /\ parked \subseteq there
    BY <1>0, <1>1
  <2>8. OnOneLine(n, named, there, parked, order, places, at)
    BY <1>2, <1>9, <2>1, <2>2, <2>3, <2>4, <2>5, <2>6, <2>7 DEF OnOneLine
  <2>9. \A s \in named : places[s] \in Nat /\ places[s] < n
    BY <2>8, PlacesApart
  <2>10. \A s \in there \ named : places[s] \in Nat /\ places[s] >= n
    BY <2>8, PlacesApart
  <2>11. \A s, t \in named \cup there : s # t => places[s] # places[t]
    BY <2>8, PlacesApart
  <2> QED BY <2>9, <2>10, <2>11
<1>12. \A s \in Sentences : places[s] # None <=> s \in named \cup there
  <2> SUFFICES ASSUME NEW s \in Sentences PROVE places[s] # None <=> s \in named \cup there
    OBVIOUS
  <2>1. CASE s \in named
    BY <1>1, <1>11, <2>1
  <2>2. CASE s \in there \ named
    BY <1>1, <1>11, <2>2
  <2>3. CASE s \notin named \cup there
    BY <1>8, <2>3
  <2> QED BY <2>1, <2>2, <2>3
<1>13. \A s \in Sentences : places[s] \in Nat \cup {None}
  BY <1>8, <1>11
<1>15. \A i \in Positions(rows) : rows[i] \in named
  BY <1>0, <1>1
<1>16. \A i \in Positions(rows) : /\ places[rows[i]] # None
                                  /\ LastOf(rows, i) => places[rows[i]] = i - 1
  <2> SUFFICES ASSUME NEW i \in 1 .. n
               PROVE  places[rows[i]] # None /\ (LastOf(rows, i) => places[rows[i]] = i - 1)
    BY <1>1
  <2>1. rows[i] \in named
    BY <1>1, <1>15
  <2>2. places[rows[i]] \in Nat /\ places[rows[i]] = last(rows[i]) - 1
    BY <1>5, <1>11, <2>1
  <2> QED BY <1>1, <1>4, <2>2
<1>19. \A s, t \in Sentences : places[s] # None /\ places[t] # None /\ s # t =>
          places[s] # places[t]
  BY <1>11, <1>12
<1>20. \A s \in Sentences : places[s] # None /\ s \notin named => places[s] >= n
  BY <1>11, <1>12
<1>21. places \in [Sentences -> Nat \cup {None}]
  BY <1>10, <1>13
<1> QED BY <1>12, <1>16, <1>19, <1>20, <1>21

\* The attempts of the sentences that stay are untouched.
LEMMA AttemptsStay ==
    ASSUME NEW gone, NEW rows, NEW new, NEW mode \in Modes, NEW s, s \notin gone,
           \A x \in Modes \X Keys :
              new[x] = IF rows[x] # None /\ rows[x].s \in gone THEN None ELSE rows[x]
    PROVE  /\ KeysOn(new, mode, s) = KeysOn(rows, mode, s)
           /\ \A k \in KeysOn(rows, mode, s) : new[<<mode, k>>] = rows[<<mode, k>>]
<1>1. \A k \in Keys : new[<<mode, k>>] = IF rows[<<mode, k>>] # None /\ rows[<<mode, k>>].s \in gone
                                         THEN None ELSE rows[<<mode, k>>]
  OBVIOUS
<1>2. \A k \in Keys : k \in KeysOn(new, mode, s) <=> k \in KeysOn(rows, mode, s)
  BY <1>1 DEF KeysOn
<1>3. KeysOn(new, mode, s) \subseteq Keys /\ KeysOn(rows, mode, s) \subseteq Keys
  BY DEF KeysOn
<1>4. \A k \in KeysOn(rows, mode, s) : new[<<mode, k>>] = rows[<<mode, k>>]
  BY <1>1, <1>3 DEF KeysOn
<1> QED BY <1>2, <1>3, <1>4

LEMMA SaveWriteInv == ASSUME ListenInv, NEW e \in Editors, SaveWrite(e) PROVE ListenInv'
<1> DEFINE doc   == save[e].doc
           seen  == save[e].seen
           rows  == RowsOf(doc, seen)
           named == {s \in Sentences : \E i \in Positions(doc) : rows[i] = s}
           stays == seen \cap named
           gone  == seen \ named
           there == Alive \ gone
           parkedBy(last) == IF stays = {} THEN {} ELSE {s \in there : s \in seen \/ s <= last}
           keeps == [i \in Positions(doc) |-> IF doc[i] \in seen THEN doc[i] ELSE New]
<1>1. /\ save[e].pc = "write" /\ ~OpenOn(gone) /\ made + Len(doc) <= MaxSentence
      /\ UNCHANGED <<request, stale>>
  BY DEF SaveWrite
<1>2. /\ doc \in Seq(Sentences \cup {New}) /\ seen \in SUBSET Sentences /\ made \in Nat
      /\ ListenTyped /\ DocumentAsSaved
  BY <1>1, ListeningAssumption DEF ListenInv, ListenTyped
<1>3. /\ rows \in Seq(Sentences) /\ Len(rows) = Len(doc) /\ Positions(rows) = Positions(doc)
      /\ \A i \in Positions(doc) : doc[i] \in seen => rows[i] = doc[i]
  BY <1>1, <1>2, RowsTyped DEF Positions
<1>4. CASE /\ SetSave(e, [pc |-> "failed"])
           /\ UNCHANGED <<order, made, attempts, progress, saved, kept>>
  BY <1>1, <1>4, SaveMoves
<1>5. ASSUME NEW last,
             ~\E a \in parkedBy(last), b \in there \ parkedBy(last) : order[a] + REORDER_OFFSET = order[b],
             \A s \in there \ (named \cup parkedBy(last)) : order[s] >= Len(doc),
             order' = [s \in Sentences |->
                          IF s \in named
                          THEN (CHOOSE i \in Positions(doc) : rows[i] = s /\ LastOf(rows, i)) - 1
                          ELSE IF s \notin there THEN None
                          ELSE IF s \in parkedBy(last) THEN order[s] + REORDER_OFFSET ELSE order[s]],
             made' = made + Cardinality(named \ seen),
             attempts' = [x \in Modes \X Keys |->
                            IF attempts[x] # None /\ attempts[x].s \in gone THEN None ELSE attempts[x]],
             progress' = [x \in Modes \X Sentences |->
                            IF x[2] \in gone THEN None ELSE progress[x]],
             saved' = rows, kept' = keeps, SetSave(e, [pc |-> "saved"])
      PROVE  ListenInv'
  <2> DEFINE parked == parkedBy(last)
  <2>1. parked \subseteq there /\ there \subseteq Alive /\ Len(doc) \in Nat
    BY <1>2
  <2>2. order' = PlacesOf(Positions(rows), rows, named, there, parked)
    <3>1. order' = PlacesOf(Positions(doc), rows, named, there, parked)
      BY <1>5 DEF PlacesOf
    <3> HIDE DEF rows, named, there, parked, doc
    <3> QED BY <1>3, <3>1
  <2>3. named = {s \in Sentences : \E i \in Positions(rows) : rows[i] = s} /\ named \subseteq Sentences
    BY <1>3
  <2>4. \A a \in parked, b \in there \ parked : order[a] + REORDER_OFFSET # order[b]
    BY <1>5
  <2>5. \A s \in there \ (named \cup parked) : order[s] >= Len(rows)
    BY <1>3, <1>5
  <2>6. Len(rows) <= MaxSentence
    BY <1>1, <1>2, <1>3, <2>1, ListeningAssumption
  <2>7. \A s, t \in Alive : s # t => order[s] # order[t]
    BY <1>2 DEF DocumentAsSaved
  <2>8. \A i \in Positions(doc) : keeps[i] # New => rows[i] = keeps[i]
    BY <1>3
  <2>9. keeps \in Seq(Sentences \cup {New}) /\ Len(keeps) = Len(doc)
    BY <1>2, <2>1 DEF Positions
  <2>10. made' \in Nat
    <3>1. IsFiniteSet(Sentences)
      BY ListeningAssumption, FS_Interval DEF Sentences
    <3>2. IsFiniteSet(named \ seen)
      BY <2>3, <3>1, FS_Subset
    <3>3. Cardinality(named \ seen) \in Nat
      BY <3>2, FS_CardinalityType
    <3> HIDE DEF named, seen
    <3> QED BY <1>2, <1>5, <3>3
  <2> HIDE DEF parked
  <2> HIDE DEF named, there, rows, keeps, doc, seen
  <2>11. /\ order' \in [Sentences -> Nat \cup {None}]
         /\ \A s \in Sentences : order'[s] # None <=> s \in named \cup there
         /\ \A i \in Positions(rows) : /\ order'[rows[i]] # None
                                       /\ LastOf(rows, i) => order'[rows[i]] = i - 1
         /\ \A s \in Sentences : order'[s] # None /\ s \notin named => order'[s] >= Len(rows)
         /\ \A s, t \in Sentences : order'[s] # None /\ order'[t] # None /\ s # t =>
               order'[s] # order'[t]
    <3>1. Written(rows, named, there, parked, order')
      BY <1>3, <2>1, <2>2, <2>3, <2>4, <2>5, <2>6, <2>7 DEF Written
    <3> DEFINE places == order'
    <3>2. Written(rows, named, there, parked, places)
      BY <3>1
    <3> HIDE DEF places
    <3>3. /\ places \in [Sentences -> Nat \cup {None}]
          /\ \A s \in Sentences : places[s] # None <=> s \in named \cup there
          /\ \A i \in Positions(rows) : /\ places[rows[i]] # None
                                        /\ LastOf(rows, i) => places[rows[i]] = i - 1
          /\ \A s \in Sentences : places[s] # None /\ s \notin named => places[s] >= Len(rows)
          /\ \A s, t \in Sentences : places[s] # None /\ places[t] # None /\ s # t =>
                places[s] # places[t]
      BY <1>2, <3>2, PlacesWritten
    <3> QED BY <3>3 DEF places
  <2>12. DocumentAsSaved'
    <3>1. Alive' = {s \in Sentences : order'[s] # None}
      BY DEF Alive
    <3>2. \A i \in Positions(rows) : rows[i] \in Sentences
      BY <1>3 DEF Positions
    <3>3. \A i \in Positions(rows) :
            /\ rows[i] \in Alive' /\ (LastOf(rows, i) => order'[rows[i]] = i - 1)
            /\ keeps[i] # New => rows[i] = keeps[i]
      BY <1>3, <2>8, <2>11, <3>1, <3>2
    <3>4. \A s \in Alive' : (~\E i \in Positions(rows) : rows[i] = s) => order'[s] >= Len(rows)
      BY <2>3, <2>11, <3>1
    <3>5. \A s, t \in Alive' : s # t => order'[s] # order'[t]
      BY <2>11, <3>1
    <3>6. saved' = rows /\ kept' = keeps
      BY <1>5
    <3> QED BY <3>3, <3>4, <3>5, <3>6 DEF DocumentAsSaved
  <2>13. /\ save' = [x \in Editors |-> save'[x]] /\ save'[e] = [pc |-> "saved"]
         /\ \A x \in Editors \ {e} : save'[x] = save[x]
    BY <1>2, <1>5 DEF SetSave, ListenTyped
  <2>14. attempts' \in [Modes \X Keys -> VerdictType \cup {None}]
    BY <1>2, <1>5 DEF ListenTyped
  <2>15. progress' \in [Modes \X Sentences -> StandingType \cup {None}]
    BY <1>2, <1>5 DEF ListenTyped
  <2>16. ListenTyped'
    <3>1. /\ saved' \in Seq(Sentences) /\ kept' \in Seq(Sentences \cup {New}) /\ Len(kept') = Len(saved')
          /\ request' = [r \in Requests |-> request'[r]]
      BY <1>1, <1>2, <1>3, <1>5, <2>9 DEF ListenTyped
    <3>2. \A x \in Editors :
             save'[x].pc = "write" => save'[x].doc \in Documents /\ save'[x].seen \subseteq Sentences
      <4> SUFFICES ASSUME NEW x \in Editors, save'[x].pc = "write"
                   PROVE  save'[x].doc \in Documents /\ save'[x].seen \subseteq Sentences
        OBVIOUS
      <4>1. x # e /\ save'[x] = save[x]
        BY <2>13
      <4> QED BY <1>2, <4>1 DEF ListenTyped
    <3> QED BY <2>10, <2>11, <2>13, <2>14, <2>15, <3>1, <3>2 DEF ListenTyped
  <2>17. \A s \in Sentences : order[s] # None /\ s \notin gone => order'[s] # None
    BY <2>11 DEF there, Alive
  <2>18. \A x \in Modes \X Keys :
            attempts'[x] = IF attempts[x] # None /\ attempts[x].s \in gone THEN None ELSE attempts[x]
    BY <1>5
  <2>19. \A mode \in Modes, s \in Sentences :
            progress'[<<mode, s>>] = IF s \in gone THEN None ELSE progress[<<mode, s>>]
    BY <1>5
  <2> HIDE DEF gone
  <2>20. Standings'
    <3> SUFFICES ASSUME NEW mode \in Modes, NEW s \in Sentences
                 PROVE  /\ StandingOf(progress'[<<mode, s>>], attempts', mode,
                                      KeysOn(attempts', mode, s), <<mode, s>> \in stale)
                        /\ progress'[<<mode, s>>] # None => order'[s] # None
      BY <1>1 DEF Standings
    <3> DEFINE K == KeysOn(attempts, mode, s)
               p == progress[<<mode, s>>]
    <3>1. StandingOf(p, attempts, mode, K, <<mode, s>> \in stale) /\ (p # None => order[s] # None)
      BY DEF ListenInv, Standings
    <3>2. CASE s \in gone
      <4>1. progress'[<<mode, s>>] = None
        BY <2>19, <3>2
      <4>2. \A k \in Keys : <<mode, k>> \in Modes \X Keys
        OBVIOUS
      <4>3. KeysOn(attempts', mode, s) = {}
        BY <2>18, <3>2, <4>2 DEF KeysOn
      <4> QED BY <4>1, <4>3, FS_EmptySet DEF StandingOf
    <3>3. CASE s \notin gone
      <4>1. KeysOn(attempts', mode, s) = K /\ \A k \in K : attempts'[<<mode, k>>] = attempts[<<mode, k>>]
        BY <2>18, <3>3, AttemptsStay
      <4>2. progress'[<<mode, s>>] = p
        BY <2>19, <3>3
      <4> HIDE DEF K, p
      <4>3. StandingOf(p, attempts', mode, K, <<mode, s>> \in stale)
        BY <3>1, <4>1 DEF StandingOf, Backed, Reached
      <4> QED BY <2>17, <3>1, <3>3, <4>1, <4>2, <4>3
    <3> QED BY <3>2, <3>3
  <2>21. KeysHeld'
    BY <1>1 DEF ListenInv, KeysHeld, Open
  <2>22. \A r \in Requests : RequestInv(request[r], attempts, order)'
    <3> SUFFICES ASSUME NEW r \in Requests PROVE RequestInv(request[r], attempts', order')
      BY <1>1
    <3> DEFINE u == request[r]
    <3>1. RequestInv(u, attempts, order)
      BY DEF ListenInv
    <3>2. u.pc \in {"read", "write"} => u.s \notin gone /\ u.s \in Sentences
      BY <1>1, <3>1 DEF OpenOn, Open, RequestInv
    <3> HIDE DEF u
    <3>3. u.pc \in {"read", "write"} => attempts'[<<u.mode, u.key>>] = None
      <4>1. u.pc \in {"read", "write"} => /\ <<u.mode, u.key>> \in Modes \X Keys
                                           /\ attempts[<<u.mode, u.key>>] = None
        BY <3>1 DEF RequestInv
      <4> QED BY <2>18, <4>1
    <3>4. u.pc \in {"read", "write"} => order'[u.s] # None
      BY <2>17, <3>1, <3>2 DEF RequestInv
    <3>5. u.pc = "write" /\ u.previous # None =>
             Backed(u.previous, attempts', u.mode, KeysOn(attempts', u.mode, u.s))
      <4> SUFFICES ASSUME u.pc = "write", u.previous # None
                   PROVE  Backed(u.previous, attempts', u.mode, KeysOn(attempts', u.mode, u.s))
        OBVIOUS
      <4>1. /\ u.mode \in Modes /\ u.s \notin gone
            /\ Backed(u.previous, attempts, u.mode, KeysOn(attempts, u.mode, u.s))
        BY <3>1, <3>2 DEF RequestInv
      <4> DEFINE m == u.mode
                 s == u.s
      <4> HIDE DEF m, s
      <4>3. m \in Modes /\ s \notin gone
        BY <4>1 DEF m, s
      <4>4. /\ KeysOn(attempts', m, s) = KeysOn(attempts, m, s)
            /\ \A k \in KeysOn(attempts, m, s) : attempts'[<<m, k>>] = attempts[<<m, k>>]
        BY <2>18, <4>3, AttemptsStay
      <4>2. /\ KeysOn(attempts', u.mode, u.s) = KeysOn(attempts, u.mode, u.s)
            /\ \A k \in KeysOn(attempts, u.mode, u.s) :
                  attempts'[<<u.mode, k>>] = attempts[<<u.mode, k>>]
        BY <4>4 DEF m, s
      <4> QED BY <4>1, <4>2 DEF Backed
    <3>6. RequestInv(u, attempts', order')
      BY <3>1, <3>3, <3>4, <3>5 DEF RequestInv
    <3> QED BY <3>6 DEF u
  <2> QED BY <2>12, <2>16, <2>20, <2>21, <2>22 DEF ListenInv
<1>6. \E last \in {0} \cup (there \ seen) :
        LET parked == IF stays = {} THEN {} ELSE {s \in there : s \in seen \/ s <= last}
            clash(S, T) == \E a \in S, b \in T : order[a] + REORDER_OFFSET = order[b]
            where  == [s \in Sentences |->
                        IF s \in named
                        THEN (CHOOSE i \in Positions(doc) : rows[i] = s /\ LastOf(rows, i)) - 1
                        ELSE IF s \notin there THEN None
                        ELSE IF s \in parked THEN order[s] + REORDER_OFFSET ELSE order[s]]
            written == /\ content # None /\ stays \subseteq there
                       /\ ~clash(parked, there \ parked)
                       /\ \A s \in there \ (named \cup parked) : order[s] >= Len(doc)
        IN  \/ /\ written
               /\ order' = where
               /\ made' = made + Cardinality(named \ seen)
               /\ attempts' = [x \in Modes \X Keys |->
                      IF attempts[x] # None /\ attempts[x].s \in gone THEN None ELSE attempts[x]]
               /\ progress' = [x \in Modes \X Sentences |->
                      IF x[2] \in gone THEN None ELSE progress[x]]
               /\ saved' = rows
               /\ kept' = keeps
               /\ SetSave(e, [pc |-> "saved"])
            \/ /\ ~written \/ clash(parked, parked)
               /\ SetSave(e, [pc |-> "failed"])
               /\ UNCHANGED <<order, made, attempts, progress, saved, kept>>
  BY DEF SaveWrite
<1> HIDE DEF named, rows, keeps, gone, stays, there, doc, seen
<1> QED BY <1>4, <1>5, <1>6
-----------------------------------------------------------------------------
LEMMA ListenNextInv == ListenInv /\ [ListenNext]_listenVars => ListenInv'
<1> SUFFICES ASSUME ListenInv, [ListenNext]_listenVars PROVE ListenInv'
  OBVIOUS
<1>1. ASSUME NEW r \in Requests, NEW mode \in Modes, NEW key \in Keys, NEW s \in Sentences,
             Submit(r, mode, key, s)
      PROVE  ListenInv'
  BY <1>1, SubmitInv
<1>2. ASSUME NEW r \in Requests, Replay(r) PROVE ListenInv'
  BY <1>2, ReplayInv
<1>3. ASSUME NEW r \in Requests, ReadProgress(r) PROVE ListenInv'
  BY <1>3, ReadProgressInv
<1>4. ASSUME NEW r \in Requests, Write(r) PROVE ListenInv'
  BY <1>4, WriteInv
<1>5. ASSUME NEW r \in Requests, Abort(r) PROVE ListenInv'
  BY <1>5, AbortInv
<1>6. ASSUME NEW r \in Requests, Advise(r) PROVE ListenInv'
  BY <1>6, AdviseInv
<1>7. ASSUME NEW r \in Requests, NEW score \in Scores, NEW helped \in BOOLEAN,
             InsertAttempt(r, score, helped)
      PROVE  ListenInv'
  BY <1>7, InsertAttemptInv
<1>8. ASSUME NEW r \in Requests, NEW key \in Keys, Feedback(r, key) PROVE ListenInv'
  BY <1>8, FeedbackInv
<1>9. ASSUME NEW e \in Editors, SaveWrite(e) PROVE ListenInv'
  BY <1>9, SaveWriteInv
<1>10. ASSUME NEW e \in Editors, NEW doc \in Documents, NEW fits \in BOOLEAN, SaveRead(e, doc, fits)
       PROVE  ListenInv'
  BY <1>10, SaveReadInv
<1>11. CASE PublishCheck(TRUE) \/ PublishWrite \/ Unpublish \/ SetCategory
               \/ \E modes \in SUBSET Modes : UpdateModes(modes)
  BY <1>11, ShelfInv
<1>12. CASE Remove
  BY <1>12, RemoveInv
<1>13. CASE UNCHANGED listenVars
  <2>1. UNCHANGED heard
    BY <1>13 DEF listenVars, heard
  <2> QED BY <2>1, NothingHeard
<1> QED BY <1>1, <1>2, <1>3, <1>4, <1>5, <1>6, <1>7, <1>8, <1>9, <1>10, <1>11, <1>12, <1>13
        DEF ListenNext

\* A standing done is a sentence solved, and there are no more of them than sentences.
LEMMA ListenSound == ListenInv => ListeningSound
<1> SUFFICES ASSUME ListenInv PROVE ListeningSound
  OBVIOUS
<1>1. ASSUME NEW mode \in Modes, NEW s \in Sentences
      PROVE  /\ \A a : a \in RowsOn(mode, s) <=>
                         \E k \in KeysOn(attempts, mode, s) : a = attempts[<<mode, k>>]
             /\ CountOf(mode, s) = Cardinality(KeysOn(attempts, mode, s))
  BY DEF RowsOn, KeysOn, CountOf
<1>2. ProgressIsHistory
  <2> SUFFICES ASSUME NEW mode \in Modes, NEW s \in Sentences
               PROVE  LET p == progress[<<mode, s>>]
                          R == RowsOn(mode, s)
                      IN  /\ (p = None) <=> (R = {})
                          /\ p # None =>
                                /\ s \in Alive
                                /\ p.count = CountOf(mode, s)
                                /\ p.done => \E a \in R : a.solved
                                /\ p.assisted => \E a \in R : a.assisted
                                /\ \E a \in R : a.score = p.best
                                /\ <<mode, s>> \notin stale =>
                                      /\ (\E a \in R : a.solved) => p.done
                                      /\ (\E a \in R : a.assisted) => p.assisted
                                      /\ \A a \in R : a.score <= p.best
    BY DEF ProgressIsHistory
  <2> DEFINE p == progress[<<mode, s>>]
             R == RowsOn(mode, s)
             K == KeysOn(attempts, mode, s)
  <2>1. /\ StandingOf(p, attempts, mode, K, <<mode, s>> \in stale)
        /\ p # None => s \in Alive
    BY DEF ListenInv, Standings, Alive
  <2>2. (\A a : a \in R <=> \E k \in K : a = attempts[<<mode, k>>]) /\ CountOf(mode, s) = Cardinality(K)
    BY <1>1
  <2> HIDE DEF p, R, K
  <2>3. (R = {}) <=> (K = {})
    BY <2>2
  <2>4. p # None => /\ p.done => \E a \in R : a.solved
                    /\ p.assisted => \E a \in R : a.assisted
                    /\ \E a \in R : a.score = p.best
    BY <2>1, <2>2 DEF StandingOf, Backed
  <2>5. p # None /\ <<mode, s>> \notin stale =>
                    /\ (\E a \in R : a.solved) => p.done
                    /\ (\E a \in R : a.assisted) => p.assisted
                    /\ \A a \in R : a.score <= p.best
    BY <2>1, <2>2 DEF StandingOf, Reached
  <2>6. ((p = None) <=> (R = {})) /\ (p # None => p.count = CountOf(mode, s) /\ s \in Alive)
    BY <2>1, <2>2, <2>3 DEF StandingOf
  <2>7. (p = None) <=> (R = {})
    BY <2>6
  <2> QED BY <2>4, <2>5, <2>6, <2>7 DEF p, R
<1>3. SummaryIsHonest
  <2> SUFFICES ASSUME NEW mode \in Modes, Summary(mode) # None
               PROVE  LET solved == {s \in Alive : \E a \in RowsOn(mode, s) : a.solved}
                          lost   == {s \in Alive : <<mode, s>> \in stale}
                      IN  /\ Summary(mode).completedSegments <= Summary(mode).totalSegments
                          /\ Summary(mode).completed => Alive # {} /\ solved = Alive
                          /\ Alive # {} /\ solved = Alive /\ lost = {} => Summary(mode).completed
    BY DEF SummaryIsHonest
  <2> DEFINE done   == {s \in Sentences : progress[<<mode, s>>] # None /\ progress[<<mode, s>>].done}
             solved == {s \in Alive : \E a \in RowsOn(mode, s) : a.solved}
             lost   == {s \in Alive : <<mode, s>> \in stale}
             T      == Cardinality(Alive)
             C      == Cardinality(done)
             all    == T > 0 /\ C = T
  <2>1. IsFiniteSet(Alive)
    <3>1. IsFiniteSet(Sentences)
      BY ListeningAssumption, FS_Interval DEF Sentences
    <3> QED BY <3>1, FS_Subset DEF Alive
  <2>2. done \subseteq solved /\ solved \subseteq Alive
    BY <1>2 DEF ProgressIsHistory
  <2>3. lost = {} /\ solved = Alive => done = Alive
    <3> SUFFICES ASSUME lost = {}, solved = Alive, NEW s \in Alive PROVE s \in done
      BY <2>2
    <3>1. s \in Sentences /\ <<mode, s>> \notin stale /\ \E a \in RowsOn(mode, s) : a.solved
      BY DEF Alive
    <3> QED BY <1>2, <3>1 DEF ProgressIsHistory
  <2>4. Summary(mode) = [totalSegments |-> T, completedSegments |-> C, completed |-> all]
    BY DEF Summary, summarise, completedSegments
  <2> HIDE DEF done, solved, lost
  <2>5. done \subseteq Alive
    BY <2>2
  <2>6. IsFiniteSet(done) /\ C <= T /\ (C = T => done = Alive)
    BY <2>1, <2>5, FS_Subset
  <2>7. T \in Nat /\ C \in Nat /\ (T = 0 <=> Alive = {})
    BY <2>1, <2>6, FS_CardinalityType, FS_EmptySet
  <2>8. done = Alive => C = T
    OBVIOUS
  <2> HIDE DEF T, C
  <2>9. all => Alive # {} /\ solved = Alive
    BY <2>2, <2>6, <2>7
  <2>10. Alive # {} /\ solved = Alive /\ lost = {} => all
    BY <2>3, <2>7, <2>8
  <2> HIDE DEF all
  <2>11. /\ Summary(mode).totalSegments = T /\ Summary(mode).completedSegments = C
         /\ Summary(mode).completed = all
    BY <2>4
  <2>12. Summary(mode).completedSegments <= Summary(mode).totalSegments
    BY <2>6, <2>11
  <2>13. Summary(mode).completed => Alive # {} /\ solved = Alive
    BY <2>9, <2>11
  <2>14. Alive # {} /\ solved = Alive /\ lost = {} => Summary(mode).completed
    BY <2>10, <2>11
  <2> QED BY <2>12, <2>13, <2>14 DEF solved, lost
<1> QED BY <1>2, <1>3 DEF ListeningSound, ListenInv

(* What a student is told of his practice is what his attempts add up to,  *)
(* and the sentences are those of the document that was saved last, for    *)
(* any number of submissions, editors, documents and sentences             *)
(* (DictationService, ShadowingService, ListeningContentService).          *)
THEOREM ListeningAlwaysSound == ListenSpec => []ListeningSound
<1>1. ListenInit => ListenInv
  BY ListenInitInv
<1>2. ListenInv /\ [ListenNext]_listenVars => ListenInv'
  BY ListenNextInv
<1>3. ListenInv => ListeningSound
  BY ListenSound
<1> QED BY <1>1, <1>2, <1>3, PTL DEF ListenSpec
-----------------------------------------------------------------------------
(***************************************************************************)
(* Courses and their lessons.  What the pages say follows from the types   *)
(* of the rows alone; what is kept follows from the order in which rows    *)
(* come and go: a task needs its lesson, a lesson its course, an attempt   *)
(* its task and a row that counts it.  A place is new because a request    *)
(* that creates a lesson puts it behind all those it has seen, and counts  *)
(* as loose when others have been placed since.                            *)
(***************************************************************************)
StepsType == [video : WatchedType \cup {None}, theory : {"none", "started", "done"}]

ContentTyped ==
    /\ course \in {"draft", "published", None}
    /\ lessonRow \in [Lessons -> LessonType \cup {None}]
    /\ taskRow \in [Lessons \X Kinds -> TaskType \cup {None}]
    /\ nextId \in Nat
StudentTyped ==
    /\ stepsOf \in [Lessons -> StepsType]
    /\ marks \in [Lessons \X Kinds -> MarksType \cup {None}]
    /\ tries \in [Lessons \X Kinds -> Nat]
    /\ sitting \in SittingType \cup {None}

\* A create that is about to write puts its lesson behind those it has seen.
AuthorSteps == {"new", "find", "count", "write", "done", "refused", "failed"}
AuthorType == [pc : AuthorSteps, call : AuthorCalls \cup {NewAuthor.call}, at : Nat, orders : SUBSET Nat]
AuthorSound(a) ==
    /\ a \in AuthorType
    /\ a.pc \in {"find", "count", "write"} => a.call \in AuthorCalls
    /\ a.pc = "write" /\ a.call.op = "create" => \A n \in a.orders : n < a.at
AuthorsInv ==
    /\ author \in [Authors -> AuthorType]
    /\ \A r \in Authors : AuthorSound(author[r])

KeptInv == WorkKept /\ \A l \in Lessons : present(l) => course # None
PlacesInv == \A l, m \in placed : l # m /\ lessonRow[l].at = lessonRow[m].at => {l, m} \cap loose # {}

CatalogueInv == ContentTyped /\ StudentTyped /\ AuthorsInv /\ KeptInv /\ PlacesInv
-----------------------------------------------------------------------------
\* No row is the absence of one, and a row that is there has its type.
LEMMA NotNone ==
    /\ \A x \in LessonType : x # None
    /\ \A x \in TaskType : x # None
    /\ \A x \in WatchedType : x # None
    /\ \A x \in MarksType : x # None
    /\ \A x \in SittingType : x # None
    /\ None \notin {"draft", "published", "heading", "text"}
  BY CatalogueAssumption

LEMMA LessonRowTyped ==
    ASSUME ContentTyped, NEW l \in Lessons
    PROVE  /\ lessonRow[l] # None => lessonRow[l] \in LessonType
           /\ \A k \in Kinds : taskRow[<<l, k>>] # None => taskRow[<<l, k>>] \in TaskType
  BY DEF ContentTyped

\* What a report makes of the row of the video: it is measured by a length, and
\* nothing that was reached is lost.
LEMMA WatchedOnward ==
    ASSUME ContentTyped, StudentTyped, NEW l \in Lessons, present(l), NEW position \in Nat
    PROVE  /\ watchedTo(l, position) \in WatchedType
           /\ watchedTo(l, position) # None
           /\ stepsOf[l].video # None /\ stepsOf[l].video.done => watchedTo(l, position).done
           /\ canComplete(position, measuredBy(l)) => watchedTo(l, position).done
<1> DEFINE old == stepsOf[l].video
           length == measuredBy(l)
           frozen == frozenLength(l)
           top == IF old # None /\ old.highest > position THEN old.highest ELSE position
           ended == (old # None /\ old.done) \/ canComplete(top, length)
<1>1. lessonRow[l] \in LessonType BY LessonRowTyped DEF present
<1>2. old = None \/ old \in WatchedType BY DEF StudentTyped, StepsType
<1>3. frozen \in Nat
  <2>1. old # None => old.frozen \in Nat BY <1>2 DEF WatchedType
  <2>2. lessonRow[l].video \in Nat BY <1>1 DEF LessonType
  <2> QED BY <2>1, <2>2 DEF frozenLength
<1>4. length \in Nat
  <2>1. lessonRow[l].minutes \in Nat /\ Minute \in Nat BY <1>1, CatalogueAssumption DEF LessonType
  <2>2. lessonRow[l].minutes * Minute \in Nat BY <2>1
  <2> HIDE DEF frozen
  <2>3. length = lessonRow[l].minutes * Minute \/ length = frozen BY DEF measuredBy, frozen
  <2> QED BY <1>3, <2>2, <2>3
<1>5. top \in Nat /\ top >= position
  <2>1. old # None => old.highest \in Nat BY <1>2 DEF WatchedType
  <2> QED BY <2>1
<1>6. watchedTo(l, position) = [highest |-> top, frozen |-> frozen, done |-> ended]
  BY DEF watchedTo
<1>7. ended \in BOOLEAN /\ (old # None /\ old.done => ended) OBVIOUS
<1>8. canComplete(position, length) => ended
  <2>1. ShortestVideo \in Nat BY CatalogueAssumption
  <2> HIDE DEF top, length
  <2>2. canComplete(position, length) => canComplete(top, length)
    BY <1>4, <1>5, <2>1 DEF canComplete
  <2> QED BY <2>2
<1> HIDE DEF top, ended, frozen, length
<1>9. watchedTo(l, position) \in WatchedType BY <1>3, <1>5, <1>6, <1>7 DEF WatchedType
<1>10. watchedTo(l, position).done = ended BY <1>6
<1> QED BY <1>7, <1>8, <1>9, <1>10, NotNone DEF length

LEMMA WatchWrites ==
    ASSUME ContentTyped, NEW m \in Lessons, NEW position \in Nat, Watch(m, position)
    PROVE  present(m) /\ stepsOf' = [stepsOf EXCEPT ![m].video = watchedTo(m, position)]
BY DEF Watch, visible, shown, placed

\* A stage that is open but not admitted waits for one that is both: practice
\* for the quiz or for its mistakes, and nothing else waits.
LEMMA StuckNever == ASSUME ContentTyped, StudentTyped PROVE NeverStuck
<1> SUFFICES ASSUME NEW l \in Lessons, visible(l), ~misauthored(l),
                    openStages(l) # {}
             PROVE  \E t \in openStages(l) : admits(l, t)
  BY DEF NeverStuck
<1>9. CASE openStages(l) = {"video"}
  <2>1. present(l) /\ lessonRow[l] \in LessonType
    BY LessonRowTyped DEF visible, shown, placed, present
  <2>2. lessonRow[l].video \in Nat /\ canComplete(lessonRow[l].video, measuredBy(l))
    BY <1>9, <2>1 DEF misauthored, unwatchable, LessonType
  <2>3. watchedTo(l, lessonRow[l].video).done BY <2>1, <2>2, WatchedOnward
  <2>4. lessonRow[l].video \in 0 .. lessonRow[l].video BY <2>2
  <2> QED BY <1>9, <2>3, <2>4 DEF admits
<1> SUFFICES ASSUME NEW s \in openStages(l), s # "video"
             PROVE  \E t \in openStages(l) : admits(l, t)
  BY <1>9
<1> DEFINE Stages == {"video", "theory", "quiz", "traphunter", "practice"}
<1>1. s \in Stages /\ s \in availableStages(l) /\ ~isStageCompleted(l, s)
  BY DEF openStages, availableStages
<1>3. CASE s = "theory"
  <2>1. lessonRow[l].notes # None
    BY <1>1, <1>3, NotNone DEF availableStages
  <2> QED BY <1>3, <2>1 DEF admits
<1>4. ASSUME offered(l, "QUIZ"), ~isStageCompleted(l, "quiz")
      PROVE  "quiz" \in openStages(l) /\ admits(l, "quiz")
  <2>1. taskRow[<<l, "QUIZ">>].questions # {}
    BY <1>4 DEF misauthored, Kinds
  <2> QED BY <1>4, <2>1 DEF openStages, availableStages, admits
<1>5. ASSUME offered(l, "QUIZ"), uncleared(l) # {}
      PROVE  "traphunter" \in openStages(l) /\ admits(l, "traphunter")
  <2>1. traps(l) # {} BY <1>5 DEF uncleared
  <2> QED BY <1>5, <2>1 DEF openStages, availableStages, admits, isStageCompleted
<1>6. CASE s = "quiz"
  BY <1>1, <1>4, <1>6 DEF availableStages
<1>7. CASE s = "traphunter"
  <2>1. offered(l, "QUIZ") /\ traps(l) # {}
    BY <1>1, <1>7 DEF availableStages
  <2>2. uncleared(l) # {}
    BY <1>1, <1>7, <2>1 DEF isStageCompleted
  <2> QED BY <1>5, <2>1, <2>2
<1>8. CASE s = "practice"
  <2>1. offered(l, "PRACTICE")
    BY <1>1, <1>8 DEF availableStages
  <2>2. taskRow[<<l, "PRACTICE">>].questions # {}
    BY <2>1 DEF misauthored, Kinds
  <2>3. CASE resolvePracticePrerequisites(l)
    BY <1>8, <2>2, <2>3 DEF admits
  <2>4. CASE ~resolvePracticePrerequisites(l)
    <3>1. offered(l, "QUIZ") /\ (~marksOf(l, "QUIZ").passed \/ uncleared(l) # {})
      BY <2>4 DEF resolvePracticePrerequisites
    <3>2. CASE ~marksOf(l, "QUIZ").passed
      BY <3>1, <3>2, <1>4 DEF isStageCompleted
    <3>3. CASE uncleared(l) # {}
      BY <3>1, <3>3, <1>5
    <3> QED BY <3>1, <3>2, <3>3
  <2> QED BY <2>3, <2>4
<1> QED BY <1>1, <1>3, <1>6, <1>7, <1>8

\* Lessons in places of their own: no more of them are free than there are places.
LEMMA FreePlaces ==
    ASSUME ContentTyped, PlacesInv, loose = {}
    PROVE  Cardinality({l \in placed : lessonRow[l].at < FreeLessons}) <= FreeLessons
<1> DEFINE F == {l \in placed : lessonRow[l].at < FreeLessons}
           at == [l \in F |-> lessonRow[l].at]
           T == 0 .. FreeLessons - 1
<1>1. FreeLessons \in Nat BY CatalogueAssumption
<1>2. IsFiniteSet(T) /\ Cardinality(T) = FreeLessons
  BY <1>1, FS_Interval
<1>3. \A l \in F : lessonRow[l].at \in T
  BY <1>1, LessonRowTyped DEF placed, present, LessonType
<1>4. at \in [F -> T] BY <1>3
<1>5. ASSUME NEW l \in F, NEW m \in F, at[l] = at[m] PROVE l = m
  BY <1>5 DEF PlacesInv
<1>6. at \in Injection(F, T)
  BY <1>4, <1>5 DEF Injection, IsInjective
<1> HIDE DEF F, at, T
<1>7. Cardinality(F) <= Cardinality(T)
  BY <1>2, <1>6, FS_Injection
<1> QED BY <1>2, <1>7 DEF F

\* The share rounded down is 100 percent for the whole only.
LEMMA Percent ==
    ASSUME NEW n \in Nat \ {0}, NEW c \in Nat, c <= n
    PROVE  (c * 100) \div n = 100 <=> c = n
<1> DEFINE q == (c * 100) \div n
           r == (c * 100) % n
<1>1. q \in Int /\ r \in 0 .. n - 1 /\ c * 100 = n * q + r
  OBVIOUS
<1>2. CASE c = n
  <2>1. n * (100 - q) = r BY <1>1, <1>2
  <2>2. q <= 100 /\ q >= 100 BY <1>1, <2>1
  <2> QED BY <1>1, <1>2, <2>2
<1>3. CASE c < n
  <2>1. c * 100 < n * 100 BY <1>3
  <2> SUFFICES ASSUME q = 100 PROVE FALSE BY <1>3
  <2> QED BY <1>1, <2>1
<1> QED BY <1>2, <1>3
-----------------------------------------------------------------------------
(* The course page                                                         *)

\* The three cases of the status of a lesson.
LEMMA StatusOf ==
    ASSUME NEW l
    PROVE  /\ deriveLessonStatus(l) = "NO_CONTENT" <=> availableStages(l) = {}
           /\ deriveLessonStatus(l) = "COMPLETED" <=> availableStages(l) # {} /\ openStages(l) = {}
           /\ deriveLessonStatus(l) \in {"IN_PROGRESS", "NOT_STARTED"} <=> openStages(l) # {}
<1>1. openStages(l) \subseteq availableStages(l) BY DEF openStages
<1> DEFINE avail == availableStages(l)
           open == openStages(l)
           begun == \E s \in availableStages(l) : isStageCompleted(l, s) \/ isStageStarted(l, s)
<1>2. deriveLessonStatus(l) =
        CASE avail = {} -> "NO_CONTENT"
          [] avail # {} /\ open = {} -> "COMPLETED"
          [] open # {} -> IF begun THEN "IN_PROGRESS" ELSE "NOT_STARTED"
  BY DEF deriveLessonStatus
<1>3. open \subseteq avail BY <1>1
<1> HIDE DEF avail, open, begun
<1>4. /\ deriveLessonStatus(l) = "NO_CONTENT" <=> avail = {}
      /\ deriveLessonStatus(l) = "COMPLETED" <=> avail # {} /\ open = {}
      /\ deriveLessonStatus(l) \in {"IN_PROGRESS", "NOT_STARTED"} <=> open # {}
  <2>1. CASE avail = {} BY <1>2, <1>3, <2>1
  <2>2. CASE avail # {} /\ open = {} BY <1>2, <2>2
  <2>3. CASE open # {} BY <1>2, <1>3, <2>3
  <2> QED BY <2>1, <2>2, <2>3
<1> QED BY <1>4 DEF avail, open

\* Of finitely many things one has the highest place.
LEMMA HighestOf ==
    ASSUME NEW S, IsFiniteSet(S), S # {}, NEW at, \A x \in S : at[x] \in Nat
    PROVE  \E x \in S : \A y \in S : at[y] <= at[x]
<1> DEFINE Tops(T) == {x \in T : \A y \in T : at[y] <= at[x]}
           Sizes == {n \in Nat : \E T \in SUBSET S : T # {} /\ Cardinality(T) = n /\ Tops(T) = {}}
<1> SUFFICES ASSUME Tops(S) = {} PROVE FALSE
  OBVIOUS
<1>1. Cardinality(S) \in Sizes
  BY FS_CardinalityType
<1>2. PICK n \in Sizes : \A m \in Sizes : ~(m < n)
  <2>1. PICK n \in Sizes : \A m \in Sizes : ~(<<m, n>> \in OpToRel(<, Nat))
    BY <1>1, NatLessThanWellFounded, WFMin
  <2> QED BY <2>1 DEF OpToRel
<1>3. n \in Nat /\ \E T \in SUBSET S : T # {} /\ Cardinality(T) = n /\ Tops(T) = {}
  BY <1>2
<1>0. PICK T \in SUBSET S : T # {} /\ Cardinality(T) = n /\ Tops(T) = {}
  BY <1>3
<1>4. PICK x \in T : TRUE
  BY <1>0
<1> DEFINE U == T \ {x}
<1>5. IsFiniteSet(T) /\ IsFiniteSet(U) /\ Cardinality(U) = n - 1 /\ Cardinality(U) \in Nat
  BY <1>0, <1>4, FS_Subset, FS_RemoveElement, FS_CardinalityType
<1>6. U # {}
  BY <1>0, <1>4
<1>7. Tops(U) # {}
  <2> SUFFICES ASSUME Tops(U) = {} PROVE FALSE
    OBVIOUS
  <2>1. U \in SUBSET S
    BY <1>0
  <2> HIDE DEF U, Tops
  <2>2. Cardinality(U) \in Sizes
    BY <2>1, <1>5, <1>6
  <2> HIDE DEF Sizes
  <2>3. n \in Nat
    BY <1>3
  <2> QED BY <2>2, <2>3, <1>2, <1>5
<1>8. PICK m \in U : \A y \in U : at[y] <= at[m]
  BY <1>7
<1>9. at[m] \in Nat /\ at[x] \in Nat
  BY <1>0, <1>4, <1>8
<1>10. CASE at[x] <= at[m]
  <2>1. m \in Tops(T)
    BY <1>8, <1>10
  <2> QED BY <2>1, <1>0
<1>11. CASE ~(at[x] <= at[m])
  <2>1. ASSUME NEW y \in T PROVE at[y] <= at[x]
    <3>1. at[y] \in Nat /\ (y = x \/ at[y] <= at[m])
      BY <1>0, <1>8
    <3> QED BY <3>1, <1>9, <1>11
  <2> QED BY <2>1, <1>0, <1>4
<1> QED BY <1>10, <1>11

\* Of some places one comes first.
LEMMA LeastPlace ==
    ASSUME NEW S \in SUBSET Nat, S # {}
    PROVE  \E n \in S : \A m \in S : n <= m
<1>1. PICK n \in S : \A m \in S : ~(<<m, n>> \in OpToRel(<, Nat))
  BY NatLessThanWellFounded, WFMin
<1>2. \A m \in S : ~(m < n)
  BY <1>1 DEF OpToRel
<1> QED BY <1>2

\* So there is a lesson to continue with, when any is open.
LEMMA Foremost ==
    ASSUME ContentTyped, NEW lessons \in SUBSET shown, lessons # {}
    PROVE  foremost(lessons) # {}
<1> DEFINE places == {lessonRow[l].at : l \in lessons}
<1>1. \A l \in lessons : l \in Lessons /\ lessonRow[l] \in LessonType
  BY LessonRowTyped DEF shown, placed, present
<1>2. places \subseteq Nat /\ places # {}
  BY <1>1 DEF LessonType
<1> HIDE DEF places
<1>3. PICK n \in places : \A m \in places : n <= m
  BY <1>2, LeastPlace
<1>4. PICK l \in lessons : lessonRow[l].at = n
  BY <1>3 DEF places
<1>5. \A m \in lessons : lessonRow[m].at \in places
  BY DEF places
<1>6. l \in foremost(lessons)
  BY <1>3, <1>4, <1>5 DEF foremost
<1> QED BY <1>6

\* Countable lessons are those with content, and all of them being completed is
\* the same as none being open, as a count, as a set and as a percentage.
LEMMA PageShown == ASSUME ContentTyped PROVE CourseShown
<1> DEFINE st == statuses
           all == countable(st)
           completed == ofStatus(st, "COMPLETED")
           going == ofStatus(st, "IN_PROGRESS")
           fresh == ofStatus(st, "NOT_STARTED")
<1>1. DOMAIN st = shown /\ \A l \in shown : st[l] = deriveLessonStatus(l)
  BY DEF statuses
<1>2. /\ all = {l \in shown : availableStages(l) # {}}
      /\ completed = {l \in shown : availableStages(l) # {} /\ openStages(l) = {}}
  BY <1>1, StatusOf DEF countable, ofStatus
<1>3. going \cup fresh = {l \in shown : openStages(l) # {}}
  BY <1>1, StatusOf DEF ofStatus
<1>4. shown \subseteq Lessons /\ IsFiniteSet(shown)
  BY CatalogueAssumption, FS_Subset DEF shown, placed
<1>5. IsFiniteSet(all) /\ IsFiniteSet(completed) /\ completed \subseteq all
  BY <1>2, <1>4, FS_Subset
<1>6. /\ Cardinality(all) \in Nat /\ Cardinality(completed) \in Nat
      /\ Cardinality(completed) <= Cardinality(all)
      /\ Cardinality(completed) = Cardinality(all) <=> completed = all
  BY <1>5, FS_Subset, FS_CardinalityType
<1>7. courseStatus(st) = "COMPLETED" <=> all # {} /\ completed = all
  BY DEF courseStatus
<1>8. progressPercent(st) = 100 <=> all # {} /\ completed = all
  <2>1. CASE all = {}
    BY <2>1 DEF progressPercent
  <2>2. CASE all # {}
    <3>1. Cardinality(all) # 0 BY <2>2, <1>5, FS_EmptySet
    <3>2. (Cardinality(completed) * 100) \div Cardinality(all) = 100
            <=> Cardinality(completed) = Cardinality(all)
      BY <3>1, <1>6, Percent
    <3>3. progressPercent(st) = (Cardinality(completed) * 100) \div Cardinality(all)
      BY <2>2 DEF progressPercent
    <3> QED BY <2>2, <3>2, <3>3, <1>6
  <2> QED BY <2>1, <2>2
<1>9. all # {} => (completed = all <=> \A l \in shown : openStages(l) = {})
  <2>1. \A l : openStages(l) \subseteq availableStages(l) BY DEF openStages
  <2> QED BY <1>2, <2>1
<1>10. ASSUME \E l \in shown : openStages(l) # {}
       PROVE  /\ resolveContinueLesson(st) # {}
              /\ \A l \in resolveContinueLesson(st) : openStages(l) # {}
  <2>1. going # {} \/ fresh # {} BY <1>3, <1>10
  <2>2. going \subseteq shown /\ fresh \subseteq shown BY <1>3
  <2>3. \A S : foremost(S) \subseteq S BY DEF foremost
  <2>4. CASE going # {}
    <3>1. resolveContinueLesson(st) = foremost(going) BY <2>4 DEF resolveContinueLesson
    <3> QED BY <3>1, <2>2, <2>3, <2>4, <1>3, Foremost
  <2>5. CASE going = {}
    <3>1. resolveContinueLesson(st) = foremost(fresh) BY <2>1, <2>5 DEF resolveContinueLesson
    <3> QED BY <3>1, <2>1, <2>2, <2>3, <2>5, <1>3, Foremost
  <2> QED BY <2>4, <2>5
<1> QED BY <1>7, <1>8, <1>9, <1>10 DEF CourseShown
-----------------------------------------------------------------------------
(* A completed lesson                                                      *)

\* What a completed lesson is, now and in the next state.
IsCompleted(l) == availableStages(l) # {} /\ openStages(l) = {}

\* A row of marks, and what a graded submit makes of it.
LEMMA MarksOfTyped ==
    ASSUME StudentTyped, NEW l \in Lessons, NEW k \in Kinds
    PROVE  marksOf(l, k) \in MarksType
<1>1. NewMarks \in MarksType BY DEF NewMarks, MarksType
<1> QED BY <1>1 DEF marksOf, StudentTyped

LEMMA MarkedTyped ==
    ASSUME NEW row \in MarksType, NEW questions, NEW wrong \in SUBSET Nat
    PROVE  /\ marked(row, questions, wrong) \in MarksType
           /\ marked(row, questions, wrong) # None
           /\ marked(row, questions, wrong).attempts = row.attempts + 1
           /\ row.passed => marked(row, questions, wrong).passed
<1> DEFINE new == marked(row, questions, wrong)
           won == row.passed \/ percentRight(questions, wrong) >= PassAt
<1>1. new = [attempts |-> row.attempts + 1, passed |-> won, wrong |-> wrong, cleared |-> {}]
  BY DEF marked
<1>2. won \in BOOLEAN /\ (row.passed => won) OBVIOUS
<1>3. row.attempts + 1 \in Nat BY DEF MarksType
<1> HIDE DEF won
<1>4. new \in MarksType BY <1>1, <1>2, <1>3 DEF MarksType
<1>5. new.attempts = row.attempts + 1 /\ new.passed = won BY <1>1
<1> QED BY <1>2, <1>4, <1>5, NotNone

\* No step of an author leaves content alone and changes what the student has
\* done; of the student's, a graded retake may leave mistakes, and the others
\* leave done what is done.
LEMMA StepKeepsCompletion ==
    ASSUME ContentTyped, StudentTyped, [CatalogueNext]_catalogueVars,
           <<stepsOf, marks>>' # <<stepsOf, marks>>, UNCHANGED <<lessonRow, taskRow>>,
           NEW l \in shown, IsCompleted(l)
    PROVE  \/ IsCompleted(l)'
           \/ openStages(l)' = {"traphunter"} /\ tries'[<<l, "QUIZ">>] > tries[<<l, "QUIZ">>]
<1>1. l \in Lessons BY DEF shown, placed
<1>0. "QUIZ" \in Kinds /\ "PRACTICE" \in Kinds BY DEF Kinds
<1>2. ASSUME marks'[<<l, "QUIZ">>] = marks[<<l, "QUIZ">>],
             marks'[<<l, "PRACTICE">>] = marks[<<l, "PRACTICE">>]
                \/ ~marksOf(l, "PRACTICE").passed \/ marksOf(l, "PRACTICE").passed',
             stepsOf[l].theory = "done" => stepsOf'[l].theory = "done",
             stepsOf[l].video # None /\ stepsOf[l].video.done =>
                stepsOf'[l].video # None /\ stepsOf'[l].video.done
      PROVE  IsCompleted(l)'
  <2>1. traps(l)' = traps(l) /\ uncleared(l)' = uncleared(l) /\ marksOf(l, "QUIZ")' = marksOf(l, "QUIZ")
    BY <1>2 DEF traps, uncleared, marksOf, tasksOf
  <2>2. availableStages(l)' = availableStages(l)
    BY <2>1 DEF availableStages, offered, tasksOf
  <2>3. \A s \in availableStages(l) : isStageCompleted(l, s) => isStageCompleted(l, s)'
    <3> SUFFICES ASSUME NEW s \in availableStages(l), isStageCompleted(l, s) PROVE isStageCompleted(l, s)'
      OBVIOUS
    <3>0. s \in {"video", "theory", "quiz", "traphunter", "practice"} BY DEF availableStages
    <3>1. CASE s = "video" BY <3>1, <1>2 DEF isStageCompleted
    <3>2. CASE s = "theory" BY <3>2, <1>2 DEF isStageCompleted
    <3>3. CASE s = "quiz" BY <3>3, <2>1 DEF isStageCompleted
    <3>4. CASE s = "traphunter" BY <3>4, <2>1 DEF isStageCompleted
    <3>5. CASE s = "practice" BY <3>5, <1>2 DEF isStageCompleted, marksOf
    <3> QED BY <3>0, <3>1, <3>2, <3>3, <3>4, <3>5
  <2> QED BY <2>2, <2>3 DEF IsCompleted, openStages
<1>3. ASSUME NEW m \in Lessons, NEW position \in Nat, Watch(m, position) PROVE IsCompleted(l)'
  <2> DEFINE new == watchedTo(m, position)
  <2>1. marks' = marks /\ stepsOf' = [stepsOf EXCEPT ![m].video = new]
    BY <1>3, WatchWrites DEF Watch
  <2>2. stepsOf[m].video \in WatchedType \cup {None} /\ stepsOf[l] \in StepsType
    BY <1>1, <1>3 DEF StudentTyped, StepsType
  <2>3. new # None /\ (stepsOf[m].video # None /\ stepsOf[m].video.done => new.done)
    BY <1>3, WatchWrites, WatchedOnward
  <2> HIDE DEF new
  <2>4. stepsOf'[l].theory = stepsOf[l].theory
        /\ stepsOf'[l].video = IF l = m THEN new ELSE stepsOf[l].video
    BY <2>1, <2>2, <1>1 DEF StudentTyped, StepsType
  <2> QED BY <1>2, <2>1, <2>3, <2>4
<1>4. ASSUME NEW m \in Lessons, NEW how, ReadTheory(m, how) PROVE IsCompleted(l)'
  <2> DEFINE new == IF stepsOf[m].theory = "done" THEN "done" ELSE how
  <2>1. marks' = marks /\ stepsOf' = [stepsOf EXCEPT ![m].theory = new]
    BY <1>4 DEF ReadTheory
  <2>2. stepsOf[l] \in StepsType BY <1>1 DEF StudentTyped
  <2>3. stepsOf[m].theory = "done" => new = "done" OBVIOUS
  <2> HIDE DEF new
  <2>4. stepsOf'[l].video = stepsOf[l].video
        /\ stepsOf'[l].theory = IF l = m THEN new ELSE stepsOf[l].theory
    BY <2>1, <2>2, <1>1 DEF StudentTyped, StepsType
  <2> QED BY <1>2, <2>1, <2>3, <2>4
<1>5. ASSUME NEW m \in Lessons, NEW q \in uncleared(m), ClearTrap(m, q) PROVE IsCompleted(l)'
  <2>1. stepsOf' = stepsOf BY <1>5 DEF ClearTrap
  <2>2. m # l
    <3> SUFFICES ASSUME m = l PROVE FALSE OBVIOUS
    <3>1. offered(l, "QUIZ") /\ uncleared(l) # {} BY <1>5 DEF ClearTrap
    <3>2. traps(l) # {} BY <3>1 DEF uncleared
    <3>3. "traphunter" \in openStages(l)
      BY <3>1, <3>2 DEF openStages, availableStages, isStageCompleted
    <3> QED BY <3>3 DEF IsCompleted
  <2>3. marks'[<<l, "QUIZ">>] = marks[<<l, "QUIZ">>] /\ marks'[<<l, "PRACTICE">>] = marks[<<l, "PRACTICE">>]
    BY <2>2, <1>5, <1>1, <1>0 DEF ClearTrap, StudentTyped
  <2> QED BY <1>2, <2>1, <2>3
<1>6. ASSUME NEW wrong, HandIn(wrong)
      PROVE  \/ IsCompleted(l)'
             \/ openStages(l)' = {"traphunter"} /\ tries'[<<l, "QUIZ">>] > tries[<<l, "QUIZ">>]
  <2> DEFINE x == sitting.at
  <2>1. stepsOf' = stepsOf BY <1>6 DEF HandIn
  <2>2. sitting \in SittingType /\ x \in Lessons \X Kinds
    BY <1>6 DEF HandIn, StudentTyped, SittingType
  <2> DEFINE new == marked(marksOf(x[1], x[2]), sitting.questions, wrong)
  <2>3. CASE marks' = marks
    BY <1>2, <2>1, <2>3
  <2>4. CASE marks' # marks
    <3>1. marks' = [marks EXCEPT ![x] = new] /\ tries' = [tries EXCEPT ![x] = @ + 1]
      BY <2>4, <1>6 DEF HandIn
    <3>2. PICK m \in Lessons, k \in Kinds : x = <<m, k>>
      BY <2>2
    <3>3. (marksOf(m, k).passed => new.passed) /\ new # None
      <4>1. marksOf(m, k) \in MarksType /\ wrong \in SUBSET Nat
        BY <3>2, <2>2, MarksOfTyped, <1>6 DEF HandIn, SittingType
      <4>2. new = marked(marksOf(m, k), sitting.questions, wrong)
        BY <3>2
      <4> HIDE DEF new
      <4> QED BY <4>1, <4>2, MarkedTyped
    <3> HIDE DEF x, new
    <3>5. marks' = [marks EXCEPT ![<<m, k>>] = new] /\ tries' = [tries EXCEPT ![<<m, k>>] = @ + 1]
      BY <3>1, <3>2
    <3>6. /\ marks'[<<m, k>>] = new /\ tries'[<<m, k>>] = tries[<<m, k>>] + 1
          /\ tries[<<m, k>>] \in Nat
          /\ \A j \in Kinds : <<l, j>> # <<m, k>> => marks'[<<l, j>>] = marks[<<l, j>>]
      BY <3>5, <3>2, <1>1 DEF StudentTyped
    <3>7. marksOf(m, k)' = new BY <3>3, <3>6 DEF marksOf
    <3>8. CASE l # m \/ k = "PRACTICE"
      <4>1. marks'[<<l, "QUIZ">>] = marks[<<l, "QUIZ">>]
        BY <3>6, <3>8, <1>0
      <4>2. marks'[<<l, "PRACTICE">>] = marks[<<l, "PRACTICE">>]
               \/ ~marksOf(l, "PRACTICE").passed \/ marksOf(l, "PRACTICE").passed'
        BY <3>6, <3>7, <3>3, <3>8, <1>0
      <4> QED BY <1>2, <2>1, <4>1, <4>2
    <3>9. CASE l = m /\ k = "QUIZ"
      <4>1. marks'[<<l, "PRACTICE">>] = marks[<<l, "PRACTICE">>] /\ (marksOf(l, "QUIZ").passed => marksOf(l, "QUIZ")'.passed)
        BY <3>3, <3>6, <3>7, <3>9, <1>0
      <4>2. \A s : s # "traphunter" =>
               /\ s \in availableStages(l)' <=> s \in availableStages(l)
               /\ s \in availableStages(l) /\ isStageCompleted(l, s) => isStageCompleted(l, s)'
        <5> SUFFICES ASSUME NEW s, s # "traphunter"
                     PROVE  /\ s \in availableStages(l)' <=> s \in availableStages(l)
                            /\ s \in availableStages(l) /\ isStageCompleted(l, s) => isStageCompleted(l, s)'
          OBVIOUS
        <5>1. s \in availableStages(l)' <=> s \in availableStages(l)
          BY DEF availableStages, offered, tasksOf
        <5>2. ASSUME s \in availableStages(l), isStageCompleted(l, s) PROVE isStageCompleted(l, s)'
          <6>0. s \in {"video", "theory", "quiz", "practice"} BY <5>2 DEF availableStages
          <6>1. CASE s \in {"video", "theory"} BY <6>1, <5>2, <2>1 DEF isStageCompleted
          <6>2. CASE s = "quiz" BY <6>2, <5>2, <4>1 DEF isStageCompleted
          <6>3. CASE s = "practice" BY <6>3, <5>2, <4>1 DEF isStageCompleted, marksOf
          <6> QED BY <6>0, <6>1, <6>2, <6>3
        <5> QED BY <5>1, <5>2
      <4>3. "traphunter" \in availableStages(l) => "quiz" \in availableStages(l)
        BY DEF availableStages
      <4>4. availableStages(l)' # {}
        BY <4>2, <4>3 DEF IsCompleted
      <4>5. openStages(l)' \subseteq {"traphunter"}
        BY <4>2 DEF IsCompleted, openStages
      <4>6. tries'[<<l, "QUIZ">>] > tries[<<l, "QUIZ">>]
        BY <3>6, <3>9
      <4> QED BY <4>4, <4>5, <4>6 DEF IsCompleted
    <3> QED BY <3>2, <3>8, <3>9 DEF Kinds
  <2> QED BY <2>3, <2>4
<1>7. ASSUME NEW r \in Authors,
             \/ \E wanted \in AuthorCalls : AskFor(r, wanted)
             \/ FindRow(r) \/ CountRows(r) \/ WriteCourse(r) \/ CreateCourse(r)
             \/ CreateLesson(r) \/ WriteLesson(r) \/ RemoveLesson(r)
             \/ SaveTask(r) \/ PublishTask(r) \/ DeleteTask(r)
      PROVE  FALSE
  <2>1. CASE RemoveLesson(r)
    <3> DEFINE m == author[r].call.lesson
    <3>1. /\ lessonRow' = [lessonRow EXCEPT ![m] = None] /\ lessonRow[m] # None
          /\ stepsOf' = [stepsOf EXCEPT ![m] = NoSteps]
      BY <2>1 DEF RemoveLesson, present
    <3> HIDE DEF m
    <3>2. CASE m \in Lessons BY <3>1, <3>2 DEF ContentTyped
    <3>3. CASE m \notin Lessons
      <4>1. stepsOf' = stepsOf BY <3>1, <3>3 DEF StudentTyped
      <4> QED BY <4>1, <2>1 DEF RemoveLesson
    <3> QED BY <3>2, <3>3
  <2>2. CASE DeleteTask(r)
    <3> DEFINE x == <<author[r].call.lesson, author[r].call.kind>>
    <3>1. /\ taskRow' = [taskRow EXCEPT ![x] = None] /\ taskRow[x] # None
          /\ marks' = [marks EXCEPT ![x] = None]
      BY <2>2 DEF DeleteTask
    <3> HIDE DEF x
    <3>2. CASE x \in Lessons \X Kinds BY <3>1, <3>2 DEF ContentTyped
    <3>3. CASE x \notin Lessons \X Kinds
      <4>1. marks' = marks BY <3>1, <3>3 DEF StudentTyped
      <4> QED BY <4>1, <2>2 DEF DeleteTask
    <3> QED BY <3>2, <3>3
  <2> QED BY <1>7, <2>1, <2>2 DEF AskFor, FindRow, CountRows, WriteCourse, CreateCourse, CreateLesson,
             WriteLesson, SaveTask, PublishTask, studentRows
<1>8. CatalogueNext BY DEF catalogueVars
<1>9. ~Pay /\ \A m \in Lessons, k \in Kinds : ~SitDown(m, k)
  BY DEF SitDown, Pay
<1>10. \A m \in Lessons : \A position \in 0 .. (IF present(m) THEN lessonRow[m].video ELSE 0) : position \in Nat
  OBVIOUS
<1>11. ASSUME NEW m \in Lessons,
              \/ \E position \in 0 .. (IF present(m) THEN lessonRow[m].video ELSE 0) : Watch(m, position)
              \/ \E how \in {"started", "done"} : ReadTheory(m, how)
              \/ \E k \in Kinds : SitDown(m, k)
              \/ \E q \in uncleared(m) : ClearTrap(m, q)
       PROVE  IsCompleted(l)'
  BY <1>11, <1>3, <1>4, <1>5, <1>9, <1>10
<1> QED BY <1>6, <1>7, <1>8, <1>9, <1>11 DEF CatalogueNext
-----------------------------------------------------------------------------
(* The authors                                                             *)

\* One request moves on to a sound row.
LEMMA AuthorsOwe ==
    ASSUME AuthorsInv, NEW r \in Authors, NEW a, AuthorSound(a),
           author' = [author EXCEPT ![r] = a]
    PROVE  AuthorsInv'
<1>1. a \in AuthorType BY DEF AuthorSound
<1>2. author' \in [Authors -> AuthorType] BY <1>1 DEF AuthorsInv
<1>3. ASSUME NEW s \in Authors
      PROVE  /\ author'[s] \in AuthorType
             /\ author'[s].pc \in {"find", "count", "write"} => author'[s].call \in AuthorCalls
             /\ author'[s].pc = "write" /\ author'[s].call.op = "create" =>
                   \A n \in author'[s].orders : n < author'[s].at
  <2>1. CASE s = r
    <3>1. author'[s] = a BY <2>1 DEF AuthorsInv
    <3> QED BY <3>1 DEF AuthorSound
  <2>2. CASE s # r
    <3>1. author'[s] = author[s] BY <2>2 DEF AuthorsInv
    <3> QED BY <3>1 DEF AuthorsInv, AuthorSound
  <2> QED BY <2>1, <2>2
<1> QED BY <1>2, <1>3 DEF AuthorsInv, AuthorSound

\* The row of a request, and what the three reading steps make of it.
LEMMA AuthorRow ==
    ASSUME NEW pc \in AuthorSteps, NEW wanted \in AuthorCalls \cup {NewAuthor.call}, NEW at \in Nat,
           NEW seen \in SUBSET Nat
    PROVE  [pc |-> pc, call |-> wanted, at |-> at, orders |-> seen] \in AuthorType
  BY DEF AuthorType

LEMMA Closed ==
    ASSUME AuthorsInv, NEW r \in Authors, NEW reply \in {"done", "refused", "failed"}, closes(r, reply)
    PROVE  AuthorsInv'
<1> DEFINE a == [NewAuthor EXCEPT !.pc = reply]
<1>1. author' = [author EXCEPT ![r] = a] BY DEF closes
<1>2. a = [pc |-> reply, call |-> NewAuthor.call, at |-> 0, orders |-> {}]
  BY DEF NewAuthor
<1>3. a \in AuthorType
  <2>1. reply \in AuthorSteps /\ {} \in SUBSET Nat BY DEF AuthorSteps
  <2> HIDE DEF a
  <2> QED BY <1>2, <2>1, AuthorRow
<1>4. a.pc \notin {"find", "count", "write"} BY <1>2
<1>5. AuthorSound(a) BY <1>3, <1>4 DEF AuthorSound
<1> HIDE DEF a
<1> QED BY <1>1, <1>5, AuthorsOwe

\* The next place lies behind all others.
LEMMA FollowingAbove ==
    ASSUME ContentTyped
    PROVE  orders \subseteq Nat /\ following(orders) \in Nat /\ \A n \in orders : n < following(orders)
<1>1. orders \subseteq Nat
  BY LessonRowTyped DEF orders, placed, present, LessonType
<1>2. CASE orders = {}
  BY <1>1, <1>2 DEF following
<1>3. CASE orders # {}
  <2> DEFINE at == [l \in placed |-> lessonRow[l].at]
  <2>1. IsFiniteSet(placed) /\ placed # {}
    BY <1>3, CatalogueAssumption, FS_Subset DEF placed, orders
  <2>2. \A l \in placed : at[l] \in Nat /\ at[l] = lessonRow[l].at
    BY <1>1 DEF orders
  <2> HIDE DEF at
  <2>3. PICK l \in placed : \A m \in placed : at[m] <= at[l]
    BY <2>1, <2>2, HighestOf
  <2>4. at[l] \in orders /\ \A n \in orders : n <= at[l]
    BY <2>2, <2>3 DEF orders
  <2> DEFINE top == CHOOSE n \in orders : \A m \in orders : m <= n
  <2>5. top \in orders /\ \A m \in orders : m <= top
    BY <2>4
  <2>6. following(orders) = 1 + top
    BY <1>3 DEF following
  <2> HIDE DEF top
  <2>7. top \in Nat BY <1>1, <2>5
  <2>8. ASSUME NEW n \in orders PROVE n < 1 + top
    <3>1. n \in Nat /\ n <= top BY <1>1, <2>5
    <3> QED BY <3>1, <2>7
  <2> QED BY <1>1, <2>6, <2>7, <2>8
<1> QED BY <1>2, <1>3

\* An author who only reads.
LEMMA AuthorsRead ==
    ASSUME ContentTyped, AuthorsInv, NEW r \in Authors,
           (\E wanted \in AuthorCalls : AskFor(r, wanted)) \/ FindRow(r) \/ CountRows(r)
    PROVE  AuthorsInv'
<1>0. /\ author[r] \in AuthorType /\ AuthorSound(author[r])
      /\ author[r].at \in Nat /\ author[r].orders \in SUBSET Nat
  BY DEF AuthorsInv, AuthorType
<1>1. ASSUME NEW wanted \in AuthorCalls, AskFor(r, wanted) PROVE AuthorsInv'
  <2> DEFINE a == [pc |-> "find", call |-> wanted, at |-> 0, orders |-> {}]
  <2>1. author' = [author EXCEPT ![r] = a] BY <1>1 DEF AskFor
  <2>2. "find" \in AuthorSteps /\ {} \in SUBSET Nat BY DEF AuthorSteps
  <2>3. a \in AuthorType BY <2>2, AuthorRow
  <2>4. AuthorSound(a) BY <2>3 DEF AuthorSound
  <2> HIDE DEF a
  <2> QED BY <2>1, <2>4, AuthorsOwe
<1>2. ASSUME FindRow(r) PROVE AuthorsInv'
  <2> DEFINE wanted == author[r].call
             ofTask == wanted.op \in {"save", "publishTask", "unpublishTask", "deleteTask"}
             pc == IF wanted.op \in {"create", "removeLesson", "removeCourse", "deleteTask"}
                   THEN "count" ELSE "write"
             at == IF ofTask /\ taskOfCall(r) # None THEN taskOfCall(r).id ELSE 0
             a == [pc |-> pc, call |-> wanted, at |-> at, orders |-> {}]
  <2>1. closes(r, "refused") \/ author' = [author EXCEPT ![r] = a] BY <1>2 DEF FindRow
  <2>2. wanted \in AuthorCalls BY <1>0, <1>2 DEF FindRow, AuthorSound
  <2>3. at \in Nat
    <3>1. taskOfCall(r) # None => taskOfCall(r) \in TaskType
      BY <2>2, CatalogueAssumption DEF taskOfCall, ContentTyped
    <3> QED BY <3>1 DEF TaskType
  <2>4. pc \in {"count", "write"} /\ pc \in AuthorSteps /\ (pc = "write" => wanted.op # "create")
    BY DEF AuthorSteps
  <2> HIDE DEF pc, at, wanted
  <2>5. {} \in SUBSET Nat OBVIOUS
  <2>6. a \in AuthorType BY <2>2, <2>3, <2>4, <2>5, AuthorRow
  <2>7. AuthorSound(a) BY <2>2, <2>4, <2>6 DEF AuthorSound
  <2> HIDE DEF a
  <2> QED BY <2>1, <2>7, AuthorsOwe, Closed
<1>3. ASSUME CountRows(r) PROVE AuthorsInv'
  <2> DEFINE wanted == author[r].call
             at == IF wanted.op = "create" THEN following(orders) ELSE author[r].at
             a == [pc |-> "write", call |-> wanted, at |-> at, orders |-> orders]
  <2>1. closes(r, "refused") \/ author' = [author EXCEPT ![r] = a]
    BY <1>3 DEF CountRows
  <2>2. wanted \in AuthorCalls BY <1>0, <1>3 DEF CountRows, AuthorSound
  <2>3. at \in Nat /\ orders \in SUBSET Nat
    BY <1>0, FollowingAbove
  <2>4. wanted.op = "create" => \A n \in orders : n < at
    BY FollowingAbove
  <2> HIDE DEF at, wanted
  <2>6. a \in AuthorType
    <3>1. "write" \in AuthorSteps BY DEF AuthorSteps
    <3> QED BY <3>1, <2>2, <2>3, AuthorRow
  <2>7. AuthorSound(a) BY <2>2, <2>4, <2>6 DEF AuthorSound
  <2> HIDE DEF a
  <2> QED BY <2>1, <2>7, AuthorsOwe, Closed
<1> QED BY <1>1, <1>2, <1>3
\* A request that was made is about a lesson and a kind of task.
LEMMA CallOf ==
    ASSUME AuthorsInv, NEW r \in Authors, author[r].pc \in {"find", "count", "write"}
    PROVE  /\ author[r].call \in AuthorCalls
           /\ author[r].call.lesson \in Lessons /\ author[r].call.kind \in Kinds
<1>1. author[r].call \in AuthorCalls BY DEF AuthorsInv, AuthorSound
<1> QED BY <1>1, CatalogueAssumption

\* What a step leaves alone.
LEMMA RowsSame ==
    ASSUME ContentTyped, PlacesInv, UNCHANGED <<course, lessonRow, taskRow, nextId, loose>>
    PROVE  ContentTyped' /\ PlacesInv'
<1>1. ContentTyped' BY DEF ContentTyped
<1>2. placed' = placed BY DEF placed, present
<1>3. PlacesInv' BY <1>2 DEF PlacesInv
<1> QED BY <1>1, <1>3

LEMMA PlacesSame ==
    ASSUME PlacesInv, UNCHANGED <<lessonRow, loose>>
    PROVE  PlacesInv' /\ placed' = placed
<1>1. placed' = placed BY DEF placed, present
<1> QED BY <1>1 DEF PlacesInv

LEMMA StudentSame ==
    ASSUME StudentTyped, UNCHANGED <<stepsOf, marks, tries, sitting>>
    PROVE  StudentTyped'
  BY DEF StudentTyped

\* KeptInv, row by row.
KeptAt(l, k) ==
    /\ tries[<<l, k>>] > 0 => taskRow[<<l, k>>] # None /\ marks[<<l, k>>] # None
    /\ marks[<<l, k>>] # None => marks[<<l, k>>].attempts = tries[<<l, k>>]
    /\ taskRow[<<l, k>>] # None => present(l) /\ course # None

LEMMA KeptRows == KeptInv <=> /\ \A l \in Lessons, k \in Kinds : KeptAt(l, k)
                              /\ \A l \in Lessons : present(l) => course # None
  BY DEF KeptInv, WorkKept, KeptAt

LEMMA KeptNext ==
    ASSUME \A l \in Lessons, k \in Kinds : KeptAt(l, k)',
           \A l \in Lessons : lessonRow'[l] # None => course' # None
    PROVE  KeptInv'
  BY DEF KeptInv, WorkKept, KeptAt, present

LEMMA KeptSame ==
    ASSUME KeptInv, UNCHANGED <<taskRow, marks, tries>>,
           \A l \in Lessons : lessonRow[l] # None => lessonRow'[l] # None,
           \A l \in Lessons : lessonRow'[l] # None => course' # None,
           course # None => course' # None
    PROVE  KeptInv'
<1>1. ASSUME NEW l \in Lessons, NEW k \in Kinds PROVE KeptAt(l, k)'
  BY KeptRows DEF KeptAt, present
<1> QED BY <1>1, KeptNext

-----------------------------------------------------------------------------
(* The steps, one lemma each                                               *)

LEMMA AuthorReadStep ==
    ASSUME CatalogueInv, NEW r \in Authors,
           (\E wanted \in AuthorCalls : AskFor(r, wanted)) \/ FindRow(r) \/ CountRows(r)
    PROVE  CatalogueInv'
<1> USE DEF CatalogueInv
<1>1. AuthorsInv' BY AuthorsRead
<1>2. UNCHANGED <<contentRows, studentRows>> BY DEF AskFor, FindRow, CountRows
<1>3. UNCHANGED <<course, lessonRow, taskRow, nextId, loose, stepsOf, marks, tries, sitting>>
  BY <1>2 DEF contentRows, studentRows
<1>4. ContentTyped' /\ PlacesInv' /\ StudentTyped' BY <1>3, RowsSame, StudentSame
<1>5. KeptInv' BY <1>3, KeptSame, KeptRows DEF present
<1> QED BY <1>1, <1>4, <1>5

LEMMA CourseStep ==
    ASSUME CatalogueInv, NEW r \in Authors, WriteCourse(r) \/ CreateCourse(r)
    PROVE  CatalogueInv'
<1> USE DEF CatalogueInv
<1>1. /\ UNCHANGED <<lessonRow, taskRow, nextId, loose>> /\ UNCHANGED studentRows
      /\ course' \in {"draft", "published", None}
      /\ course' = None => course = None \/ placed = {}
  <2>1. CASE CreateCourse(r) BY <2>1 DEF CreateCourse
  <2>2. CASE WriteCourse(r)
    <3>1. CASE UNCHANGED course BY <2>2, <3>1 DEF WriteCourse, ContentTyped
    <3>2. CASE /\ course' = CASE author[r].call.op = "publishCourse" -> "published"
                              [] author[r].call.op = "unpublishCourse" -> "draft"
                              [] author[r].call.op = "removeCourse" -> None
               /\ author[r].call.op \in {"publishCourse", "unpublishCourse", "removeCourse"}
               /\ ~(author[r].call.op = "removeCourse" /\ placed # {})
      <4>1. UNCHANGED <<lessonRow, taskRow, nextId, loose>> /\ UNCHANGED studentRows
        BY <2>2 DEF WriteCourse
      <4>2. CASE author[r].call.op = "publishCourse" BY <4>1, <4>2, <3>2, NotNone
      <4>3. CASE author[r].call.op = "unpublishCourse" BY <4>1, <4>3, <3>2, NotNone
      <4>4. CASE author[r].call.op = "removeCourse" BY <4>1, <4>4, <3>2
      <4> QED BY <3>2, <4>2, <4>3, <4>4
    <3> QED BY <2>2, <3>1, <3>2 DEF WriteCourse
  <2> QED BY <2>1, <2>2
<1>2. UNCHANGED <<stepsOf, marks, tries, sitting>> BY <1>1 DEF studentRows
<1>3. ContentTyped' BY <1>1 DEF ContentTyped
<1>4. PlacesInv' /\ StudentTyped' BY <1>1, <1>2, PlacesSame, StudentSame
<1>5. AuthorsInv'
  BY Closed DEF WriteCourse, CreateCourse
<1>6. \A l \in Lessons : lessonRow'[l] # None => course' # None
  BY <1>1, KeptRows DEF placed, present
<1>7. KeptInv'
  <2>1. ASSUME NEW l \in Lessons, NEW k \in Kinds PROVE KeptAt(l, k)'
    BY <1>1, <1>2, <1>6, KeptRows DEF KeptAt, present
  <2> QED BY <2>1, <1>6, KeptNext
<1> QED BY <1>3, <1>4, <1>5, <1>7
\* The row of a new lesson, and an edited one.
LEMMA DraftRow ==
    ASSUME NEW at \in Nat
    PROVE  /\ [at |-> at, on |-> FALSE, video |-> 0, minutes |-> 0, audio |-> FALSE, notes |-> None] \in LessonType
           /\ [at |-> at, on |-> FALSE, video |-> 0, minutes |-> 0, audio |-> FALSE, notes |-> None] # None
<1> DEFINE row == [at |-> at, on |-> FALSE, video |-> 0, minutes |-> 0, audio |-> FALSE, notes |-> None]
<1>1. row \in LessonType BY DEF LessonType
<1> HIDE DEF row
<1> QED BY <1>1, NotNone DEF row

LEMMA CreateLessonStep ==
    ASSUME CatalogueInv, NEW r \in Authors, CreateLesson(r)
    PROVE  CatalogueInv'
<1> USE DEF CatalogueInv
<1>1. /\ UNCHANGED <<course, taskRow, nextId, stepsOf, marks, tries, sitting>>
      /\ closes(r, "failed") \/ closes(r, "done")
  BY DEF CreateLesson, studentRows
<1>2. AuthorsInv' BY <1>1, Closed
<1>3. StudentTyped' BY <1>1, StudentSame
<1>4. CASE UNCHANGED <<lessonRow, loose>>
  <2>1. ContentTyped' /\ PlacesInv' BY <1>1, <1>4, RowsSame
  <2>2. KeptInv' BY <1>1, <1>4, KeptSame, KeptRows DEF present
  <2> QED BY <1>2, <1>3, <2>1, <2>2
<1>5. CASE ~UNCHANGED <<lessonRow, loose>>
  <2> DEFINE at == author[r].at
             row == [at |-> at, on |-> FALSE, video |-> 0, minutes |-> 0, audio |-> FALSE, notes |-> None]
  <2>1. course # None BY <1>5 DEF CreateLesson
  <2>2. PICK l \in Lessons \ placed :
          /\ lessonRow' = [lessonRow EXCEPT ![l] = row]
          /\ loose' = IF orders = author[r].orders THEN loose ELSE loose \cup {l}
    BY <1>5 DEF CreateLesson
  <2>3. at \in Nat /\ \A n \in author[r].orders : n < at
    BY DEF CreateLesson, asksFor, AuthorsInv, AuthorSound, AuthorType
  <2>4. row \in LessonType /\ row # None /\ row.at = at
    BY <2>3, DraftRow
  <2> HIDE DEF row, at
  <2>5. lessonRow' \in [Lessons -> LessonType \cup {None}]
    BY <2>2, <2>4 DEF ContentTyped
  <2>6. ContentTyped' BY <1>1, <2>5 DEF ContentTyped
  <2>7. lessonRow'[l] = row /\ \A m \in Lessons : m # l => lessonRow'[m] = lessonRow[m]
    BY <2>2 DEF ContentTyped
  <2>8. KeptInv' BY <1>1, <2>1, <2>4, <2>7, KeptSame DEF present
  <2>9. placed' = placed \cup {l}
    BY <2>2, <2>4, <2>7 DEF placed, present
  <2>10. ASSUME orders = author[r].orders, NEW m \in placed PROVE lessonRow[m].at # at
    <3>1. lessonRow[m].at \in author[r].orders BY <2>10 DEF orders
    <3>2. lessonRow[m].at \in Nat BY LessonRowTyped DEF placed, present, LessonType
    <3> QED BY <3>1, <3>2, <2>3
  <2>11. ASSUME NEW m \in placed', NEW n \in placed', m # n, lessonRow'[m].at = lessonRow'[n].at
         PROVE  {m, n} \cap loose' # {}
    <3>1. m \in Lessons /\ n \in Lessons BY <2>9 DEF placed
    <3>2. CASE m # l /\ n # l
      <4>1. m \in placed /\ n \in placed /\ lessonRow[m].at = lessonRow[n].at
        BY <2>7, <2>9, <2>11, <3>1, <3>2
      <4>2. {m, n} \cap loose # {} BY <4>1, <2>11 DEF PlacesInv
      <4> QED BY <4>2, <2>2
    <3>3. CASE m = l \/ n = l
      <4>1. orders # author[r].orders
        BY <2>7, <2>9, <2>10, <2>11, <2>4, <3>1, <3>3
      <4> QED BY <4>1, <2>2, <3>3
    <3> QED BY <3>2, <3>3
  <2>12. PlacesInv' BY <2>11 DEF PlacesInv
  <2> QED BY <1>2, <1>3, <2>6, <2>8, <2>12
<1> QED BY <1>4, <1>5

LEMMA EditedTyped ==
    ASSUME NEW row \in LessonType, NEW change, DOMAIN change \subseteq {"video", "minutes", "audio", "notes"},
           "video" \in DOMAIN change => change.video \in Nat,
           "minutes" \in DOMAIN change => change.minutes \in Nat,
           "audio" \in DOMAIN change => change.audio \in BOOLEAN,
           "notes" \in DOMAIN change => change.notes \in {None, "heading", "text"}
    PROVE  edited(row, change) \in LessonType /\ edited(row, change).at = row.at
<1> DEFINE video == IF "video" \in DOMAIN change THEN change.video ELSE row.video
           minutes == IF "minutes" \in DOMAIN change THEN change.minutes ELSE row.minutes
           audio == IF "audio" \in DOMAIN change THEN change.audio ELSE row.audio
           notes == IF "notes" \in DOMAIN change THEN change.notes ELSE row.notes
           new == [at |-> row.at, on |-> row.on, video |-> video, minutes |-> minutes,
                   audio |-> audio, notes |-> notes]
<1>1. /\ row.at \in Nat /\ row.on \in BOOLEAN /\ video \in Nat /\ minutes \in Nat
      /\ audio \in BOOLEAN /\ notes \in {None, "heading", "text"}
  BY DEF LessonType
<1>2. edited(row, change) = new
  BY DEF edited, LessonType
<1> HIDE DEF video, minutes, audio, notes
<1>3. new \in LessonType /\ new.at = row.at BY <1>1 DEF LessonType
<1> QED BY <1>2, <1>3

LEMMA WriteLessonStep ==
    ASSUME CatalogueInv, NEW r \in Authors, WriteLesson(r)
    PROVE  CatalogueInv'
<1> USE DEF CatalogueInv
<1>1. /\ UNCHANGED <<course, taskRow, nextId, loose, stepsOf, marks, tries, sitting>>
      /\ closes(r, "failed") \/ closes(r, "done")
  BY DEF WriteLesson, studentRows
<1>2. AuthorsInv' BY <1>1, Closed
<1>3. StudentTyped' BY <1>1, StudentSame
<1>4. CASE UNCHANGED lessonRow
  <2>1. ContentTyped' /\ PlacesInv' BY <1>1, <1>4, RowsSame
  <2>2. KeptInv' BY <1>1, <1>4, KeptSame, KeptRows DEF present
  <2> QED BY <1>2, <1>3, <2>1, <2>2
<1>5. CASE ~UNCHANGED lessonRow
  <2> DEFINE wanted == author[r].call
             l == wanted.lesson
             row == lessonRow[l]
             new == IF wanted.op = "edit" THEN edited(row, wanted.change)
                    ELSE [row EXCEPT !.on = wanted.op = "publishLesson"]
  <2>1. present(l) /\ lessonRow' = [lessonRow EXCEPT ![l] = new]
    BY <1>5 DEF WriteLesson
  <2>2. wanted \in AuthorCalls /\ l \in Lessons
    BY CallOf DEF WriteLesson
  <2>3. row \in LessonType BY <2>1, <2>2, LessonRowTyped DEF present
  <2>4. new \in LessonType /\ new.at = row.at
    <3>1. CASE wanted.op = "edit"
      <4>1. /\ DOMAIN wanted.change \subseteq {"video", "minutes", "audio", "notes"}
            /\ "video" \in DOMAIN wanted.change => wanted.change.video \in Nat
            /\ "minutes" \in DOMAIN wanted.change => wanted.change.minutes \in Nat
            /\ "audio" \in DOMAIN wanted.change => wanted.change.audio \in BOOLEAN
            /\ "notes" \in DOMAIN wanted.change => wanted.change.notes \in {None, "heading", "text"}
        BY <2>2, <3>1, CatalogueAssumption
      <4> HIDE DEF wanted, row
      <4> QED BY <4>1, <2>3, <3>1, EditedTyped
    <3>2. CASE wanted.op # "edit"
      <4> DEFINE on == wanted.op = "publishLesson"
      <4>1. new = [row EXCEPT !.on = on] /\ on \in BOOLEAN BY <3>2
      <4> HIDE DEF on, new, row
      <4> QED BY <4>1, <2>3 DEF LessonType
    <3> QED BY <3>1, <3>2
  <2>5. new # None BY <2>4, NotNone
  <2>6. lessonRow[l].at = row.at /\ lessonRow[l] # None BY <2>1 DEF present
  <2> HIDE DEF new, row, l, wanted
  <2>7. /\ lessonRow' \in [Lessons -> LessonType \cup {None}]
        /\ lessonRow'[l] = new /\ \A m \in Lessons : m # l => lessonRow'[m] = lessonRow[m]
    BY <2>1, <2>2, <2>4 DEF ContentTyped
  <2>8. ContentTyped' BY <1>1, <2>7 DEF ContentTyped
  <2>9. \A m \in Lessons : (lessonRow'[m] # None <=> lessonRow[m] # None)
                           /\ lessonRow'[m].at = lessonRow[m].at
    BY <2>4, <2>5, <2>6, <2>7
  <2>10. placed' = placed BY <2>9 DEF placed, present
  <2>11. PlacesInv' BY <1>1, <2>9, <2>10 DEF PlacesInv, placed
  <2>12. KeptInv' BY <1>1, <2>9, KeptSame, KeptRows DEF present
  <2> QED BY <1>2, <1>3, <2>8, <2>11, <2>12
<1> QED BY <1>4, <1>5

LEMMA RemoveLessonStep ==
    ASSUME CatalogueInv, NEW r \in Authors, RemoveLesson(r)
    PROVE  CatalogueInv'
<1> USE DEF CatalogueInv
<1>1. /\ UNCHANGED <<course, taskRow, nextId, marks, tries, sitting>>
      /\ closes(r, "refused") \/ closes(r, "done")
  BY DEF RemoveLesson
<1>2. AuthorsInv' BY <1>1, Closed
<1>4. CASE UNCHANGED <<lessonRow, stepsOf, loose>>
  <2>1. ContentTyped' /\ PlacesInv' /\ StudentTyped' BY <1>1, <1>4, RowsSame, StudentSame
  <2>2. KeptInv' BY <1>1, <1>4, KeptSame, KeptRows DEF present
  <2> QED BY <1>2, <2>1, <2>2
<1>5. CASE ~UNCHANGED <<lessonRow, stepsOf, loose>>
  <2> DEFINE l == author[r].call.lesson
  <2>1. /\ tasksOf(l) = {} /\ lessonRow' = [lessonRow EXCEPT ![l] = None]
        /\ stepsOf' = [stepsOf EXCEPT ![l] = NoSteps] /\ loose' = loose \ {l}
    BY <1>5 DEF RemoveLesson
  <2>2. l \in Lessons BY CallOf DEF RemoveLesson, asksFor
  <2> HIDE DEF l
  <2>3. /\ lessonRow' \in [Lessons -> LessonType \cup {None}]
        /\ lessonRow'[l] = None /\ \A m \in Lessons : m # l => lessonRow'[m] = lessonRow[m]
    BY <2>1, <2>2 DEF ContentTyped
  <2>4. ContentTyped' BY <1>1, <2>3 DEF ContentTyped
  <2>5. NoSteps \in StepsType BY DEF NoSteps, StepsType
  <2>6. StudentTyped' BY <1>1, <2>1, <2>5 DEF StudentTyped
  <2>7. placed' = placed \ {l} BY <2>2, <2>3 DEF placed, present
  <2>8. ASSUME NEW m \in placed', NEW n \in placed', m # n, lessonRow'[m].at = lessonRow'[n].at
        PROVE  {m, n} \cap loose' # {}
    <3>1. m \in placed /\ n \in placed /\ m # l /\ n # l BY <2>7
    <3>2. lessonRow[m].at = lessonRow[n].at BY <2>3, <2>8, <3>1 DEF placed
    <3>3. {m, n} \cap loose # {} BY <2>8, <3>1, <3>2 DEF PlacesInv
    <3> QED BY <3>1, <3>3, <2>1
  <2>9. PlacesInv' BY <2>8 DEF PlacesInv
  <2>10. \A k \in Kinds : taskRow[<<l, k>>] = None BY <2>1 DEF tasksOf
  <2>11. \A m \in Lessons : lessonRow'[m] # None => lessonRow[m] # None BY <2>3
  <2>12. ASSUME NEW m \in Lessons, NEW k \in Kinds PROVE KeptAt(m, k)'
    <3>1. KeptAt(m, k) BY KeptRows
    <3>2. m = l \/ lessonRow'[m] = lessonRow[m] BY <2>3
    <3> QED BY <3>1, <3>2, <1>1, <2>10 DEF KeptAt, present
  <2>13. KeptInv' BY <1>1, <2>11, <2>12, KeptNext, KeptRows DEF present
  <2> QED BY <1>2, <2>4, <2>6, <2>9, <2>13
<1> QED BY <1>4, <1>5
LEMMA SaveStep ==
    ASSUME CatalogueInv, NEW r \in Authors, SaveTask(r)
    PROVE  CatalogueInv'
<1> USE DEF CatalogueInv
<1>1. /\ UNCHANGED <<course, lessonRow, loose, stepsOf, marks, tries, sitting>>
      /\ closes(r, "failed") \/ closes(r, "done")
  BY DEF SaveTask, studentRows
<1>2. AuthorsInv' BY <1>1, Closed
<1>3. StudentTyped' /\ PlacesInv' BY <1>1, StudentSame, PlacesSame
<1>4. CASE UNCHANGED <<taskRow, nextId>>
  <2>1. ContentTyped' BY <1>1, <1>4, RowsSame
  <2>2. KeptInv' BY <1>1, <1>4, KeptSame, KeptRows DEF present
  <2> QED BY <1>2, <1>3, <2>1, <2>2
<1>5. CASE ~UNCHANGED <<taskRow, nextId>>
  <2> DEFINE wanted == author[r].call
             x == <<wanted.lesson, wanted.kind>>
             row == taskRow[x]
             old == IF row = None THEN {} ELSE row.questions
             id == IF row = None THEN nextId ELSE row.id
             first == IF row = None THEN nextId + 1 ELSE nextId
             new == Cardinality(wanted.keep \ old) + wanted.more
             on == row # None /\ row.on
             askedFor == (old \cap wanted.keep) \cup (first .. first + new - 1)
             task == [id |-> id, on |-> on, questions |-> askedFor]
  <2>1. /\ present(wanted.lesson) /\ taskRow' = [taskRow EXCEPT ![x] = task]
        /\ nextId' = first + new
    BY <1>5 DEF SaveTask
  <2>2. wanted \in AuthorCalls /\ wanted.op = "save" /\ wanted.lesson \in Lessons /\ wanted.kind \in Kinds
    BY CallOf DEF SaveTask, asksFor
  <2>3. wanted.keep \in SUBSET Nat /\ IsFiniteSet(wanted.keep) /\ wanted.more \in Nat
    BY <2>2, CatalogueAssumption
  <2>4. row # None => row \in TaskType
    BY <2>2, LessonRowTyped
  <2>5. /\ new \in Nat
    <3>1. IsFiniteSet(wanted.keep \ old) BY <2>3, FS_Subset
    <3>2. Cardinality(wanted.keep \ old) \in Nat BY <3>1, FS_CardinalityType
    <3> QED BY <2>3, <3>2
  <2>6. nextId \in Nat BY DEF ContentTyped
  <2>7. id \in Nat /\ first \in Nat /\ old \in SUBSET Nat
    BY <2>4, <2>6 DEF TaskType
  <2>8. on \in BOOLEAN OBVIOUS
  <2>9. first + new \in Nat /\ askedFor \in SUBSET Nat
    <3> HIDE DEF first, new, old, wanted
    <3>1. first .. first + new - 1 \subseteq Nat BY <2>5, <2>7
    <3> QED BY <2>3, <2>5, <2>7, <3>1
  <2> HIDE DEF on, askedFor, id, first, new, old, row
  <2>10. task \in TaskType BY <2>7, <2>8, <2>9 DEF TaskType
  <2>11. task # None BY <2>10, NotNone
  <2>12. x \in Lessons \X Kinds BY <2>2
  <2> HIDE DEF task, x
  <2>13. /\ taskRow' \in [Lessons \X Kinds -> TaskType \cup {None}]
         /\ taskRow'[x] = task /\ \A y \in Lessons \X Kinds : y # x => taskRow'[y] = taskRow[y]
    BY <2>1, <2>10, <2>12 DEF ContentTyped
  <2>14. ContentTyped' BY <1>1, <2>1, <2>9, <2>13 DEF ContentTyped
  <2>15. course # None /\ \A l \in Lessons : present(l)' <=> present(l)
    BY <1>1, <2>1, <2>2, KeptRows DEF present
  <2>16. ASSUME NEW l \in Lessons, NEW k \in Kinds PROVE KeptAt(l, k)'
    <3>1. KeptAt(l, k) BY KeptRows
    <3>2. CASE <<l, k>> # x
      <4>1. taskRow'[<<l, k>>] = taskRow[<<l, k>>] BY <2>13, <3>2
      <4> QED BY <3>1, <4>1, <1>1, <2>15 DEF KeptAt
    <3>3. CASE <<l, k>> = x
      <4>1. l = wanted.lesson BY <3>3 DEF x
      <4>2. taskRow'[<<l, k>>] # None BY <2>11, <2>13, <3>3
      <4> QED BY <3>1, <4>1, <4>2, <1>1, <2>1, <2>15 DEF KeptAt
    <3> QED BY <3>2, <3>3
  <2>17. KeptInv' BY <1>1, <2>15, <2>16, KeptNext
  <2> QED BY <1>2, <1>3, <2>14, <2>17
<1> QED BY <1>4, <1>5

LEMMA PublishStep ==
    ASSUME CatalogueInv, NEW r \in Authors, PublishTask(r)
    PROVE  CatalogueInv'
<1> USE DEF CatalogueInv
<1>1. /\ UNCHANGED <<course, lessonRow, nextId, loose, stepsOf, marks, tries, sitting>>
      /\ closes(r, "failed") \/ closes(r, "done")
  BY DEF PublishTask, studentRows
<1>2. AuthorsInv' BY <1>1, Closed
<1>3. StudentTyped' /\ PlacesInv' BY <1>1, StudentSame, PlacesSame
<1>4. CASE UNCHANGED taskRow
  <2>1. ContentTyped' BY <1>1, <1>4, RowsSame
  <2>2. KeptInv' BY <1>1, <1>4, KeptSame, KeptRows DEF present
  <2> QED BY <1>2, <1>3, <2>1, <2>2
<1>5. CASE ~UNCHANGED taskRow
  <2> DEFINE x == <<author[r].call.lesson, author[r].call.kind>>
             on == author[r].call.op = "publishTask"
             task == [taskRow[x] EXCEPT !.on = on]
  <2>1. taskRow[x] # None /\ taskRow' = [taskRow EXCEPT ![x] = task]
    BY <1>5 DEF PublishTask
  <2>2. x \in Lessons \X Kinds BY CallOf DEF PublishTask, asksFor
  <2>3. taskRow[x] \in TaskType BY <2>1, <2>2 DEF ContentTyped
  <2>4. on \in BOOLEAN OBVIOUS
  <2> HIDE DEF on
  <2>5. task \in TaskType BY <2>3, <2>4 DEF TaskType
  <2>6. task # None BY <2>5, NotNone
  <2> HIDE DEF task, x
  <2>7. /\ taskRow' \in [Lessons \X Kinds -> TaskType \cup {None}]
        /\ \A y \in Lessons \X Kinds : taskRow'[y] # None <=> taskRow[y] # None
    BY <2>1, <2>2, <2>5, <2>6 DEF ContentTyped
  <2>8. ContentTyped' BY <1>1, <2>7 DEF ContentTyped
  <2>9. ASSUME NEW l \in Lessons, NEW k \in Kinds PROVE KeptAt(l, k)'
    <3>1. KeptAt(l, k) BY KeptRows
    <3>2. <<l, k>> \in Lessons \X Kinds OBVIOUS
    <3> QED BY <3>1, <3>2, <1>1, <2>7 DEF KeptAt, present
  <2>10. KeptInv' BY <1>1, <2>9, KeptNext, KeptRows DEF present
  <2> QED BY <1>2, <1>3, <2>8, <2>10
<1> QED BY <1>4, <1>5

LEMMA DeleteStep ==
    ASSUME CatalogueInv, NEW r \in Authors, DeleteTask(r)
    PROVE  CatalogueInv'
<1> USE DEF CatalogueInv
<1>1. /\ UNCHANGED <<course, lessonRow, nextId, loose, stepsOf, tries, sitting>>
      /\ closes(r, "failed") \/ closes(r, "done")
  BY DEF DeleteTask
<1>2. AuthorsInv' BY <1>1, Closed
<1>3. PlacesInv' BY <1>1, PlacesSame
<1>4. CASE UNCHANGED <<taskRow, marks>>
  <2>1. ContentTyped' /\ StudentTyped' BY <1>1, <1>4, RowsSame, StudentSame
  <2>2. KeptInv' BY <1>1, <1>4, KeptSame, KeptRows DEF present
  <2> QED BY <1>2, <1>3, <2>1, <2>2
<1>5. CASE ~UNCHANGED <<taskRow, marks>>
  <2> DEFINE x == <<author[r].call.lesson, author[r].call.kind>>
  <2>1. /\ ~(tries[x] > 0) /\ taskRow' = [taskRow EXCEPT ![x] = None]
        /\ marks' = [marks EXCEPT ![x] = None]
    BY <1>5 DEF DeleteTask
  <2>2. x \in Lessons \X Kinds BY CallOf DEF DeleteTask, asksFor
  <2> HIDE DEF x
  <2>3. ContentTyped' BY <1>1, <2>1 DEF ContentTyped
  <2>4. StudentTyped' BY <1>1, <2>1 DEF StudentTyped
  <2>5. ASSUME NEW l \in Lessons, NEW k \in Kinds PROVE KeptAt(l, k)'
    <3>1. KeptAt(l, k) BY KeptRows
    <3>2. CASE <<l, k>> = x
      <4>1. taskRow'[<<l, k>>] = None /\ marks'[<<l, k>>] = None
        BY <2>1, <2>2, <3>2 DEF ContentTyped, StudentTyped
      <4> QED BY <4>1, <2>1, <3>2, <1>1 DEF KeptAt
    <3>3. CASE <<l, k>> # x
      <4>1. taskRow'[<<l, k>>] = taskRow[<<l, k>>] /\ marks'[<<l, k>>] = marks[<<l, k>>]
        BY <2>1, <3>3 DEF ContentTyped, StudentTyped
      <4> QED BY <3>1, <4>1, <1>1 DEF KeptAt, present
    <3> QED BY <3>2, <3>3
  <2>6. KeptInv' BY <1>1, <2>5, KeptNext, KeptRows DEF present
  <2> QED BY <1>2, <1>3, <2>3, <2>4, <2>6
<1> QED BY <1>4, <1>5
\* The student touches neither the content nor the authors.
LEMMA ContentSame ==
    ASSUME CatalogueInv, authorsRest
    PROVE  /\ ContentTyped' /\ AuthorsInv' /\ PlacesInv'
           /\ UNCHANGED <<course, lessonRow, taskRow>>
<1> USE DEF CatalogueInv
<1>1. UNCHANGED <<course, lessonRow, taskRow, nextId, loose>> /\ author' = author
  BY DEF authorsRest, contentRows
<1>2. ContentTyped' /\ PlacesInv' BY <1>1, RowsSame
<1>3. AuthorsInv' BY <1>1 DEF AuthorsInv, AuthorSound
<1> QED BY <1>1, <1>2, <1>3

LEMMA StudyStep ==
    ASSUME CatalogueInv, NEW l \in Lessons,
           \/ \E position \in Nat : Watch(l, position)
           \/ \E how \in {"started", "done"} : ReadTheory(l, how)
    PROVE  CatalogueInv'
<1> USE DEF CatalogueInv
<1>1. authorsRest /\ UNCHANGED <<marks, tries, sitting>> BY DEF Watch, ReadTheory
<1>2. ContentTyped' /\ AuthorsInv' /\ PlacesInv' /\ UNCHANGED <<course, lessonRow, taskRow>>
  BY <1>1, ContentSame
<1>3. KeptInv' BY <1>1, <1>2, KeptSame, KeptRows DEF present
<1>4. stepsOf \in [Lessons -> StepsType] BY DEF StudentTyped
<1>5. stepsOf[l] \in StepsType BY <1>4
<1>6. ASSUME NEW position \in Nat, Watch(l, position) PROVE stepsOf' \in [Lessons -> StepsType]
  <2> DEFINE new == watchedTo(l, position)
  <2>1. stepsOf' = [stepsOf EXCEPT ![l].video = new]
    BY <1>6, WatchWrites
  <2>3. new \in WatchedType BY <1>6, WatchWrites, WatchedOnward
  <2> HIDE DEF new
  <2>4. [stepsOf[l] EXCEPT !.video = new] \in StepsType BY <1>5, <2>3 DEF StepsType
  <2> QED BY <1>4, <2>1, <2>4
<1>7. ASSUME NEW how \in {"started", "done"}, ReadTheory(l, how) PROVE stepsOf' \in [Lessons -> StepsType]
  <2> DEFINE new == IF stepsOf[l].theory = "done" THEN "done" ELSE how
  <2>1. stepsOf' = [stepsOf EXCEPT ![l].theory = new]
    BY <1>7 DEF ReadTheory
  <2>2. new \in {"none", "started", "done"} OBVIOUS
  <2> HIDE DEF new
  <2>3. [stepsOf[l] EXCEPT !.theory = new] \in StepsType BY <1>5, <2>2 DEF StepsType
  <2> QED BY <1>4, <2>1, <2>3
<1>8. StudentTyped' BY <1>1, <1>6, <1>7 DEF StudentTyped
<1> QED BY <1>2, <1>3, <1>8

LEMMA SitDownStep ==
    ASSUME CatalogueInv, NEW l \in Lessons, NEW k \in Kinds, SitDown(l, k)
    PROVE  CatalogueInv'
<1> USE DEF CatalogueInv
<1>1. authorsRest /\ UNCHANGED <<stepsOf, marks, tries>> BY DEF SitDown
<1>2. ContentTyped' /\ AuthorsInv' /\ PlacesInv' /\ UNCHANGED <<course, lessonRow, taskRow>>
  BY <1>1, ContentSame
<1>3. KeptInv' BY <1>1, <1>2, KeptSame, KeptRows DEF present
<1>4. taskRow[<<l, k>>] \in TaskType
  BY LessonRowTyped DEF SitDown, offered, tasksOf
<1>5. sitting' \in SittingType BY <1>4 DEF SitDown, SittingType, TaskType
<1>6. StudentTyped' BY <1>1, <1>5 DEF StudentTyped
<1> QED BY <1>2, <1>3, <1>6

LEMMA ClearStep ==
    ASSUME CatalogueInv, NEW l \in Lessons, NEW q \in uncleared(l), ClearTrap(l, q)
    PROVE  CatalogueInv'
<1> USE DEF CatalogueInv
<1>1. authorsRest /\ UNCHANGED <<stepsOf, tries, sitting>> BY DEF ClearTrap
<1>2. ContentTyped' /\ AuthorsInv' /\ PlacesInv' /\ UNCHANGED <<course, lessonRow, taskRow>>
  BY <1>1, ContentSame
<1> DEFINE x == <<l, "QUIZ">>
           clear == marks[x].cleared \cup {q}
           new == [marks[x] EXCEPT !.cleared = clear]
<1>3. x \in Lessons \X Kinds BY DEF Kinds
<1>4. q \in marksOf(l, "QUIZ").wrong BY DEF uncleared, traps
<1>5. marks[x] # None
  <2> SUFFICES ASSUME marks[x] = None PROVE FALSE OBVIOUS
  <2>1. marksOf(l, "QUIZ").wrong = {} BY DEF marksOf, NewMarks
  <2> QED BY <1>4, <2>1
<1>6. marks[x] \in MarksType BY <1>3, <1>5 DEF StudentTyped
<1>7. q \in Nat /\ clear \in SUBSET Nat
  <2>1. q \in marks[x].wrong BY <1>4, <1>5 DEF marksOf
  <2> QED BY <1>6, <2>1 DEF MarksType
<1>8. marks' = [marks EXCEPT ![x] = new] BY DEF ClearTrap
<1> HIDE DEF clear
<1>9. new \in MarksType /\ new.attempts = marks[x].attempts BY <1>6, <1>7 DEF MarksType
<1>10. new # None BY <1>9, NotNone
<1> HIDE DEF new, x
<1>11. /\ marks' \in [Lessons \X Kinds -> MarksType \cup {None}]
       /\ \A y \in Lessons \X Kinds : /\ marks'[y] # None <=> marks[y] # None
                                      /\ marks[y] # None => marks'[y].attempts = marks[y].attempts
  BY <1>3, <1>5, <1>8, <1>9, <1>10 DEF StudentTyped
<1>12. StudentTyped' BY <1>1, <1>11 DEF StudentTyped
<1>13. ASSUME NEW m \in Lessons, NEW k \in Kinds PROVE KeptAt(m, k)'
  <2>1. KeptAt(m, k) BY KeptRows
  <2>2. <<m, k>> \in Lessons \X Kinds OBVIOUS
  <2> QED BY <1>1, <1>2, <1>11, <2>1, <2>2 DEF KeptAt, present
<1>14. KeptInv' BY <1>2, <1>13, KeptNext, KeptRows DEF present
<1> QED BY <1>2, <1>12, <1>14

LEMMA HandInStep ==
    ASSUME CatalogueInv, NEW wrong, HandIn(wrong)
    PROVE  CatalogueInv'
<1> USE DEF CatalogueInv
<1>1. authorsRest /\ UNCHANGED stepsOf /\ sitting' = None BY DEF HandIn
<1>2. ContentTyped' /\ AuthorsInv' /\ PlacesInv' /\ UNCHANGED <<course, lessonRow, taskRow>>
  BY <1>1, ContentSame
<1>3. CASE UNCHANGED <<marks, tries>>
  <2>1. StudentTyped' BY <1>1, <1>3 DEF StudentTyped
  <2>2. KeptInv' BY <1>2, <1>3, KeptSame, KeptRows DEF present
  <2> QED BY <1>2, <2>1, <2>2
<1>4. CASE ~UNCHANGED <<marks, tries>>
  <2>1. sitting \in SittingType /\ wrong \in SUBSET Nat
    BY DEF HandIn, StudentTyped, SittingType
  <2>2. PICK m \in Lessons, j \in Kinds : sitting.at = <<m, j>>
    BY <2>1 DEF SittingType
  <2> DEFINE x == <<m, j>>
             old == marksOf(m, j)
             new == marked(old, sitting.questions, wrong)
  <2>3. /\ taskRow[x] # None
        /\ tries' = [tries EXCEPT ![x] = @ + 1] /\ marks' = [marks EXCEPT ![x] = new]
    BY <1>4, <2>2 DEF HandIn
  <2>4. old \in MarksType BY MarksOfTyped
  <2> HIDE DEF old
  <2>5. new \in MarksType /\ new # None /\ new.attempts = old.attempts + 1
    BY <2>1, <2>4, MarkedTyped
  <2>6. KeptAt(m, j) /\ tries[x] \in Nat BY KeptRows DEF StudentTyped
  <2>7. old.attempts = tries[x]
    <3>1. CASE marks[x] = None
      <4>1. old.attempts = 0 BY <3>1 DEF old, marksOf, NewMarks
      <4>2. ~(tries[x] > 0) BY <2>6, <3>1 DEF KeptAt
      <4> QED BY <4>1, <4>2, <2>6
    <3>2. CASE marks[x] # None
      BY <2>6, <3>2 DEF old, marksOf, KeptAt
    <3> QED BY <3>1, <3>2
  <2> HIDE DEF new
  <2>8. /\ marks' \in [Lessons \X Kinds -> MarksType \cup {None}]
        /\ tries' \in [Lessons \X Kinds -> Nat]
        /\ marks'[x] = new /\ tries'[x] = tries[x] + 1
        /\ \A y \in Lessons \X Kinds : y # x => marks'[y] = marks[y] /\ tries'[y] = tries[y]
    BY <2>3, <2>5, <2>6 DEF StudentTyped
  <2>9. StudentTyped' BY <1>1, <2>8 DEF StudentTyped
  <2>10. ASSUME NEW l \in Lessons, NEW k \in Kinds PROVE KeptAt(l, k)'
    <3>1. KeptAt(l, k) BY KeptRows
    <3>2. CASE <<l, k>> = x
      <4>1. /\ taskRow'[<<l, k>>] # None /\ marks'[<<l, k>>] # None
            /\ marks'[<<l, k>>].attempts = tries'[<<l, k>>]
        BY <1>2, <2>3, <2>5, <2>7, <2>8, <3>2
      <4>2. taskRow[<<l, k>>] # None BY <2>3, <3>2
      <4> QED BY <1>2, <3>1, <4>1, <4>2 DEF KeptAt, present
    <3>3. CASE <<l, k>> # x
      <4>1. marks'[<<l, k>>] = marks[<<l, k>>] /\ tries'[<<l, k>>] = tries[<<l, k>>]
        BY <2>8, <3>3
      <4> QED BY <1>2, <3>1, <4>1 DEF KeptAt, present
    <3> QED BY <3>2, <3>3
  <2>11. KeptInv' BY <1>2, <2>10, KeptNext, KeptRows DEF present
  <2> QED BY <1>2, <2>9, <2>11
<1> QED BY <1>3, <1>4

-----------------------------------------------------------------------------
LEMMA CatalogueBegins == CatalogueInit => CatalogueInv
<1> SUFFICES ASSUME CatalogueInit PROVE CatalogueInv OBVIOUS
<1> USE DEF CatalogueInit
<1>1. ContentTyped BY CatalogueAssumption DEF ContentTyped
<1>2. StudentTyped
  <2>1. NoSteps \in StepsType BY DEF NoSteps, StepsType
  <2> QED BY <2>1 DEF StudentTyped
<1>3. AuthorsInv
  <2>1. /\ NewAuthor.pc = "new" /\ NewAuthor \in AuthorType
    BY DEF NewAuthor, AuthorType, AuthorSteps
  <2> QED BY <2>1 DEF AuthorsInv, AuthorSound
<1>4. KeptInv
  <2>1. course # None BY NotNone
  <2>2. ASSUME NEW l \in Lessons, NEW k \in Kinds PROVE KeptAt(l, k)
    <3>1. tries[<<l, k>>] = 0 /\ marks[<<l, k>>] = None OBVIOUS
    <3>2. taskRow[<<l, k>>] # None => lessonRow[l] # None
      BY CatalogueAssumption
    <3> QED BY <2>1, <3>1, <3>2 DEF KeptAt, present
  <2> QED BY <2>1, <2>2, KeptRows
<1>5. PlacesInv BY CatalogueAssumption DEF PlacesInv, placed, present
<1> QED BY <1>1, <1>2, <1>3, <1>4, <1>5 DEF CatalogueInv

LEMMA CatalogueKeeps == CatalogueInv /\ [CatalogueNext]_catalogueVars => CatalogueInv'
<1> SUFFICES ASSUME CatalogueInv, [CatalogueNext]_catalogueVars PROVE CatalogueInv' OBVIOUS
<1>1. CASE UNCHANGED catalogueVars
  <2>1. authorsRest /\ UNCHANGED <<stepsOf, marks, tries, sitting>>
    BY <1>1 DEF catalogueVars, authorsRest, contentRows
  <2>2. ContentTyped' /\ AuthorsInv' /\ PlacesInv' /\ UNCHANGED <<course, lessonRow, taskRow>>
    BY <2>1, ContentSame
  <2>3. StudentTyped' BY <2>1, StudentSame DEF CatalogueInv
  <2>4. KeptInv' BY <2>1, <2>2, KeptSame, KeptRows DEF CatalogueInv, present
  <2> QED BY <2>2, <2>3, <2>4 DEF CatalogueInv
<1>2. ASSUME NEW r \in Authors,
             \/ \E wanted \in AuthorCalls : AskFor(r, wanted)
             \/ FindRow(r) \/ CountRows(r) \/ WriteCourse(r) \/ CreateCourse(r)
             \/ CreateLesson(r) \/ WriteLesson(r) \/ RemoveLesson(r)
             \/ SaveTask(r) \/ PublishTask(r) \/ DeleteTask(r)
      PROVE  CatalogueInv'
  BY <1>2, AuthorReadStep, CourseStep, CreateLessonStep, WriteLessonStep, RemoveLessonStep,
     SaveStep, PublishStep, DeleteStep
<1>3. ASSUME NEW l \in Lessons,
             \/ \E position \in 0 .. (IF present(l) THEN lessonRow[l].video ELSE 0) : Watch(l, position)
             \/ \E how \in {"started", "done"} : ReadTheory(l, how)
             \/ \E k \in Kinds : SitDown(l, k)
             \/ \E q \in uncleared(l) : ClearTrap(l, q)
      PROVE  CatalogueInv'
  <2>1. \A position \in 0 .. (IF present(l) THEN lessonRow[l].video ELSE 0) : position \in Nat
    OBVIOUS
  <2> QED BY <1>3, <2>1, StudyStep, SitDownStep, ClearStep
<1>4. CASE Pay
  <2>1. authorsRest /\ UNCHANGED <<stepsOf, marks, tries, sitting>> BY <1>4 DEF Pay
  <2>2. ContentTyped' /\ AuthorsInv' /\ PlacesInv' /\ UNCHANGED <<course, lessonRow, taskRow>>
    BY <2>1, ContentSame
  <2>3. StudentTyped' BY <2>1, StudentSame DEF CatalogueInv
  <2>4. KeptInv' BY <2>1, <2>2, KeptSame, KeptRows DEF CatalogueInv, present
  <2> QED BY <2>2, <2>3, <2>4 DEF CatalogueInv
<1> QED BY <1>1, <1>2, <1>3, <1>4, HandInStep DEF CatalogueNext

(* Whatever authors and student do, whichever rows, requests and limits    *)
(* there are: the lesson and course pages of the code keep NeverStuck,     *)
(* WorkKept, PlacesDistinct and CourseShown.                               *)
THEOREM LessonsAlwaysSound == CatalogueSpec => []LessonsSound
<1>1. CatalogueInv => LessonsSound
  <2> SUFFICES ASSUME CatalogueInv PROVE LessonsSound OBVIOUS
  <2> USE DEF CatalogueInv
  <2>1. NeverStuck BY StuckNever
  <2>2. WorkKept BY DEF KeptInv
  <2>3. PlacesDistinct BY FreePlaces DEF PlacesDistinct, PlacesInv
  <2>4. CourseShown BY PageShown
  <2> QED BY <2>1, <2>2, <2>3, <2>4 DEF LessonsSound
<1> QED BY <1>1, CatalogueBegins, CatalogueKeeps, PTL DEF CatalogueSpec

\* COMPLETED, as the lesson page derives it
Completion == \A l \in Lessons : deriveLessonStatus(l) = "COMPLETED" <=> IsCompleted(l)

LEMMA CompletionOf == Completion
  BY StatusOf DEF Completion, IsCompleted

(* Nothing the student does takes a completed lesson back, but a retake of *)
(* its quiz that leaves mistakes to correct.                               *)
THEOREM CompletionAlwaysKept == CatalogueSpec => CompletionKept
<1>1. ASSUME CatalogueInv, Completion, Completion', [CatalogueNext]_catalogueVars,
             <<stepsOf, marks>>' # <<stepsOf, marks>>, UNCHANGED <<lessonRow, taskRow>>,
             NEW l \in shown, deriveLessonStatus(l) = "COMPLETED"
      PROVE  \/ (deriveLessonStatus(l) = "COMPLETED")'
             \/ openStages(l)' = {"traphunter"} /\ tries'[<<l, "QUIZ">>] > tries[<<l, "QUIZ">>]
  <2>1. l \in Lessons BY DEF shown, placed
  <2>2. IsCompleted(l) BY <1>1, <2>1 DEF Completion
  <2>3. \/ IsCompleted(l)'
        \/ openStages(l)' = {"traphunter"} /\ tries'[<<l, "QUIZ">>] > tries[<<l, "QUIZ">>]
    BY <1>1, <2>2, StepKeepsCompletion DEF CatalogueInv
  <2>4. IsCompleted(l)' => (deriveLessonStatus(l) = "COMPLETED")'
    BY <1>1, <2>1 DEF Completion
  <2> QED BY <2>3, <2>4
<1>2. CatalogueInv /\ Completion /\ Completion' /\ [CatalogueNext]_catalogueVars =>
        [<<stepsOf, marks>>' # <<stepsOf, marks>> /\ UNCHANGED <<lessonRow, taskRow>> =>
         \A l \in shown :
            deriveLessonStatus(l) = "COMPLETED" =>
               \/ (deriveLessonStatus(l) = "COMPLETED")'
               \/ openStages(l)' = {"traphunter"} /\ tries'[<<l, "QUIZ">>] > tries[<<l, "QUIZ">>]
        ]_catalogueVars
  BY <1>1
<1> QED BY <1>2, CompletionOf, CatalogueBegins, CatalogueKeeps, PTL DEF CatalogueSpec, CompletionKept

-----------------------------------------------------------------------------
(* Topics and pieces: whoever waits to write has found the row and the     *)
(* topic it names, and if one is gone since, it was removed.               *)
RowIn(x, topics, pieces) == IF x \in Topics THEN topics[x] ELSE pieces[x]

TopicsTyped(topics, pieces) ==
    /\ topics \in [Topics -> TopicType \cup {None}]
    /\ pieces \in [Pieces -> PieceType \cup {None}]

\* Pieces have their topic, and what was practised is there.
NoOrphan(topics, pieces, done) ==
    /\ \A i \in Pieces : pieces[i] # None => topics[pieces[i].topic] # None
    /\ \A i \in done : i \in Pieces /\ pieces[i] # None

\* Two rows that share a place were not both put behind the last.
TopicPlacesApart(topics, pieces, seated) ==
    /\ \A s, t \in Topics : s # t /\ topics[s] # None /\ topics[t] # None
           /\ topics[s].at = topics[t].at => {s, t} \cap seated # {}
    /\ \A i, j \in Pieces : i # j /\ pieces[i] # None /\ pieces[j] # None
           /\ pieces[i].topic = pieces[j].topic /\ pieces[i].at = pieces[j].at
               => {i, j} \cap seated # {}

HandShape(q) == q = [pc |-> q.pc, call |-> q.call, at |-> q.at]

\* the row it names, and the topic, are there or were removed
HandFound(q, topics, pieces, gone) ==
    /\ q.pc \in {"topic", "place", "count", "write"} /\ q.call.op # "create" =>
          RowIn(q.call.row, topics, pieces) # None \/ q.call.row \in gone
    /\ q.pc \in {"place", "write"} /\ q.call.op \in {"create", "edit"}
          /\ q.call.row \notin Topics /\ q.call.topic # None =>
          topics[q.call.topic] # None \/ q.call.topic \in gone

HandSound(q, topics, pieces, gone) ==
    /\ HandShape(q)
    /\ q.pc \in {"find", "topic", "place", "count", "write"} => q.call \in HandCalls
    /\ q.pc = "topic" => /\ q.call.op \in {"create", "edit"} /\ q.call.row \notin Topics
                         /\ q.call.topic # None
    /\ q.pc = "place" => q.call.op = "create" /\ q.call.at = None
    /\ q.pc = "count" => q.call.op = "remove"
    /\ q.pc = "write" /\ q.call.op = "create" /\ q.call.at = None => q.at \in Nat
    /\ HandFound(q, topics, pieces, gone)
    /\ q.pc = "failed" => {q.call.row, q.call.topic} \cap gone # {}

HandsSound(hands, topics, pieces, gone) ==
    /\ hands = [r \in Hands |-> hands[r]]
    /\ \A r \in Hands : HandSound(hands[r], topics, pieces, gone)

TopicsInv ==
    /\ TopicsTyped(topicRow, pieceRow)
    /\ NoOrphan(topicRow, pieceRow, practised)
    /\ TopicPlacesApart(topicRow, pieceRow, handPlaced)
    /\ HandsSound(hand, topicRow, pieceRow, went)

\* The next place is above every row's.
LEMMA NextPlaceAbove ==
    ASSUME NEW S, IsFiniteSet(S), \A x \in S : x.at \in Nat
    PROVE  nextPlace(S) \in Nat /\ \A x \in S : x.at < nextPlace(S)
<1>1. CASE S = {}
  BY <1>1 DEF nextPlace
<1>2. CASE S # {}
  <2> DEFINE top == CHOOSE n \in {x.at : x \in S} : \A x \in S : x.at <= n
  <2>1. \E n \in {x.at : x \in S} : \A x \in S : x.at <= n
    <3> DEFINE place == [x \in S |-> x.at]
    <3>1. \A x \in S : place[x] = x.at /\ place[x] \in Nat
      OBVIOUS
    <3> HIDE DEF place
    <3>2. PICK x \in S : \A y \in S : place[y] <= place[x]
      BY <1>2, <3>1, HighestOf
    <3> QED BY <3>1, <3>2
  <2>2. top \in {x.at : x \in S} /\ \A x \in S : x.at <= top
    BY <2>1
  <2>3. nextPlace(S) = 1 + top
    BY <1>2 DEF nextPlace
  <2> HIDE DEF top
  <2>4. top \in Nat
    BY <2>2
  <2> QED BY <2>2, <2>3, <2>4
<1> QED BY <1>1, <1>2

\* Among the topics, or among the pieces of a topic.
LEMMA SiblingsBelow ==
    ASSUME TopicsTyped(topicRow, pieceRow), NEW task
    PROVE  /\ nextPlace(siblings(task)) \in Nat
           /\ task.row \in Topics => \A s \in Topics : topicRow[s] # None =>
                                        topicRow[s].at < nextPlace(siblings(task))
           /\ task.row \notin Topics => \A i \in piecesOn(task.topic) :
                                        pieceRow[i].at < nextPlace(siblings(task))
<1>1. CASE task.row \in Topics
  <2> DEFINE there == {t \in Topics : topicRow[t] # None}
             f == [s \in there |-> topicRow[s]]
  <2>1. siblings(task) = {topicRow[s] : s \in there}
    BY <1>1 DEF siblings, isTopic
  <2>2. IsFiniteSet(there)
    BY TopicsAssumption, FS_Subset
  <2>3. f \in Surjection(there, siblings(task))
    BY <2>1 DEF Surjection
  <2>4. IsFiniteSet(siblings(task))
    <3> HIDE DEF f, there
    <3> QED BY <2>2, <2>3, FS_Surjection
  <2>5. \A x \in siblings(task) : x.at \in Nat
    BY <2>1 DEF TopicsTyped, TopicType
  <2>6. \A s \in Topics : topicRow[s] # None => topicRow[s] \in siblings(task)
    BY <2>1
  <2> QED BY <1>1, <2>4, <2>5, <2>6, NextPlaceAbove
<1>2. CASE task.row \notin Topics
  <2> DEFINE there == piecesOn(task.topic)
             f == [i \in there |-> pieceRow[i]]
  <2>1. siblings(task) = {pieceRow[i] : i \in there}
    BY <1>2 DEF siblings, isTopic
  <2>2. IsFiniteSet(there)
    BY TopicsAssumption, FS_Subset DEF piecesOn
  <2>3. f \in Surjection(there, siblings(task))
    BY <2>1 DEF Surjection
  <2>4. IsFiniteSet(siblings(task))
    <3> HIDE DEF f, there
    <3> QED BY <2>2, <2>3, FS_Surjection
  <2>5. \A x \in siblings(task) : x.at \in Nat
    BY <2>1 DEF TopicsTyped, PieceType, piecesOn
  <2>6. \A i \in there : pieceRow[i] \in siblings(task)
    BY <2>1
  <2> QED BY <1>2, <2>4, <2>5, <2>6, NextPlaceAbove
<1> QED BY <1>1, <1>2

LEMMA TopicsInitial == TopicsInit => TopicsInv
<1> SUFFICES ASSUME TopicsInit PROVE TopicsInv
  OBVIOUS
<1>1. TopicsTyped(topicRow, pieceRow) /\ NoOrphan(topicRow, pieceRow, practised)
      /\ TopicPlacesApart(topicRow, pieceRow, handPlaced)
  BY TopicsAssumption DEF TopicsInit, TopicsTyped, NoOrphan, TopicPlacesApart
<1>2. HandsSound(hand, topicRow, pieceRow, went)
  <2>1. \A topics, pieces, gone : HandSound(NewHand, topics, pieces, gone)
    BY DEF HandSound, HandShape, HandFound, NewHand
  <2> QED BY <2>1 DEF TopicsInit, HandsSound
<1> QED BY <1>1, <1>2 DEF TopicsInv

-----------------------------------------------------------------------------
HandRow(pc, task, at) == [pc |-> pc, call |-> task, at |-> at]

LEMMA HandRowShape ==
    ASSUME NEW pc, NEW task, NEW at
    PROVE  LET q == HandRow(pc, task, at)
           IN  HandShape(q) /\ q.pc = pc /\ q.call = task /\ q.at = at
  BY DEF HandRow, HandShape

LEMMA HandMoves ==
    ASSUME NEW q, HandShape(q), NEW pc, NEW x
    PROVE  /\ [q EXCEPT !.pc = pc] = HandRow(pc, q.call, q.at)
           /\ [q EXCEPT !.pc = pc, !.call = x] = HandRow(pc, x, q.at)
           /\ [q EXCEPT !.pc = pc, !.at = x] = HandRow(pc, q.call, x)
<1> DEFINE old == HandRow(q.pc, q.call, q.at)
           moved == HandRow(pc, q.call, q.at)
<1>1. q = old
  BY DEF HandShape, HandRow
<1>2. [old EXCEPT !.pc = pc] = moved
  BY DEF HandRow
<1>3. [moved EXCEPT !.call = x] = HandRow(pc, x, q.at) /\ [moved EXCEPT !.at = x] = HandRow(pc, q.call, x)
  BY DEF HandRow
<1> HIDE DEF old, moved
<1>4. /\ [q EXCEPT !.pc = pc] = moved
      /\ [q EXCEPT !.pc = pc, !.call = x] = [moved EXCEPT !.call = x]
      /\ [q EXCEPT !.pc = pc, !.at = x] = [moved EXCEPT !.at = x]
  BY <1>1, <1>2
<1> QED BY <1>3, <1>4 DEF moved

\* A request goes on to its next statement, or is answered.
LEMMA HandGoes ==
    ASSUME NEW hands, NEW topics, NEW pieces, NEW gone, HandsSound(hands, topics, pieces, gone),
           NEW r \in Hands, NEW q, HandSound(q, topics, pieces, gone),
           NEW hands2, hands2 = [hands EXCEPT ![r] = q]
    PROVE  HandsSound(hands2, topics, pieces, gone)
<1>1. hands2 = [x \in Hands |-> IF x = r THEN q ELSE hands[x]]
  BY DEF HandsSound
<1>2. \A x \in Hands : HandSound(hands2[x], topics, pieces, gone)
  BY <1>1 DEF HandsSound
<1> QED BY <1>1, <1>2 DEF HandsSound

LEMMA HandAside ==
    ASSUME TopicsInv, NEW r \in Hands, NEW q, HandSound(q, topicRow, pieceRow, went),
           hand' = [hand EXCEPT ![r] = q], rowsRest
    PROVE  TopicsInv'
<1>1. HandsSound(hand', topicRow, pieceRow, went)
  BY HandGoes DEF TopicsInv
<1> QED BY <1>1 DEF TopicsInv, rowsRest

LEMMA HandReplies ==
    ASSUME TopicsInv, NEW r \in Hands, NEW reply \in {"done", "refused", "failed"},
           reply = "failed" => {hand[r].call.row, hand[r].call.topic} \cap went # {}
    PROVE  HandSound([hand[r] EXCEPT !.pc = reply], topicRow, pieceRow, went)
<1> DEFINE s == hand[r]
           q == [s EXCEPT !.pc = reply]
<1>1. HandShape(s)
  BY DEF TopicsInv, HandsSound, HandSound
<1>2. reply = "failed" => {s.call.row, s.call.topic} \cap went # {}
  OBVIOUS
<1> HIDE DEF s
<1>3. q = HandRow(reply, s.call, s.at)
  BY <1>1, HandMoves, Zenon
<1> HIDE DEF q
<1>4. HandShape(q) /\ q.pc = reply /\ q.call = s.call
  BY <1>3, HandRowShape
<1>5. HandSound(q, topicRow, pieceRow, went)
  BY <1>2, <1>4 DEF HandSound, HandFound
<1> QED BY <1>5 DEF q, s

LEMMA ReachKeeps == ASSUME TopicsInv, NEW r \in Hands, NEW task \in HandCalls, Reach(r, task) PROVE TopicsInv'
<1> DEFINE s == hand[r]
           q == [s EXCEPT !.pc = "find", !.call = task]
<1>1. hand' = [hand EXCEPT ![r] = q] /\ rowsRest
  BY DEF Reach
<1>2. HandShape(s)
  BY DEF TopicsInv, HandsSound, HandSound
<1> HIDE DEF s
<1>3. \A p, x : [s EXCEPT !.pc = p, !.call = x] = HandRow(p, x, s.at)
  BY <1>2, HandMoves, Zenon
<1>4. q = HandRow("find", task, s.at)
  BY <1>3
<1> HIDE DEF q
<1>5. HandShape(q) /\ q.pc = "find" /\ q.call = task
  BY <1>4, HandRowShape
<1>6. HandSound(q, topicRow, pieceRow, went)
  BY <1>5 DEF HandSound, HandFound
<1> QED BY <1>1, <1>6, HandAside

\* A request goes on with its task: what HandSound asks of the next statement.
LEMMA MovesKeeps ==
    ASSUME TopicsInv, NEW r \in Hands, NEW pc \in {"topic", "place", "count", "write"},
           moves(r, pc), rowsRest, NEW task, task = hand[r].call, task \in HandCalls,
           pc = "topic" => task.op \in {"create", "edit"} /\ task.row \notin Topics /\ task.topic # None,
           pc = "place" => task.op = "create" /\ task.at = None,
           pc = "count" => task.op = "remove",
           pc = "write" /\ task.op = "create" => task.at # None,
           task.op # "create" => RowIn(task.row, topicRow, pieceRow) # None \/ task.row \in went,
           pc \in {"place", "write"} /\ task.op \in {"create", "edit"}
               /\ task.row \notin Topics /\ task.topic # None =>
               topicRow[task.topic] # None \/ task.topic \in went
    PROVE  TopicsInv'
<1> DEFINE s == hand[r]
           q == [s EXCEPT !.pc = pc]
<1>1. hand' = [hand EXCEPT ![r] = q]
  BY DEF moves
<1>2. HandShape(s) /\ s.call = task
  BY DEF TopicsInv, HandsSound, HandSound
<1> HIDE DEF s
<1>3. q = HandRow(pc, task, s.at)
  BY <1>2, HandMoves, Zenon
<1> HIDE DEF q
<1>4. HandShape(q) /\ q.pc = pc /\ q.call = task
  BY <1>3, HandRowShape
<1>5. HandFound(q, topicRow, pieceRow, went)
  BY <1>4 DEF HandFound
<1>6. HandSound(q, topicRow, pieceRow, went)
  BY <1>4, <1>5 DEF HandSound
<1> QED BY <1>1, <1>6, HandAside

LEMMA HandAnswers ==
    ASSUME TopicsInv, NEW r \in Hands, NEW reply \in {"done", "refused", "failed"},
           reply = "failed" => {hand[r].call.row, hand[r].call.topic} \cap went # {},
           replies(r, reply), rowsRest
    PROVE  TopicsInv'
  BY HandReplies, HandAside DEF replies

LEMMA SeekKeeps == ASSUME TopicsInv, NEW r \in Hands, Seek(r) PROVE TopicsInv'
<1> DEFINE task == hand[r].call
           row == rowOf(task.row)
<1>1. hand[r].pc = "find" /\ rowsRest
  BY DEF Seek
<1>2. task \in HandCalls
  BY <1>1 DEF TopicsInv, HandsSound, HandSound
<1>3. row = RowIn(task.row, topicRow, pieceRow)
  BY DEF rowOf, RowIn, isTopic
<1>4. CASE replies(r, "refused")
  BY <1>1, <1>4, HandAnswers
<1>5. CASE moves(r, afterFind(task)) /\ (task.op # "create" => row # None)
  <2>1. CASE afterFind(task) = "topic" /\ task.op \in {"create", "edit"} /\ task.row \notin Topics
             /\ task.topic # None
    BY <1>1, <1>2, <1>3, <1>5, <2>1, MovesKeeps
  <2>2. CASE afterFind(task) = "place" /\ task.op = "create" /\ task.at = None
             /\ (task.row \in Topics \/ task.topic = None)
    BY <1>1, <1>2, <1>3, <1>5, <2>2, MovesKeeps
  <2>3. CASE afterFind(task) = "count" /\ task.op = "remove"
    BY <1>1, <1>2, <1>3, <1>5, <2>3, MovesKeeps
  <2>4. CASE afterFind(task) = "write" /\ (task.op = "create" => task.at # None)
             /\ ~(task.op \in {"create", "edit"} /\ task.row \notin Topics /\ task.topic # None)
    BY <1>1, <1>2, <1>3, <1>5, <2>4, MovesKeeps
  <2> HIDE DEF task
  <2> QED BY <2>1, <2>2, <2>3, <2>4 DEF afterFind, isTopic
<1> QED BY <1>4, <1>5 DEF Seek

LEMMA SeekTopicKeeps == ASSUME TopicsInv, NEW r \in Hands, SeekTopic(r) PROVE TopicsInv'
<1> DEFINE task == hand[r].call
<1>1. hand[r].pc = "topic" /\ rowsRest
  BY DEF SeekTopic
<1>2. HandSound(hand[r], topicRow, pieceRow, went)
  BY DEF TopicsInv, HandsSound
<1>3. task \in HandCalls /\ task.op \in {"create", "edit"} /\ task.row \notin Topics
      /\ (task.op # "create" => RowIn(task.row, topicRow, pieceRow) # None \/ task.row \in went)
  BY <1>1, <1>2 DEF HandSound, HandFound
<1>4. CASE replies(r, "refused")
  BY <1>1, <1>4, HandAnswers
<1>5. CASE topicRow[task.topic] # None /\ task.op = "create" /\ task.at = None /\ moves(r, "place")
  BY <1>1, <1>3, <1>5, MovesKeeps
<1>6. CASE topicRow[task.topic] # None /\ ~(task.op = "create" /\ task.at = None) /\ moves(r, "write")
  BY <1>1, <1>3, <1>6, MovesKeeps
<1> QED BY <1>4, <1>5, <1>6 DEF SeekTopic

LEMMA CountFirstKeeps == ASSUME TopicsInv, NEW r \in Hands, CountFirst(r) PROVE TopicsInv'
<1> DEFINE task == hand[r].call
<1>1. hand[r].pc = "count" /\ rowsRest
  BY DEF CountFirst
<1>2. HandSound(hand[r], topicRow, pieceRow, went)
  BY DEF TopicsInv, HandsSound
<1>3. task \in HandCalls /\ task.op = "remove"
      /\ (RowIn(task.row, topicRow, pieceRow) # None \/ task.row \in went)
  BY <1>1, <1>2 DEF HandSound, HandFound
<1>4. CASE replies(r, "refused")
  BY <1>1, <1>4, HandAnswers
<1>5. CASE moves(r, "write")
  BY <1>1, <1>3, <1>5, MovesKeeps
<1> QED BY <1>4, <1>5 DEF CountFirst

LEMMA HandPlaced ==
    ASSUME NEW s, HandShape(s), NEW n
    PROVE  LET q == [s EXCEPT !.pc = "write", !.at = n]
           IN  HandShape(q) /\ q.pc = "write" /\ q.call = s.call /\ q.at = n
<1>1. [s EXCEPT !.pc = "write", !.at = n] = HandRow("write", s.call, n)
  <2> DEFINE moved == HandRow("write", s.call, s.at)
  <2>1. [s EXCEPT !.pc = "write"] = moved
    BY HandMoves, Zenon
  <2>2. [moved EXCEPT !.at = n] = HandRow("write", s.call, n)
    BY DEF HandRow
  <2> HIDE DEF moved
  <2>3. [s EXCEPT !.pc = "write", !.at = n] = [moved EXCEPT !.at = n]
    BY <2>1
  <2> QED BY <2>2, <2>3
<1>2. PICK q : q = [s EXCEPT !.pc = "write", !.at = n]
  OBVIOUS
<1>3. HandShape(q) /\ q.pc = "write" /\ q.call = s.call /\ q.at = n
  BY <1>1, <1>2, HandRowShape
<1> QED BY <1>2, <1>3

LEMMA PlaceKeeps == ASSUME TopicsInv, NEW r \in Hands, Place(r) PROVE TopicsInv'
<1> DEFINE s == hand[r]
           at == nextPlace(siblings(s.call))
           q == [s EXCEPT !.pc = "write", !.at = at]
<1>1. s.pc = "place" /\ rowsRest /\ hand' = [hand EXCEPT ![r] = q]
  BY DEF Place
<1>2. HandSound(s, topicRow, pieceRow, went) /\ at \in Nat
  BY SiblingsBelow DEF TopicsInv, HandsSound
<1> HIDE DEF s, at
<1>3. HandShape(s) /\ s.call \in HandCalls /\ s.call.op = "create" /\ HandFound(s, topicRow, pieceRow, went)
  BY <1>1, <1>2 DEF HandSound
<1>6. HandShape(q) /\ q.pc = "write" /\ q.call = s.call /\ q.at = at
  BY <1>3, HandPlaced, Zenon
<1> HIDE DEF q
<1>7. HandFound(q, topicRow, pieceRow, went)
  BY <1>1, <1>3, <1>6 DEF HandFound
<1>8. HandSound(q, topicRow, pieceRow, went)
  BY <1>2, <1>3, <1>6, <1>7 DEF HandSound
<1> QED BY <1>1, <1>8, HandAside

-----------------------------------------------------------------------------
\* A write: rows that are gone were removed.
LEMMA HandsAfterWrite ==
    ASSUME TopicsInv, NEW r \in Hands, replies(r, "done"),
           went \subseteq went',
           \A s \in Topics : topicRow[s] # None => topicRow'[s] # None \/ s \in went',
           \A i \in Pieces : pieceRow[i] # None => pieceRow'[i] # None \/ i \in went'
    PROVE  HandsSound(hand', topicRow', pieceRow', went')
<1>1. HandsSound(hand', topicRow, pieceRow, went)
  <2>1. HandSound([hand[r] EXCEPT !.pc = "done"], topicRow, pieceRow, went)
    BY HandReplies
  <2> QED BY <2>1, HandGoes DEF TopicsInv, replies
<1>2. ASSUME NEW q, HandSound(q, topicRow, pieceRow, went) PROVE HandSound(q, topicRow', pieceRow', went')
  <2>1. ASSUME q.call \in HandCalls
        PROVE  /\ RowIn(q.call.row, topicRow, pieceRow) # None =>
                      RowIn(q.call.row, topicRow', pieceRow') # None \/ q.call.row \in went'
               /\ q.call.topic # None /\ topicRow[q.call.topic] # None =>
                      topicRow'[q.call.topic] # None \/ q.call.topic \in went'
    BY <2>1, TopicsAssumption DEF RowIn
  <2>2. HandFound(q, topicRow', pieceRow', went')
    BY <1>2, <2>1 DEF HandSound, HandFound
  <2> QED BY <1>2, <2>2 DEF HandSound
<1> QED BY <1>1, <1>2 DEF HandsSound

\* A write to a topic, or to a piece.
LEMMA TopicWritten ==
    ASSUME TopicsInv, NEW x \in Topics, NEW row, WriteRow(x, row)
    PROVE  /\ topicRow' = [s \in Topics |-> IF s = x THEN row ELSE topicRow[s]] /\ pieceRow' = pieceRow
           /\ topicRow = [s \in Topics |-> topicRow[s]] /\ pieceRow = [i \in Pieces |-> pieceRow[i]]
  BY DEF TopicsInv, TopicsTyped, WriteRow, isTopic

LEMMA PieceWritten ==
    ASSUME TopicsInv, NEW x, x \notin Topics, NEW row, WriteRow(x, row)
    PROVE  /\ pieceRow' = [i \in Pieces |-> IF i = x THEN row ELSE pieceRow[i]] /\ topicRow' = topicRow
           /\ topicRow = [s \in Topics |-> topicRow[s]] /\ pieceRow = [i \in Pieces |-> pieceRow[i]]
  BY DEF TopicsInv, TopicsTyped, WriteRow, isTopic

LEMMA CreateRowKeeps == ASSUME TopicsInv, NEW r \in Hands, CreateRow(r) PROVE TopicsInv'
<1> DEFINE task == hand[r].call
           at == IF task.at = None THEN hand[r].at ELSE task.at
           next == nextPlace(siblings(task))
<1>1. hand[r].pc = "write" /\ task.op = "create"
  BY DEF CreateRow, writing
<1>2. HandSound(hand[r], topicRow, pieceRow, went)
  BY DEF TopicsInv, HandsSound
<1>3. task \in HandCalls
  BY <1>1, <1>2 DEF HandSound
<1>4. /\ at \in Nat /\ task.row \in Topics \cup Pieces
      /\ task.row \notin Topics => task.row \in Pieces /\ task.topic \in Topics
  BY <1>1, <1>2, <1>3, TopicsAssumption DEF HandSound
<1>5. CASE task.row \notin Topics /\ topicRow[task.topic] = None /\ fails(r)
  <2>1. task.topic \in went
    BY <1>1, <1>2, <1>4, <1>5, TopicsAssumption DEF HandSound, HandFound
  <2> QED BY <1>5, <2>1, HandAnswers DEF fails
<1>6. CASE /\ task.row \in Topics /\ WriteRow(task.row, [at |-> at, on |-> FALSE])
           /\ handPlaced' = IF task.at = None /\ at = next THEN handPlaced ELSE handPlaced \cup {task.row}
           /\ replies(r, "done") /\ UNCHANGED <<family, practised, went>>
  <2> DEFINE row == [at |-> at, on |-> FALSE]
             s0 == task.row
  <2>1. row \in TopicType /\ row.at = at
    BY <1>4 DEF TopicType
  <2>2. row # None
    BY <2>1, TopicsAssumption
  <2>3. /\ topicRow' = [s \in Topics |-> IF s = s0 THEN row ELSE topicRow[s]] /\ pieceRow' = pieceRow
        /\ topicRow = [s \in Topics |-> topicRow[s]] /\ pieceRow = [i \in Pieces |-> pieceRow[i]]
    BY <1>6, TopicWritten
  <2>4. handPlaced \subseteq handPlaced' /\ (s0 \in handPlaced' \/ at = next)
    BY <1>6
  <2>5. \A s \in Topics : topicRow[s] # None => topicRow[s].at < next /\ topicRow[s].at \in Nat
    BY <1>6, SiblingsBelow DEF TopicsInv, TopicsTyped, TopicType
  <2> HIDE DEF row, next, at, s0
  <2>6. TopicsTyped(topicRow', pieceRow') /\ NoOrphan(topicRow', pieceRow', practised')
    <3>1. TopicsTyped(topicRow', pieceRow')
      BY <2>1, <2>3 DEF TopicsInv, TopicsTyped
    <3>2. \A s \in Topics : topicRow[s] # None => topicRow'[s] # None
      BY <2>2, <2>3
    <3>3. \A i \in Pieces : pieceRow[i] # None => pieceRow[i].topic \in Topics
      BY DEF TopicsInv, TopicsTyped, PieceType
    <3>4. NoOrphan(topicRow', pieceRow', practised')
      BY <1>6, <2>3, <3>2, <3>3 DEF TopicsInv, NoOrphan
    <3> QED BY <3>1, <3>4
  <2>7. TopicPlacesApart(topicRow', pieceRow', handPlaced')
    <3>1. ASSUME NEW s \in Topics, NEW t \in Topics, s # t, topicRow'[s] # None, topicRow'[t] # None,
                 topicRow'[s].at = topicRow'[t].at
          PROVE  {s, t} \cap handPlaced' # {}
      <4>1. CASE s = s0 \/ t = s0
        BY <1>4, <2>1, <2>3, <2>4, <2>5, <3>1, <4>1
      <4>2. CASE s # s0 /\ t # s0
        BY <2>3, <2>4, <3>1, <4>2 DEF TopicsInv, TopicPlacesApart
      <4> QED BY <4>1, <4>2
    <3> QED BY <2>3, <2>4, <3>1 DEF TopicsInv, TopicPlacesApart
  <2>8. HandsSound(hand', topicRow', pieceRow', went')
    BY <1>6, <2>2, <2>3, HandsAfterWrite
  <2> QED BY <2>6, <2>7, <2>8 DEF TopicsInv
<1>7. CASE /\ task.row \notin Topics /\ topicRow[task.topic] # None
           /\ WriteRow(task.row, [topic |-> task.topic, at |-> at, on |-> FALSE])
           /\ handPlaced' = IF task.at = None /\ at = next THEN handPlaced ELSE handPlaced \cup {task.row}
           /\ replies(r, "done") /\ UNCHANGED <<family, practised, went>>
  <2> DEFINE row == [topic |-> task.topic, at |-> at, on |-> FALSE]
             i0 == task.row
             t0 == task.topic
  <2>1. row \in PieceType /\ row.at = at /\ row.topic = t0 /\ t0 \in Topics /\ i0 \in Pieces
    BY <1>4, <1>7 DEF PieceType
  <2>2. row # None
    BY <2>1, TopicsAssumption
  <2>3. /\ pieceRow' = [i \in Pieces |-> IF i = i0 THEN row ELSE pieceRow[i]] /\ topicRow' = topicRow
        /\ topicRow = [s \in Topics |-> topicRow[s]] /\ pieceRow = [i \in Pieces |-> pieceRow[i]]
    BY <1>7, PieceWritten
  <2>4. handPlaced \subseteq handPlaced' /\ (i0 \in handPlaced' \/ at = next)
    BY <1>7
  <2>5. \A i \in Pieces : pieceRow[i] # None /\ pieceRow[i].topic = t0 =>
                              pieceRow[i].at < next /\ pieceRow[i].at \in Nat
    BY <1>7, SiblingsBelow DEF TopicsInv, TopicsTyped, PieceType, piecesOn
  <2>6. topicRow[t0] # None
    BY <1>7
  <2> HIDE DEF row, next, at, i0, t0
  <2>7. TopicsTyped(topicRow', pieceRow') /\ NoOrphan(topicRow', pieceRow', practised')
    BY <1>7, <2>1, <2>2, <2>3, <2>6 DEF TopicsInv, TopicsTyped, NoOrphan
  <2>8. TopicPlacesApart(topicRow', pieceRow', handPlaced')
    <3>1. ASSUME NEW i \in Pieces, NEW j \in Pieces, i # j, pieceRow'[i] # None, pieceRow'[j] # None,
                 pieceRow'[i].topic = pieceRow'[j].topic, pieceRow'[i].at = pieceRow'[j].at
          PROVE  {i, j} \cap handPlaced' # {}
      <4>1. CASE i = i0 \/ j = i0
        BY <1>4, <2>1, <2>3, <2>4, <2>5, <3>1, <4>1
      <4>2. CASE i # i0 /\ j # i0
        BY <2>3, <2>4, <3>1, <4>2 DEF TopicsInv, TopicPlacesApart
      <4> QED BY <4>1, <4>2
    <3> QED BY <2>3, <2>4, <3>1 DEF TopicsInv, TopicPlacesApart
  <2>9. HandsSound(hand', topicRow', pieceRow', went')
    BY <1>7, <2>2, <2>3, HandsAfterWrite
  <2> QED BY <2>7, <2>8, <2>9 DEF TopicsInv
<1> QED BY <1>5, <1>6, <1>7 DEF CreateRow, isTopic


\* A topic, or a piece, is written over.
LEMMA TopicRewritten ==
    ASSUME TopicsInv, NEW r \in Hands, NEW x \in Topics, topicRow[x] # None,
           NEW row \in TopicType, WriteRow(x, row),
           row.at = topicRow[x].at \/ x \in handPlaced',
           handPlaced \subseteq handPlaced',
           replies(r, "done"), UNCHANGED <<family, practised, went>>
    PROVE  TopicsInv'
<1>1. /\ topicRow' = [s \in Topics |-> IF s = x THEN row ELSE topicRow[s]] /\ pieceRow' = pieceRow
      /\ topicRow = [s \in Topics |-> topicRow[s]] /\ pieceRow = [i \in Pieces |-> pieceRow[i]]
  BY TopicWritten
<1>2. row # None
  BY TopicsAssumption
<1>3. \A s \in Topics : topicRow[s] # None <=> topicRow'[s] # None
  BY <1>1, <1>2
<1>4. TopicsTyped(topicRow', pieceRow')
  BY <1>1 DEF TopicsInv, TopicsTyped
<1>5. NoOrphan(topicRow', pieceRow', practised')
  <2>1. \A i \in Pieces : pieceRow[i] # None => pieceRow[i].topic \in Topics
    BY DEF TopicsInv, TopicsTyped, PieceType
  <2> QED BY <1>1, <1>3, <2>1 DEF TopicsInv, NoOrphan
<1>6. TopicPlacesApart(topicRow', pieceRow', handPlaced')
  <2>1. \A s, t \in Topics : s # t /\ topicRow[s] # None /\ topicRow[t] # None
           /\ topicRow[s].at = topicRow[t].at => s \in handPlaced' \/ t \in handPlaced'
    BY DEF TopicsInv, TopicPlacesApart
  <2>2. ASSUME NEW s \in Topics, NEW t \in Topics, s # t, topicRow'[s] # None, topicRow'[t] # None,
               topicRow'[s].at = topicRow'[t].at
        PROVE  {s, t} \cap handPlaced' # {}
    BY <1>1, <1>3, <2>1, <2>2
  <2> QED BY <1>1, <2>2 DEF TopicsInv, TopicPlacesApart
<1>7. HandsSound(hand', topicRow', pieceRow', went')
  BY <1>1, <1>3, HandsAfterWrite
<1> QED BY <1>4, <1>5, <1>6, <1>7 DEF TopicsInv

LEMMA PieceRewritten ==
    ASSUME TopicsInv, NEW r \in Hands, NEW x \in Pieces, x \notin Topics, pieceRow[x] # None,
           NEW row \in PieceType, WriteRow(x, row), topicRow[row.topic] # None,
           (row.at = pieceRow[x].at /\ row.topic = pieceRow[x].topic) \/ x \in handPlaced',
           handPlaced \subseteq handPlaced',
           replies(r, "done"), UNCHANGED <<family, practised, went>>
    PROVE  TopicsInv'
<1>1. /\ pieceRow' = [i \in Pieces |-> IF i = x THEN row ELSE pieceRow[i]] /\ topicRow' = topicRow
      /\ topicRow = [s \in Topics |-> topicRow[s]] /\ pieceRow = [i \in Pieces |-> pieceRow[i]]
  BY PieceWritten
<1>2. row # None
  BY TopicsAssumption
<1>3. \A i \in Pieces : pieceRow[i] # None <=> pieceRow'[i] # None
  BY <1>1, <1>2
<1>4. TopicsTyped(topicRow', pieceRow')
  BY <1>1 DEF TopicsInv, TopicsTyped
<1>5. NoOrphan(topicRow', pieceRow', practised')
  BY <1>1, <1>3 DEF TopicsInv, NoOrphan
<1>6. TopicPlacesApart(topicRow', pieceRow', handPlaced')
  <2>1. \A i, j \in Pieces : i # j /\ pieceRow[i] # None /\ pieceRow[j] # None
           /\ pieceRow[i].topic = pieceRow[j].topic /\ pieceRow[i].at = pieceRow[j].at
               => i \in handPlaced' \/ j \in handPlaced'
    BY DEF TopicsInv, TopicPlacesApart
  <2>2. ASSUME NEW i \in Pieces, NEW j \in Pieces, i # j, pieceRow'[i] # None, pieceRow'[j] # None,
               pieceRow'[i].topic = pieceRow'[j].topic, pieceRow'[i].at = pieceRow'[j].at
        PROVE  {i, j} \cap handPlaced' # {}
    BY <1>1, <1>3, <2>1, <2>2
  <2> QED BY <1>1, <2>2 DEF TopicsInv, TopicPlacesApart
<1>7. HandsSound(hand', topicRow', pieceRow', went')
  BY <1>1, <1>3, HandsAfterWrite
<1> QED BY <1>4, <1>5, <1>6, <1>7 DEF TopicsInv

\* What a hand that writes has found: what is gone since was removed.
LEMMA HandWrites ==
    ASSUME TopicsInv, NEW r \in Hands, NEW ops, writing(r, ops), "create" \notin ops,
           NEW task, task = hand[r].call
    PROVE  /\ task \in HandCalls /\ task.op \in ops
           /\ task.row \in Topics \cup Pieces /\ task.topic \in Topics \cup {None} /\ task.at \in Nat \cup {None}
           /\ rowOf(task.row) = RowIn(task.row, topicRow, pieceRow)
           /\ rowOf(task.row) # None \/ task.row \in went
           /\ task.op = "edit" /\ task.row \notin Topics /\ task.topic # None =>
                  topicRow[task.topic] # None \/ task.topic \in went
<1>1. hand[r].pc = "write" /\ task.op \in ops
  BY DEF writing
<1>2. HandSound(hand[r], topicRow, pieceRow, went)
  BY DEF TopicsInv, HandsSound
<1>3. task \in HandCalls
  BY <1>1, <1>2 DEF HandSound
<1>4. rowOf(task.row) = RowIn(task.row, topicRow, pieceRow)
  BY DEF rowOf, RowIn, isTopic
<1>5. task.op # "create"
  BY <1>1
<1>6. /\ RowIn(task.row, topicRow, pieceRow) # None \/ task.row \in went
      /\ task.op = "edit" /\ task.row \notin Topics /\ task.topic # None =>
                  topicRow[task.topic] # None \/ task.topic \in went
  BY <1>1, <1>2, <1>5 DEF HandSound, HandFound
<1>7. task.row \in Topics \cup Pieces /\ task.topic \in Topics \cup {None} /\ task.at \in Nat \cup {None}
  BY <1>3, TopicsAssumption
<1> QED BY <1>1, <1>3, <1>4, <1>6, <1>7

\* The row a request names is of its kind.
LEMMA RowTyped ==
    ASSUME TopicsInv, NEW x \in Topics \cup Pieces, rowOf(x) # None
    PROVE  /\ x \in Topics => rowOf(x) \in TopicType /\ rowOf(x) = topicRow[x]
           /\ x \notin Topics => rowOf(x) \in PieceType /\ rowOf(x) = pieceRow[x]
  BY DEF TopicsInv, TopicsTyped, rowOf, isTopic

LEMMA EditedTopic ==
    ASSUME NEW row \in TopicType, NEW n \in Nat, NEW b \in BOOLEAN
    PROVE  /\ [row EXCEPT !.at = n] \in TopicType
           /\ [row EXCEPT !.on = b] \in TopicType /\ [row EXCEPT !.on = b].at = row.at
  BY DEF TopicType

LEMMA PlacedPiece ==
    ASSUME NEW row \in PieceType, NEW n \in Nat
    PROVE  [row EXCEPT !.at = n] \in PieceType /\ [row EXCEPT !.at = n].topic = row.topic
  BY DEF PieceType

LEMMA MovedPiece ==
    ASSUME NEW row \in PieceType, NEW s \in Topics
    PROVE  [row EXCEPT !.topic = s] \in PieceType /\ [row EXCEPT !.topic = s].topic = s
  BY DEF PieceType

LEMMA SwitchedPiece ==
    ASSUME NEW row \in PieceType, NEW b \in BOOLEAN
    PROVE  /\ [row EXCEPT !.on = b] \in PieceType
           /\ [row EXCEPT !.on = b].at = row.at /\ [row EXCEPT !.on = b].topic = row.topic
  BY DEF PieceType

LEMMA EditRowKeeps == ASSUME TopicsInv, NEW r \in Hands, EditRow(r) PROVE TopicsInv'
<1> DEFINE task == hand[r].call
           row == rowOf(task.row)
           moved == task.row \notin Topics /\ task.topic # None
           to == IF task.at = None THEN row ELSE [row EXCEPT !.at = task.at]
           new == IF moved THEN [to EXCEPT !.topic = task.topic] ELSE to
<1>1. writing(r, {"edit"})
  BY DEF EditRow
<1>2. /\ task.op = "edit" /\ task.row \in Topics \cup Pieces
      /\ task.topic \in Topics \cup {None} /\ task.at \in Nat \cup {None}
      /\ row # None \/ task.row \in went
      /\ moved => topicRow[task.topic] # None \/ task.topic \in went
  BY <1>1, HandWrites
<1>3. \/ (row = None \/ (moved /\ topicRow[task.topic] = None)) /\ fails(r)
      \/ /\ row # None /\ ~(moved /\ topicRow[task.topic] = None)
         /\ WriteRow(task.row, new)
         /\ handPlaced' = handPlaced \cup IF moved \/ task.at # None THEN {task.row} ELSE {}
         /\ replies(r, "done") /\ UNCHANGED <<family, practised, went>>
  BY DEF EditRow, isTopic
<1>4. CASE (row = None \/ (moved /\ topicRow[task.topic] = None)) /\ fails(r)
  <2>1. {task.row, task.topic} \cap went # {}
    BY <1>2, <1>4
  <2> QED BY <1>4, <2>1, HandAnswers DEF fails
<1>5. CASE /\ row # None /\ ~(moved /\ topicRow[task.topic] = None)
           /\ WriteRow(task.row, new)
           /\ handPlaced' = handPlaced \cup IF moved \/ task.at # None THEN {task.row} ELSE {}
           /\ replies(r, "done") /\ UNCHANGED <<family, practised, went>>
  <2>1. handPlaced \subseteq handPlaced'
    BY <1>5
  <2>2. CASE task.row \in Topics
    <3>1. row \in TopicType /\ row = topicRow[task.row]
      BY <1>2, <1>5, <2>2, RowTyped
    <3>2. new = to
      BY <2>2
    <3>3. to \in TopicType /\ (to.at = row.at \/ task.row \in handPlaced')
      BY <1>2, <1>5, <3>1, EditedTopic
    <3>4. WriteRow(task.row, to)
      BY <1>5, <3>2
    <3> HIDE DEF to, new
    <3> QED BY <1>5, <2>1, <2>2, <3>1, <3>3, <3>4, TopicRewritten
  <2>3. CASE task.row \notin Topics
    <3>1. row \in PieceType /\ row = pieceRow[task.row] /\ task.row \in Pieces
      BY <1>2, <1>5, <2>3, RowTyped
    <3>2. topicRow[row.topic] # None
      BY <1>5, <3>1 DEF TopicsInv, NoOrphan
    <3>3. to \in PieceType /\ to.topic = row.topic /\ (to.at = row.at \/ task.row \in handPlaced')
      BY <1>2, <1>5, <3>1, PlacedPiece
    <3> HIDE DEF to
    <3>4. CASE task.topic = None
      <4>1. WriteRow(task.row, to)
        BY <1>5, <3>4
      <4> HIDE DEF new
      <4> QED BY <1>5, <2>1, <2>3, <3>1, <3>2, <3>3, <4>1, PieceRewritten
    <3>5. CASE task.topic # None
      <4>1. new = [to EXCEPT !.topic = task.topic] /\ task.row \in handPlaced' /\ topicRow[task.topic] # None
        BY <1>5, <2>3, <3>5
      <4>2. task.topic \in Topics
        BY <1>2, <3>5
      <4> HIDE DEF new
      <4>3. new \in PieceType /\ new.topic = task.topic
        BY <3>3, <4>1, <4>2, MovedPiece
      <4> QED BY <1>5, <2>1, <2>3, <3>1, <4>1, <4>3, PieceRewritten
    <3> QED BY <3>4, <3>5
  <2> QED BY <2>2, <2>3
<1> QED BY <1>3, <1>4, <1>5

LEMMA SwitchKeeps == ASSUME TopicsInv, NEW r \in Hands, Switch(r) PROVE TopicsInv'
<1> DEFINE task == hand[r].call
           row == rowOf(task.row)
           new == [row EXCEPT !.on = task.op = "publish"]
<1>1. writing(r, {"publish", "unpublish"})
  BY DEF Switch
<1>2. task.row \in Topics \cup Pieces /\ (row # None \/ task.row \in went)
  BY <1>1, HandWrites
<1>3. CASE row = None /\ fails(r)
  <2>1. {task.row, task.topic} \cap went # {}
    BY <1>2, <1>3
  <2> QED BY <1>3, <2>1, HandAnswers DEF fails
<1>4. CASE /\ row # None /\ WriteRow(task.row, new) /\ replies(r, "done")
           /\ UNCHANGED <<family, practised, went, handPlaced>>
  <2>1. CASE task.row \in Topics
    <3>1. row \in TopicType /\ row = topicRow[task.row]
      BY <1>2, <1>4, <2>1, RowTyped
    <3>2. new \in TopicType /\ new.at = row.at
      BY <3>1, EditedTopic
    <3> HIDE DEF new
    <3> QED BY <1>4, <2>1, <3>1, <3>2, TopicRewritten
  <2>2. CASE task.row \notin Topics
    <3>1. row \in PieceType /\ row = pieceRow[task.row] /\ task.row \in Pieces
      BY <1>2, <1>4, <2>2, RowTyped
    <3>2. topicRow[row.topic] # None
      BY <1>4, <3>1 DEF TopicsInv, NoOrphan
    <3>3. new \in PieceType /\ new.at = row.at /\ new.topic = row.topic
      BY <3>1, SwitchedPiece
    <3> HIDE DEF new
    <3> QED BY <1>4, <2>2, <3>1, <3>2, <3>3, PieceRewritten
  <2> QED BY <2>1, <2>2
<1> QED BY <1>3, <1>4 DEF Switch

\* A row goes only when nothing holds it.
LEMMA DropKeeps == ASSUME TopicsInv, NEW r \in Hands, Drop(r) PROVE TopicsInv'
<1> DEFINE task == hand[r].call
           x == task.row
<1>1. writing(r, {"remove"})
  BY DEF Drop
<1>2. x \in Topics \cup Pieces /\ (rowOf(x) # None \/ x \in went)
  BY <1>1, HandWrites
<1>3. CASE rowOf(x) = None /\ fails(r)
  <2>1. {task.row, task.topic} \cap went # {}
    BY <1>2, <1>3
  <2> QED BY <1>3, <2>1, HandAnswers DEF fails
<1>4. CASE replies(r, "refused") /\ rowsRest
  BY <1>4, HandAnswers
<1>5. CASE /\ rowOf(x) # None /\ ~holds(x) /\ WriteRow(x, None) /\ went' = went \cup {x}
           /\ replies(r, "done") /\ UNCHANGED <<family, practised, handPlaced>>
  <2>1. CASE x \in Topics
    <3>1. /\ topicRow' = [s \in Topics |-> IF s = x THEN None ELSE topicRow[s]] /\ pieceRow' = pieceRow
          /\ topicRow = [s \in Topics |-> topicRow[s]] /\ pieceRow = [i \in Pieces |-> pieceRow[i]]
      BY <1>5, <2>1, TopicWritten
    <3>2. \A i \in Pieces : pieceRow[i] # None => pieceRow[i].topic # x
      BY <1>5, <2>1 DEF holds, isTopic, piecesOn
    <3>3. \A s \in Topics : topicRow[s] # None => topicRow'[s] # None \/ s \in went'
      BY <1>5, <3>1
    <3>4. TopicsTyped(topicRow', pieceRow')
      BY <3>1 DEF TopicsInv, TopicsTyped
    <3>5. NoOrphan(topicRow', pieceRow', practised')
      <4>1. \A i \in Pieces : pieceRow[i] # None => pieceRow[i].topic \in Topics
        BY DEF TopicsInv, TopicsTyped, PieceType
      <4> QED BY <1>5, <3>1, <3>2, <4>1 DEF TopicsInv, NoOrphan
    <3>6. TopicPlacesApart(topicRow', pieceRow', handPlaced')
      <4>1. \A s \in Topics : topicRow'[s] # None => topicRow'[s] = topicRow[s]
        BY <3>1
      <4> QED BY <1>5, <3>1, <4>1 DEF TopicsInv, TopicPlacesApart
    <3>7. HandsSound(hand', topicRow', pieceRow', went')
      BY <1>5, <3>1, <3>3, HandsAfterWrite
    <3> QED BY <3>4, <3>5, <3>6, <3>7 DEF TopicsInv
  <2>2. CASE x \notin Topics
    <3>1. /\ pieceRow' = [i \in Pieces |-> IF i = x THEN None ELSE pieceRow[i]] /\ topicRow' = topicRow
          /\ topicRow = [s \in Topics |-> topicRow[s]] /\ pieceRow = [i \in Pieces |-> pieceRow[i]]
      BY <1>5, <2>2, PieceWritten
    <3>2. x \notin practised
      BY <1>5, <2>2 DEF holds, isTopic
    <3>3. \A i \in Pieces : pieceRow[i] # None => pieceRow'[i] # None \/ i \in went'
      BY <1>5, <3>1
    <3>4. TopicsTyped(topicRow', pieceRow')
      BY <3>1 DEF TopicsInv, TopicsTyped
    <3>5. NoOrphan(topicRow', pieceRow', practised')
      BY <1>5, <3>1, <3>2 DEF TopicsInv, NoOrphan
    <3>6. TopicPlacesApart(topicRow', pieceRow', handPlaced')
      <4>1. \A i \in Pieces : pieceRow'[i] # None => pieceRow'[i] = pieceRow[i]
        BY <3>1
      <4> QED BY <1>5, <3>1, <4>1 DEF TopicsInv, TopicPlacesApart
    <3>7. HandsSound(hand', topicRow', pieceRow', went')
      BY <1>5, <3>1, <3>3, HandsAfterWrite
    <3> QED BY <3>4, <3>5, <3>6, <3>7 DEF TopicsInv
  <2> QED BY <2>1, <2>2
<1> QED BY <1>3, <1>4, <1>5 DEF Drop

LEMMA PractiseKeeps == ASSUME TopicsInv, NEW r \in Hands, Practise(r) PROVE TopicsInv'
<1> DEFINE task == hand[r].call
           i == task.row
<1>1. writing(r, {"practise"})
  BY DEF Practise
<1>2. /\ task \in HandCalls /\ task.op = "practise"
      /\ rowOf(i) # None \/ i \in went
  BY <1>1, HandWrites
<1>3. i \in Pieces /\ rowOf(i) = pieceRow[i]
  BY <1>2, TopicsAssumption DEF rowOf, isTopic
<1>4. CASE pieceRow[i] = None /\ fails(r)
  <2>1. {task.row, task.topic} \cap went # {}
    BY <1>2, <1>3, <1>4
  <2> QED BY <1>4, <2>1, HandAnswers DEF fails
<1>5. CASE /\ pieceRow[i] # None /\ practised' = practised \cup {i} /\ replies(r, "done")
           /\ UNCHANGED <<family, topicRow, pieceRow, went, handPlaced>>
  <2>1. HandsSound(hand', topicRow', pieceRow', went')
    BY <1>5, HandsAfterWrite
  <2>2. NoOrphan(topicRow', pieceRow', practised')
    BY <1>3, <1>5 DEF TopicsInv, NoOrphan
  <2> QED BY <1>5, <2>1, <2>2 DEF TopicsInv
<1> QED BY <1>4, <1>5 DEF Practise

LEMMA TopicsStep == ASSUME TopicsInv, [TopicsNext]_topicVars PROVE TopicsInv'
<1>1. CASE UNCHANGED topicVars
  BY <1>1 DEF TopicsInv, topicVars
<1>2. CASE TopicsNext
  <2> PICK r \in Hands :
        \/ \E task \in HandCalls : Reach(r, task)
        \/ Seek(r) \/ SeekTopic(r) \/ Place(r) \/ CountFirst(r)
        \/ CreateRow(r) \/ EditRow(r) \/ Switch(r) \/ Drop(r) \/ Practise(r)
    BY <1>2 DEF TopicsNext
  <2> QED BY ReachKeeps, SeekKeeps, SeekTopicKeeps, PlaceKeeps, CountFirstKeeps, CreateRowKeeps,
             EditRowKeeps, SwitchKeeps, DropKeeps, PractiseKeeps
<1> QED BY <1>1, <1>2

\* What a card leads to is what its filter finds, and every piece a student
\* may open is under a topic that is there and on, hence behind a card.
LEMMA CardsThenLead == TopicsInv => CardsLead
<1> SUFFICES ASSUME TopicsInv PROVE CardsLead
  OBVIOUS
<1>1. \A i \in Pieces : pieceRow[i] # None =>
          /\ pieceRow[i].topic \in Topics /\ pieceRow[i].topic # None /\ topicRow[pieceRow[i].topic] # None
          /\ i \notin Topics
  BY TopicsAssumption DEF TopicsInv, TopicsTyped, PieceType, NoOrphan
<1>2. \A i \in Pieces : studentSees(i) <=> /\ pieceRow[i] # None /\ pieceRow[i].on
                                           /\ isOn(pieceRow[i].topic)
  BY <1>1, TopicsAssumption DEF studentSees, isOn, rowOf, isTopic
<1>3. ASSUME NEW s \in Topics, isOn(s)
      PROVE  /\ detailOf(s) = recordingCards(s, Pieces)
             /\ detailOf(s) = {i \in piecesOn(s) : pieceRow[i].on}
  <2>1. \A i \in piecesOn(s) : isOn(i) <=> pieceRow[i].on
    BY <1>1 DEF isOn, rowOf, isTopic, piecesOn
  <2>2. detailOf(s) = {i \in piecesOn(s) : pieceRow[i].on}
    BY <1>3, <2>1 DEF detailOf
  <2>3. s # None
    BY TopicsAssumption
  <2>4. recordingCards(s, Pieces) = {i \in piecesOn(s) : pieceRow[i].on}
    BY <1>2, <1>3, <2>3 DEF recordingCards, piecesOn
  <2> QED BY <2>2, <2>4
<1>4. \A s \in catalogueCards :
          /\ detailOf(s) # {} /\ detailOf(s) = recordingCards(s, Pieces)
          /\ chipCount(s) = Cardinality(recordingCards(s, Pieces))
  BY <1>3 DEF catalogueCards, chipCount
<1>5. recordingCards(None, Pieces) = UNION {detailOf(s) : s \in catalogueCards}
  <2>1. ASSUME NEW i \in recordingCards(None, Pieces) PROVE \E s \in catalogueCards : i \in detailOf(s)
    <3>1. i \in Pieces /\ pieceRow[i] # None /\ pieceRow[i].on /\ isOn(pieceRow[i].topic)
      BY <1>2 DEF recordingCards
    <3>2. i \in piecesOn(pieceRow[i].topic) /\ pieceRow[i].topic \in Topics
      BY <1>1, <3>1 DEF piecesOn
    <3>3. pieceRow[i].topic \in catalogueCards /\ i \in detailOf(pieceRow[i].topic)
      BY <1>3, <3>1, <3>2 DEF catalogueCards
    <3> QED BY <3>3
  <2>2. ASSUME NEW s \in catalogueCards, NEW i \in detailOf(s) PROVE i \in recordingCards(None, Pieces)
    <3>1. s \in Topics /\ i \in piecesOn(s) /\ pieceRow[i].on /\ isOn(s)
      BY <1>3 DEF catalogueCards
    <3> QED BY <1>2, <3>1 DEF recordingCards, piecesOn
  <2> QED BY <2>1, <2>2
<1> QED BY <1>4, <1>5 DEF CardsLead

LEMMA TopicsEntailed == TopicsInv => TopicsSound
<1> SUFFICES ASSUME TopicsInv PROVE TopicsSound
  OBVIOUS
<1>1. NothingOrphaned
  BY DEF TopicsInv, NoOrphan, NothingOrphaned
<1>2. RefusedInWords
  BY DEF TopicsInv, HandsSound, HandSound, RefusedInWords
<1>3. PlacesDiffer
  BY DEF TopicsInv, TopicPlacesApart, PlacesDiffer
<1> QED BY <1>1, <1>2, <1>3, CardsThenLead DEF TopicsSound

(* However editors and students fall in each other's words: cards lead     *)
(* somewhere, nothing practised is removed and no piece loses its topic, a *)
(* bare error is only the answer to a removal that came in between, and    *)
(* places differ unless one was asked for or read too early.               *)
THEOREM TopicsAlwaysSound == TopicsSpec => []TopicsSound
<1>1. TopicsInv /\ [TopicsNext]_topicVars => TopicsInv'
  BY TopicsStep
<1> QED BY <1>1, TopicsInitial, TopicsEntailed, PTL DEF TopicsSpec
=============================================================================
