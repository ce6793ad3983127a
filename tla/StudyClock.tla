----------------------------- MODULE StudyClock -----------------------------
(***************************************************************************)
(* Study time: players, tabs and devices of one student send heartbeats,   *)
(* each asking for some seconds of credit, numbered within its session     *)
(* (StudyTimeService.recordHeartbeat).  A heartbeat sums the seconds       *)
(* credited since the student's midnight and inserts its own, in a READ    *)
(* COMMITTED transaction without a lock.                                   *)
(***************************************************************************)
EXTENDS Absent, Naturals, FiniteSets

CONSTANTS Beats,        \* heartbeats in flight at once, over all devices
          Numbers,      \* the (clientSessionId, sequence) a heartbeat carries
          MaxFlush,     \* MAX_FLUSH_SECONDS: the most one heartbeat may ask for
          DaySeconds,   \* length of a day
          Days          \* bound on the days

ASSUME StudyAssumption ==
    /\ MaxFlush \in Nat /\ DaySeconds \in Nat \ {0} /\ Days \in Nat
    /\ IsFiniteSet(Beats) /\ Beats # {}

VARIABLES now,          \* seconds since the first midnight
          studyEvents,  \* StudyTimeEvent rows
          beat          \* the heartbeats in flight

studyVars == <<now, studyEvents, beat>>

NoBeat == [pc |-> "none", number |-> None, requested |-> 0, at |-> 0, credited |-> 0]

StudyInit ==
    /\ now = 0 /\ studyEvents = {}
    /\ beat = [b \in Beats |-> NoBeat]

dayStart(at) == at - (at % DaySeconds)

\* SUM(creditedSeconds), a second at a time
secondsOf(events) == Cardinality(UNION {{e} \X (1 .. e.credited) : e \in events})

\* sumStudySecondsSince
usedSince(start) == secondsOf({e \in studyEvents : e.at >= start})

creditableSeconds(requested, used, elapsed) ==
    IF elapsed <= used THEN 0
    ELSE IF requested < elapsed - used THEN requested ELSE elapsed - used
-----------------------------------------------------------------------------
(* The clock is read once, when the heartbeat comes in.                    *)
Heartbeat(b, number, seconds) ==
    /\ beat[b] = NoBeat
    /\ beat' = [beat EXCEPT ![b] = [pc |-> "sum", number |-> number, requested |-> seconds,
                                    at |-> now, credited |-> 0]]
    /\ UNCHANGED <<now, studyEvents>>

(* Mutant: the day's total is not looked at. *)
SumNothing(b) ==
    /\ beat[b].pc = "sum"
    /\ beat' = [beat EXCEPT ![b].pc = "insert", ![b].credited =
                  creditableSeconds(beat[b].requested, 0, beat[b].at - dayStart(beat[b].at))]
    /\ UNCHANGED <<now, studyEvents>>

Sum(b) ==
    LET start    == dayStart(beat[b].at)
        credited == creditableSeconds(beat[b].requested, usedSince(start), beat[b].at - start)
    IN  /\ beat[b].pc = "sum"
        /\ beat' = [beat EXCEPT ![b] = IF credited = 0 THEN NoBeat
                      ELSE [@ EXCEPT !.pc = "insert", !.credited = credited]]
        /\ UNCHANGED <<now, studyEvents>>

(* createManyAndReturn with skipDuplicates on (session, sequence).         *)
Insert(b) ==
    /\ beat[b].pc = "insert"
    /\ studyEvents' =
         IF \E e \in studyEvents : e.number = beat[b].number THEN studyEvents
         ELSE studyEvents \cup
                {[number |-> beat[b].number, credited |-> beat[b].credited, at |-> beat[b].at]}
    /\ beat' = [beat EXCEPT ![b] = NoBeat]
    /\ UNCHANGED now

\* The transaction, or the server, fails.
LoseBeat(b) ==
    /\ beat[b] # NoBeat
    /\ beat' = [beat EXCEPT ![b] = NoBeat]
    /\ UNCHANGED <<now, studyEvents>>

Second ==
    /\ now < Days * DaySeconds
    /\ now' = now + 1
    /\ UNCHANGED <<studyEvents, beat>>

StudyNext ==
    \/ Second
    \/ \E b \in Beats :
          \/ Sum(b) \/ Insert(b) \/ LoseBeat(b)
          \/ \E number \in Numbers, seconds \in 1 .. MaxFlush : Heartbeat(b, number, seconds)

StudySpec == StudyInit /\ [][StudyNext]_studyVars
-----------------------------------------------------------------------------
creditedOn(day) ==
    secondsOf({e \in studyEvents : dayStart(e.at) = day * DaySeconds})

elapsedOn(day) ==
    LET e == now - day * DaySeconds IN IF e < DaySeconds THEN e ELSE DaySeconds

(* "total(t) <= elapsed(t) + MAX_FLUSH_SECONDS * N"                        *)
(* (creditable-seconds.ts:25): whatever N devices send, at any moment no   *)
(* day holds more study time than has passed of it and one flush of each   *)
(* other device; heartbeats that wait across midnight count for the day    *)
(* they came in on.                                                        *)
DayHoldsItsSeconds ==
    \A day \in 0 .. Days - 1 :
        now >= day * DaySeconds =>
            creditedOn(day) <= elapsedOn(day) + MaxFlush * (Cardinality(Beats) - 1)
=============================================================================
