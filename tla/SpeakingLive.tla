---------------------------- MODULE SpeakingLive ----------------------------
(***************************************************************************)
(* Speaking practice of one student: attempts are started and completed    *)
(* over HTTP (SpeakingAttemptService), the conversation runs over a socket *)
(* that a one-use ticket opens (SpeakingLiveGateway, SpeakingLiveSession), *)
(* and its turns are kept in Redis until the completion counts them.       *)
(***************************************************************************)
EXTENDS Absent, Naturals, FiniteSets

CONSTANTS Attempts, Sockets, Completions,
          MaxTurns,     \* exchanges kept in Redis (MAX_SPEAKING_TURNS / 2)
          MaxAsked      \* bound on the turns a student begins in one attempt

\* A SpeakingAttempt row
AttemptType == [completed : BOOLEAN, turnCount : Nat]

ASSUME SpeakingAssumption ==
    /\ MaxTurns \in Nat \ {0} /\ MaxAsked \in Nat
    /\ None \notin AttemptType

VARIABLES attempt,     \* SpeakingAttempt rows
          ticket,      \* Redis: the ticket of each attempt
          turns,       \* Redis: exchanges kept for each attempt
          socket,      \* the connections, as handleConnection goes along
          sessions,    \* the gateway's Map: sockets with a session in it
          live,        \* the SpeakingLiveSession of each socket
          saving,      \* finished turns on their way to Redis
          completion,  \* calls of complete
          asked,       \* history: turns the student began
          spoken,      \* history: turns that reached Redis
          late,        \* history: ... after a completion had counted
          blurred,     \* history: expired, truncated or completed twice
          opened       \* history: conversations opened per attempt

speakVars == <<attempt, ticket, turns, socket, sessions, live, saving, completion,
               asked, spoken, late, blurred, opened>>

NoSession == [phase |-> "idle", up |-> FALSE, ended |-> FALSE, user |-> FALSE, ai |-> FALSE]

SpeakInit ==
    /\ attempt = [a \in Attempts |-> None]
    /\ ticket = [a \in Attempts |-> "none"]
    /\ turns = [a \in Attempts |-> 0]
    /\ socket = [s \in Sockets |-> [pc |-> "new", a |-> None, open |-> FALSE]]
    /\ sessions = {} /\ live = [s \in Sockets |-> NoSession]
    /\ saving = [s \in Sockets |-> 0]
    /\ completion = [c \in Completions |-> [pc |-> "new", a |-> None, count |-> 0]]
    /\ asked = [a \in Attempts |-> 0]
    /\ spoken = [a \in Attempts |-> 0] /\ late = [a \in Attempts |-> 0]
    /\ blurred = {} /\ opened = [a \in Attempts |-> 0]

Histories == <<asked, spoken, late, blurred, opened>>
-----------------------------------------------------------------------------
(* start: the row, then the ticket; Redis may refuse the ticket.           *)
Start(a) ==
    /\ attempt[a] = None
    /\ attempt' = [attempt EXCEPT ![a] = [completed |-> FALSE, turnCount |-> 0]]
    /\ UNCHANGED <<ticket, turns, socket, sessions, live, saving, completion, Histories>>

Issue(a) ==
    /\ attempt[a] # None /\ ticket[a] = "none"
    /\ ticket' \in {[ticket EXCEPT ![a] = t] : t \in {"live", "refused"}}
    /\ UNCHANGED <<attempt, turns, socket, sessions, live, saving, completion, Histories>>

\* SPEAKING_LIVE_TICKET_TTL_SECONDS
ExpireTicket(a) ==
    /\ ticket[a] = "live"
    /\ ticket' = [ticket EXCEPT ![a] = "gone"]
    /\ UNCHANGED <<attempt, turns, socket, sessions, live, saving, completion, Histories>>

\* A browser, or two tabs of it, presents the ticket it was given.
Connect(s, a) ==
    /\ socket[s].pc = "new" /\ ticket[a] \in {"live", "gone"}
    /\ socket' = [socket EXCEPT ![s] = [pc |-> "ticket", a |-> a, open |-> TRUE]]
    /\ UNCHANGED <<attempt, ticket, turns, sessions, live, saving, completion, Histories>>

Reject(s) == socket' = [socket EXCEPT ![s].pc = "rejected", ![s].open = FALSE]
Move(s, pc) == socket' = [socket EXCEPT ![s].pc = pc]

(* Mutant: the ticket is read and left to expire. *)
ConsumeLate(s) ==
    LET a == socket[s].a
    IN  /\ socket[s].pc = "ticket"
        /\ IF ticket[a] = "live" THEN Move(s, "limit") ELSE Reject(s)
        /\ UNCHANGED <<attempt, ticket, turns, sessions, live, saving, completion, Histories>>

(* consume-live-ticket.lua: read and deleted in one script.                *)
Consume(s) ==
    LET a == socket[s].a
    IN  /\ socket[s].pc = "ticket"
        /\ IF ticket[a] = "live"
           THEN ticket' = [ticket EXCEPT ![a] = "gone"] /\ Move(s, "limit")
           ELSE UNCHANGED ticket /\ Reject(s)
        /\ UNCHANGED <<attempt, turns, sessions, live, saving, completion, Histories>>

RateLimit(s) ==
    /\ socket[s].pc = "limit"
    /\ Move(s, "context") \/ Reject(s)
    /\ UNCHANGED <<attempt, ticket, turns, sessions, live, saving, completion, Histories>>

LoadContext(s) ==
    /\ socket[s].pc = "context"
    /\ IF attempt[socket[s].a].completed THEN Reject(s) ELSE Move(s, "connect") \/ Reject(s)
    /\ UNCHANGED <<attempt, ticket, turns, sessions, live, saving, completion, Histories>>

(* session.start: Gemini is connected, the opening line is cued, and the   *)
(* socket gets its entry in the Map.  Whether the client is still there is *)
(* not asked.                                                              *)
SessionUp(s) ==
    /\ socket[s].pc = "connect"
    /\ Move(s, "served")
    /\ sessions' = sessions \cup {s}
    /\ live' = [live EXCEPT ![s] = [NoSession EXCEPT !.phase = "opening", !.up = TRUE]]
    /\ opened' = [opened EXCEPT ![socket[s].a] = @ + 1]
    /\ UNCHANGED <<attempt, ticket, turns, saving, completion, asked, spoken, late, blurred>>

SessionFails(s) ==
    /\ socket[s].pc = "connect" /\ Reject(s)
    /\ UNCHANGED <<attempt, ticket, turns, sessions, live, saving, completion, Histories>>

(* handleDisconnect: only a session in the Map is closed.                  *)
Disconnect(s) ==
    /\ socket[s].open
    /\ socket' = [socket EXCEPT ![s].open = FALSE]
    /\ sessions' = sessions \ {s}
    /\ live' = IF s \in sessions
               THEN [live EXCEPT ![s] = [NoSession EXCEPT !.ended = TRUE]] ELSE live
    /\ UNCHANGED <<attempt, ticket, turns, saving, completion, Histories>>
-----------------------------------------------------------------------------
Talking(s) == live[s].up /\ ~live[s].ended

ActivityStart(s) ==
    /\ Talking(s) /\ socket[s].open /\ live[s].phase = "idle"
    /\ asked[socket[s].a] < MaxAsked
    /\ live' = [live EXCEPT ![s].phase = "active", ![s].user = FALSE, ![s].ai = FALSE]
    /\ asked' = [asked EXCEPT ![socket[s].a] = @ + 1]
    /\ UNCHANGED <<attempt, ticket, turns, socket, sessions, saving, completion,
                   spoken, late, blurred, opened>>

\* A delta of a transcription arrives from Gemini, in any phase.
Transcribed(s, who) ==
    /\ Talking(s)
    /\ live' = [live EXCEPT ![s] = IF who = "user" THEN [@ EXCEPT !.user = TRUE]
                                   ELSE [@ EXCEPT !.ai = TRUE]]
    /\ UNCHANGED <<attempt, ticket, turns, socket, sessions, saving, completion, Histories>>

(* Mutant: the opening line is a turn like any other. *)
TurnCompleteAnyPhase(s) ==
    /\ Talking(s) /\ live[s].phase # "idle"
    /\ live' = [live EXCEPT ![s].phase = "idle", ![s].user = FALSE, ![s].ai = FALSE]
    /\ saving' = IF live[s].user /\ live[s].ai THEN [saving EXCEPT ![s] = @ + 1] ELSE saving
    /\ UNCHANGED <<attempt, ticket, turns, socket, sessions, completion, Histories>>

(* turnComplete: ends the opening line, or the turn that is active; a turn *)
(* with an empty side is dropped, any other is sent to Redis.              *)
TurnComplete(s) ==
    /\ Talking(s) /\ live[s].phase # "idle"
    /\ live' = [live EXCEPT ![s].phase = "idle", ![s].user = FALSE, ![s].ai = FALSE]
    /\ saving' = IF live[s].phase = "active" /\ live[s].user /\ live[s].ai
                 THEN [saving EXCEPT ![s] = @ + 1] ELSE saving
    /\ UNCHANGED <<attempt, ticket, turns, socket, sessions, completion, Histories>>

\* Gemini fails or closes: the conversation is over, the entry stays.
Fatal(s) ==
    /\ Talking(s)
    /\ live' = [live EXCEPT ![s] = [NoSession EXCEPT !.ended = TRUE]]
    /\ UNCHANGED <<attempt, ticket, turns, socket, sessions, saving, completion, Histories>>

Counted(a) == \E c \in Completions :
                 completion[c].a = a /\ completion[c].pc \in {"write", "clear", "done"}

(* append-speaking-turn.lua: the oldest exchange goes when there are too   *)
(* many; a key that was cleared is made anew.                              *)
AppendTurn(s) ==
    LET a == socket[s].a
    IN  /\ saving[s] > 0
        /\ saving' = [saving EXCEPT ![s] = @ - 1]
        /\ turns' = [turns EXCEPT ![a] = IF @ < MaxTurns THEN @ + 1 ELSE @]
        /\ blurred' = IF turns[a] < MaxTurns THEN blurred ELSE blurred \cup {a}
        /\ spoken' = [spoken EXCEPT ![a] = @ + 1]
        /\ late' = IF Counted(a) THEN [late EXCEPT ![a] = @ + 1] ELSE late
        /\ UNCHANGED <<attempt, ticket, socket, sessions, live, completion, asked, opened>>

AppendFails(s) ==
    /\ saving[s] > 0
    /\ saving' = [saving EXCEPT ![s] = @ - 1]
    /\ UNCHANGED <<attempt, ticket, turns, socket, sessions, live, completion, Histories>>

ExpireTurns(a) ==
    /\ turns[a] > 0
    /\ turns' = [turns EXCEPT ![a] = 0]
    /\ blurred' = IF Counted(a) THEN blurred ELSE blurred \cup {a}
    /\ UNCHANGED <<attempt, ticket, socket, sessions, live, saving, completion,
                   asked, spoken, late, opened>>
-----------------------------------------------------------------------------
(* complete: a completed row is answered from the row; any other is        *)
(* counted, written without a guard, and cleared.                          *)
CompleteRead(c, a) ==
    /\ completion[c].pc = "new" /\ attempt[a] # None
    /\ completion' = [completion EXCEPT ![c] =
          [pc |-> IF attempt[a].completed THEN "told" ELSE "count", a |-> a, count |-> 0]]
    /\ UNCHANGED <<attempt, ticket, turns, socket, sessions, live, saving, Histories>>

(* Mutant: both sides of an exchange are counted. *)
CountBothSides(c) ==
    LET a == completion[c].a
    IN  /\ completion[c].pc = "count"
        /\ completion' = [completion EXCEPT ![c].pc = "write", ![c].count = 2 * turns[a]]
        /\ blurred' = IF Counted(a) THEN blurred \cup {a} ELSE blurred
        /\ UNCHANGED <<attempt, ticket, turns, socket, sessions, live, saving,
                       asked, spoken, late, opened>>

Count(c) ==
    LET a == completion[c].a
    IN  /\ completion[c].pc = "count"
        /\ completion' = [completion EXCEPT ![c].pc = "write", ![c].count = turns[a]]
        /\ blurred' = IF Counted(a) THEN blurred \cup {a} ELSE blurred
        /\ UNCHANGED <<attempt, ticket, turns, socket, sessions, live, saving,
                       asked, spoken, late, opened>>

WriteCompletion(c) ==
    /\ completion[c].pc = "write"
    /\ attempt' = [attempt EXCEPT ![completion[c].a] =
                     [completed |-> TRUE, turnCount |-> completion[c].count]]
    /\ completion' = [completion EXCEPT ![c].pc = "clear"]
    /\ UNCHANGED <<ticket, turns, socket, sessions, live, saving, Histories>>

Clear(c) ==
    /\ completion[c].pc = "clear"
    /\ turns' = [turns EXCEPT ![completion[c].a] = 0]
    /\ completion' = [completion EXCEPT ![c].pc = "done"]
    /\ UNCHANGED <<attempt, ticket, socket, sessions, live, saving, Histories>>

\* Redis, the database or the server fails: the rest does not happen.
CompleteFails(c) ==
    /\ completion[c].pc \in {"count", "write", "clear"}
    /\ completion' = [completion EXCEPT ![c].pc = IF @ = "count" THEN "failed" ELSE "done"]
    /\ UNCHANGED <<attempt, ticket, turns, socket, sessions, live, saving, Histories>>

SpeakNext ==
    \/ \E a \in Attempts : Start(a) \/ Issue(a) \/ ExpireTicket(a) \/ ExpireTurns(a)
    \/ \E s \in Sockets :
          \/ \E a \in Attempts : Connect(s, a)
          \/ Consume(s) \/ RateLimit(s) \/ LoadContext(s) \/ SessionUp(s) \/ SessionFails(s)
          \/ Disconnect(s) \/ ActivityStart(s) \/ TurnComplete(s) \/ Fatal(s)
          \/ \E who \in {"user", "ai"} : Transcribed(s, who)
          \/ AppendTurn(s) \/ AppendFails(s)
    \/ \E c \in Completions :
          \/ \E a \in Attempts : CompleteRead(c, a)
          \/ Count(c) \/ WriteCompletion(c) \/ Clear(c) \/ CompleteFails(c)

SpeakSpec == SpeakInit /\ [][SpeakNext]_speakVars
-----------------------------------------------------------------------------
(* Only a turn the student began reaches Redis, and a completed attempt    *)
(* counts each of them that had when it was counted, once, although turns  *)
(* are still being saved: no opening line counts, and no ticket opens a    *)
(* second conversation beside the first.  Exempt are the attempts whose    *)
(* turns expired, overflowed, or were counted by two completions           *)
(* (speaking-attempt.service.ts:162-183, speaking-live-ticket.store.ts).   *)
EveryTurnCounted ==
    \A a \in Attempts :
        /\ opened[a] <= 1
        /\ spoken[a] <= asked[a]
        /\ attempt[a] # None /\ attempt[a].completed /\ a \notin blurred =>
              attempt[a].turnCount + late[a] = spoken[a]

(* "Client disconnected - discard any in-flight turn and tear down the     *)
(* Gemini side" (speaking-live-session.ts:155): no conversation is open    *)
(* for a client that has left.                                             *)
NobodyTalksAlone == \A s \in Sockets : Talking(s) => socket[s].open
=============================================================================
