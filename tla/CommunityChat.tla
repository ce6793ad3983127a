--------------------------- MODULE CommunityChat ---------------------------
(***************************************************************************)
(* The community room (src/community-chat): messages sent over REST,       *)
(* persisted once per client id and broadcast to the open sockets, a       *)
(* history read page by page from the newest, and one read cursor a user.  *)
(*                                                                         *)
(* createdAt is taken before the row is committed, so rows may appear in   *)
(* an order that is not theirs.  Two rows of one millisecond are ordered   *)
(* by their ids.  Rows are never changed or deleted, so that a page may be *)
(* read in one step.  One user reads, with one socket.                     *)
(***************************************************************************)
EXTENDS Absent, Naturals, FiniteSets, Sequences

CONSTANTS
    Posts,          \* POST requests
    messageOf,      \* the client message id of each; retries share one
    Tickets,        \* live tickets
    MaxLive,        \* RATE_LIMIT_MAX of live-connect
    PageSize,
    CursorCalls,    \* the reader's markRead and unreadCount requests
    MaxNow, MaxRestarts     \* bounds

ASSUME CommunityAssumption ==
    /\ MaxLive \in Nat /\ PageSize \in Nat \ {0} /\ MaxNow \in Nat /\ MaxRestarts \in Nat
    /\ IsFiniteSet(Posts) /\ None \notin Nat

VARIABLES
    clock,      \* milliseconds, and how often the process was restarted
    room,       \* CommunityMessage rows: [id, at, rank]; rank orders the row ids
    post,       \* the POSTs
    socket,     \* the reader's: [pc, connects]; "open" is being in `clients`
    ticket,     \* which tickets Redis holds
    received,   \* rows broadcast to the socket
    scroll,     \* the history the reader holds: rows, whether there is more,
                \* the room of his first page, and whether he listened since
    cursor,     \* CommunityReadState.lastReadAt, or None
    marking,    \* the cursor requests
    unheard,    \* history: rows whose broadcast died with the process
    overtaken   \* history: marks during which the cursor row was created

roomVars == <<clock, room, post, socket, ticket, received, scroll, cursor, marking, unheard,
              overtaken>>

messages == {messageOf[p] : p \in Posts}
NewPost == [pc |-> "new", at |-> 0, row |-> None]
NewScroll == [rows |-> {}, more |-> TRUE, first |-> None, live |-> FALSE]

RoomInit ==
    /\ clock = [now |-> 1, restarts |-> 0]
    /\ room = {} /\ post = [p \in Posts |-> NewPost]
    /\ socket = [pc |-> "closed", connects |-> 0] /\ ticket = [t \in Tickets |-> "none"]
    /\ received = {} /\ scroll = NewScroll
    /\ cursor = None /\ marking = [c \in CursorCalls |-> [pc |-> "new", now |-> 0]]
    /\ unheard = {} /\ overtaken = {}
-----------------------------------------------------------------------------
(* sendMessage                                                             *)

\* create stamps the row ...
Stamp(p) ==
    /\ post[p].pc = "new"
    /\ post' = [post EXCEPT ![p] = [pc |-> "insert", at |-> clock.now, row |-> None]]
    /\ UNCHANGED <<clock, room, socket, ticket, received, scroll, cursor, marking, unheard, overtaken>>

\* ... and inserts it; an id that is there answers with the row that has it.
Insert(p) ==
    /\ post[p].pc = "insert"
    /\ IF \E row \in room : row.id = messageOf[p]
       THEN post' = [post EXCEPT ![p].pc = "answered"] /\ UNCHANGED room
       ELSE \E rank \in 1 .. Cardinality(messages) \ {row.rank : row \in room} :
              LET row == [id |-> messageOf[p], at |-> post[p].at, rank |-> rank]
              IN  /\ post' = [post EXCEPT ![p].pc = "broadcast", ![p].row = row]
                  /\ room' = room \cup {row}
    /\ UNCHANGED <<clock, socket, ticket, received, scroll, cursor, marking, unheard, overtaken>>

Broadcast(p) ==
    /\ post[p].pc = "broadcast"
    /\ post' = [post EXCEPT ![p].pc = "answered"]
    /\ received' = IF socket.pc = "open" THEN received \cup {post[p].row} ELSE received
    /\ UNCHANGED <<clock, room, socket, ticket, scroll, cursor, marking, unheard, overtaken>>
-----------------------------------------------------------------------------
(* CommunityChatTicketStore and handleConnection                           *)

IssueTicket(t) ==
    /\ ticket[t] = "none" /\ ticket' = [ticket EXCEPT ![t] = "held"]
    /\ UNCHANGED <<clock, room, post, socket, received, scroll, cursor, marking, unheard, overtaken>>

ExpireTicket(t) ==
    /\ ticket[t] = "held" /\ ticket' = [ticket EXCEPT ![t] = "gone"]
    /\ UNCHANGED <<clock, room, post, socket, received, scroll, cursor, marking, unheard, overtaken>>

\* consume: get and delete in one script
Connect(t) ==
    /\ socket.pc = "closed" /\ ticket[t] # "none"
    /\ socket' = IF ticket[t] = "held" THEN [socket EXCEPT !.pc = "limit"] ELSE socket
    /\ ticket' = [ticket EXCEPT ![t] = "gone"]
    /\ UNCHANGED <<clock, room, post, received, scroll, cursor, marking, unheard, overtaken>>

\* checkAndIncrement, then clients.add
Admit ==
    /\ socket.pc = "limit"
    /\ socket' = [pc |-> IF socket.connects < MaxLive THEN "open" ELSE "closed",
                  connects |-> socket.connects + 1]
    /\ UNCHANGED <<clock, room, post, ticket, received, scroll, cursor, marking, unheard, overtaken>>

Disconnect ==
    /\ socket.pc = "open"
    /\ socket' = [socket EXCEPT !.pc = "closed"] /\ scroll' = [scroll EXCEPT !.live = FALSE]
    /\ UNCHANGED <<clock, room, post, ticket, received, cursor, marking, unheard, overtaken>>
-----------------------------------------------------------------------------
(* listMessages                                                            *)

older(a, b) == a.at < b.at \/ (a.at = b.at /\ a.rank < b.rank)
oldest(rows) == CHOOSE row \in rows : \A other \in rows \ {row} : older(row, other)

newest(rows, n) == {row \in rows : Cardinality({other \in rows : older(row, other)}) < n}

(* Mutant: the page starts under the cursor's createdAt.                   *)
earlierAt(row, mark) == row.at < mark.at
before(row, mark) == older(row, mark)

\* The first page, on an open screen ...
OpenHistory ==
    /\ scroll' = [rows |-> newest(room, PageSize), more |-> Cardinality(room) > PageSize,
                  first |-> room, live |-> socket.pc = "open"]
    /\ scroll' # scroll
    /\ received' = {}
    /\ UNCHANGED <<clock, room, post, socket, ticket, cursor, marking, unheard, overtaken>>

\* ... and the ones before it.
ScrollUp ==
    /\ scroll.more /\ scroll.rows # {}
    /\ LET rest == {row \in room : before(row, oldest(scroll.rows))}
       IN  scroll' = [scroll EXCEPT !.rows = @ \cup newest(rest, PageSize),
                                    !.more = Cardinality(rest) > PageSize]
    /\ UNCHANGED <<clock, room, post, socket, ticket, received, cursor, marking, unheard, overtaken>>
-----------------------------------------------------------------------------
(* markRead and unreadCount                                                *)

UnreadCount(c) ==
    /\ marking[c].pc = "new" /\ marking' = [marking EXCEPT ![c].pc = "done"]
    /\ cursor' = IF cursor = None THEN clock.now ELSE cursor
    /\ overtaken' = IF cursor = None THEN overtaken \cup {d \in CursorCalls : marking[d].pc = "upsert"}
                    ELSE overtaken
    /\ UNCHANGED <<clock, room, post, socket, ticket, received, scroll, unheard>>

TakeNow(c) ==
    /\ marking[c].pc = "new" /\ marking' = [marking EXCEPT ![c] = [pc |-> "update", now |-> clock.now]]
    /\ UNCHANGED <<clock, room, post, socket, ticket, received, scroll, cursor, unheard, overtaken>>

(* Mutant: the time is written without a look at the row's.                *)
AdvanceAlways(c) ==
    /\ marking[c].pc = "update"
    /\ IF cursor # None
       THEN cursor' = marking[c].now /\ marking' = [marking EXCEPT ![c].pc = "done"]
       ELSE marking' = [marking EXCEPT ![c].pc = "upsert"] /\ UNCHANGED cursor
    /\ UNCHANGED <<clock, room, post, socket, ticket, received, scroll, unheard, overtaken>>

\* updateMany under lastReadAt < now
Advance(c) ==
    /\ marking[c].pc = "update"
    /\ IF cursor # None /\ cursor < marking[c].now
       THEN cursor' = marking[c].now /\ marking' = [marking EXCEPT ![c].pc = "done"]
       ELSE marking' = [marking EXCEPT ![c].pc = "upsert"] /\ UNCHANGED cursor
    /\ UNCHANGED <<clock, room, post, socket, ticket, received, scroll, unheard, overtaken>>

\* upsert: create, or leave the row that is there
CreateCursor(c) ==
    /\ marking[c].pc = "upsert" /\ marking' = [marking EXCEPT ![c].pc = "done"]
    /\ cursor' = IF cursor = None THEN marking[c].now ELSE cursor
    /\ overtaken' = IF cursor = None
                    THEN overtaken \cup {d \in CursorCalls \ {c} : marking[d].pc = "upsert"}
                    ELSE overtaken
    /\ UNCHANGED <<clock, room, post, socket, ticket, received, scroll, unheard>>
-----------------------------------------------------------------------------
Pass ==
    /\ clock.now < MaxNow /\ clock' = [clock EXCEPT !.now = @ + 1]
    /\ UNCHANGED <<room, post, socket, ticket, received, scroll, cursor, marking, unheard, overtaken>>

\* The process restarts: sockets close, and the senders' clients retry.
Restart ==
    /\ clock.restarts < MaxRestarts /\ clock' = [clock EXCEPT !.restarts = @ + 1]
    /\ socket' = [socket EXCEPT !.pc = "closed"] /\ scroll' = [scroll EXCEPT !.live = FALSE]
    /\ unheard' = unheard \cup {post[p].row : p \in {q \in Posts : post[q].pc = "broadcast"}}
    /\ post' = [p \in Posts |-> IF post[p].pc = "answered" THEN post[p] ELSE NewPost]
    /\ UNCHANGED <<room, ticket, received, cursor, marking, overtaken>>

RoomNext ==
    \/ \E p \in Posts : Stamp(p) \/ Insert(p) \/ Broadcast(p)
    \/ \E t \in Tickets : IssueTicket(t) \/ ExpireTicket(t) \/ Connect(t)
    \/ Admit \/ Disconnect \/ OpenHistory \/ ScrollUp
    \/ \E c \in CursorCalls : UnreadCount(c) \/ TakeNow(c) \/ Advance(c) \/ CreateCursor(c)
    \/ Pass \/ Restart

RoomSpec == RoomInit /\ [][RoomNext]_roomVars
-----------------------------------------------------------------------------
(* Properties                                                              *)

\* still above the part of the history that was loaded
toScroll(row) == scroll.more /\ scroll.rows # {} /\ older(row, oldest(scroll.rows))

(* Scrolling up neither skips nor repeats a message: what the room held    *)
(* when the history was opened is listed or still to come, rows of one     *)
(* millisecond included, and a message sent again is one message.          *)
HistoryExact ==
    /\ scroll.first # None => \A row \in scroll.first : row \in scroll.rows \/ toScroll(row)
    /\ \A a, b \in room : a.id = b.id => a = b

(* A reader who opens the history with his socket open, and keeps it open, *)
(* misses no message: each was listed, is to come, was broadcast to him,   *)
(* or is about to be, however late its row was committed.                  *)
NothingMissed ==
    scroll.live =>
        \A row \in room :
            \/ row \in scroll.rows \cup received \/ toScroll(row) \/ row \in unheard
            \/ \E p \in Posts : post[p].pc = "broadcast" /\ post[p].row = row

(* The read cursor never falls back: a mark that was answered has read up  *)
(* to its time for good, unless the cursor came into being meanwhile.      *)
MarksHold ==
    \A c \in CursorCalls \ overtaken :
        marking[c].pc = "done" => cursor # None /\ cursor >= marking[c].now

RoomSound == HistoryExact /\ NothingMissed /\ MarksHold
=============================================================================
