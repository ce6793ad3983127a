---------------------------- MODULE PaymentOrders ----------------------------
(***************************************************************************)
(* PaymentService.createOrReusePayment: POST /payments hands out one live  *)
(* order per user and plan.  The decision is guarded by a Redis key taken  *)
(* with SET NX EX and dropped by an unconditional DEL; the order itself is *)
(* read, and created, by separate database statements.                     *)
(*                                                                         *)
(* A pair <<user, plan>> is a key: of the lock, and of a subscription.     *)
(***************************************************************************)
EXTENDS Integers

CONSTANTS Users, Plans,
          Codes,               \* the payment codes that can be drawn
          Transfers,           \* the bank transfers SePay reports
          Requests,            \* POST /payments requests, each made once
          LOCK_POLL_ATTEMPTS,  \* polls of a request that lost the lock
          PastOrders,          \* the unpaid orders there may be to begin with
          None

PlanKeys == Users \X Plans

NoOrder == [key |-> None, status |-> "NONE", lapsed |-> FALSE, paidBy |-> None]
NewOrder(key) ==
    [key |-> key, status |-> "PENDING", lapsed |-> FALSE, paidBy |-> None]

ASSUME OrdersAssumption ==
    /\ LOCK_POLL_ATTEMPTS \in Nat \ {0}
    /\ None \notin PlanKeys \cup Codes \cup Transfers
    /\ \A past \in PastOrders :
          /\ past \in [Codes -> {NoOrder} \cup
                         [key : PlanKeys, status : {"PENDING"}, lapsed : BOOLEAN,
                          paidBy : {None}]]
          /\ \A c, d \in Codes :
                past[c].key = past[d].key /\ past[c].key # None
                /\ ~past[c].lapsed /\ ~past[d].lapsed => c = d

VARIABLES orders,      \* the payments table, by payment code
          createLock,  \* the keys whose create lock exists in Redis
          request,     \* the requests
          overrun      \* history: the keys whose lock lapsed under a holder

orderVars == <<orders, createLock, request, overrun>>

IsLive(c, key) ==
    orders[c].key = key /\ orders[c].status = "PENDING" /\ ~orders[c].lapsed

(* The live orders of a key: PENDING rows whose expiresAt is ahead.        *)
findLivePending(key) == {c \in Codes : IsLive(c, key)}

NewRequest == [pc |-> "new", key |-> None, polls |-> 0, order |-> None]

(* The requests that believe they hold the lock of a key. *)
Holders(key) ==
    {r \in Requests : request[r].key = key
                      /\ request[r].pc \in {"deciding", "creating", "releasing"}}

OrdersInit ==
    /\ orders \in PastOrders
    /\ createLock = {}
    /\ request = [r \in Requests |-> NewRequest]
    /\ overrun = {}
-----------------------------------------------------------------------------
(* Mutant: SET without NX. *)
AcquireWithoutNX(r, key) ==
    /\ request[r].pc = "new"
    /\ createLock' = createLock \cup {key}
    /\ request' = [request EXCEPT ![r].pc = "deciding", ![r].key = key]
    /\ UNCHANGED <<orders, overrun>>

(* SET lockKey 1 EX 10 NX answers OK. *)
Acquire(r, key) ==
    /\ request[r].pc = "new"
    /\ key \notin createLock
    /\ createLock' = createLock \cup {key}
    /\ request' = [request EXCEPT ![r].pc = "deciding", ![r].key = key]
    /\ UNCHANGED <<orders, overrun>>

(* It answers null: someone else is deciding. *)
Contend(r, key) ==
    /\ request[r].pc = "new"
    /\ key \in createLock
    /\ request' = [request EXCEPT ![r].pc = "polling", ![r].key = key]
    /\ UNCHANGED <<orders, createLock, overrun>>

(* Redis cannot be reached: 503, nothing was touched. *)
Unavailable(r) ==
    /\ request[r].pc = "new"
    /\ request' = [request EXCEPT ![r].pc = "failed"]
    /\ UNCHANGED <<orders, createLock, overrun>>

Reuse(r, pc) ==
    \E c \in findLivePending(request[r].key) :
        request' = [request EXCEPT ![r].pc = pc, ![r].order = c]

(* Mutant: the poll loop has no budget. *)
PollForever(r) ==
    /\ request[r].pc = "polling"
    /\ Reuse(r, "answered") \/ (findLivePending(request[r].key) = {} /\ UNCHANGED request)
    /\ UNCHANGED <<orders, createLock, overrun>>

(* One poll: the holder's order is handed out, or the attempt is counted   *)
(* and the last one ends in PaymentCreationInProgressException.            *)
Poll(r) ==
    /\ request[r].pc = "polling"
    /\ \/ Reuse(r, "answered")
       \/ /\ findLivePending(request[r].key) = {}
          /\ request' = [request EXCEPT ![r].polls = @ + 1,
                            ![r].pc = IF request[r].polls + 1 = LOCK_POLL_ATTEMPTS
                                      THEN "failed" ELSE "polling"]
    /\ UNCHANGED <<orders, createLock, overrun>>

(* The holder looks for a live order before it creates one. *)
Decide(r) ==
    /\ request[r].pc = "deciding"
    /\ \/ Reuse(r, "releasing")
       \/ /\ findLivePending(request[r].key) = {}
          /\ request' = [request EXCEPT ![r].pc = "creating"]
    /\ UNCHANGED <<orders, createLock, overrun>>

(* createNewPayment: a code that is taken is drawn again.                  *)
Create(r) ==
    /\ request[r].pc = "creating"
    /\ \E c \in Codes :
          /\ orders[c] = NoOrder
          /\ orders' = [orders EXCEPT ![c] = NewOrder(request[r].key)]
          /\ request' = [request EXCEPT ![r].pc = "releasing", ![r].order = c]
    /\ UNCHANGED <<createLock, overrun>>

(* MAX_CODE_COLLISION_RETRIES taken codes, or the database fails. *)
CreateFails(r) ==
    /\ request[r].pc \in {"deciding", "creating"}
    /\ request' = [request EXCEPT ![r].pc = "releasing"]
    /\ UNCHANGED <<orders, createLock, overrun>>

(* The finally block: DEL, whoever's key it is by now, and if the DEL      *)
(* fails the key is left to its TTL.                                       *)
Release(r) ==
    /\ request[r].pc = "releasing"
    /\ request' = [request EXCEPT ![r].pc = IF request[r].order = None
                                            THEN "failed" ELSE "answered"]
    /\ createLock' \in {createLock, createLock \ {request[r].key}}
    /\ UNCHANGED <<orders, overrun>>

(* LOCK_TTL_SECONDS run out, under a slow holder or after a lost DEL.      *)
LockLapses(key) ==
    /\ key \in createLock
    /\ createLock' = createLock \ {key}
    /\ overrun' = IF Holders(key) = {} THEN overrun ELSE overrun \cup {key}
    /\ UNCHANGED <<orders, request>>

(* The server dies: its request is never answered, its lock is not dropped. *)
ServerDies(r) ==
    /\ request[r].pc \notin {"new", "answered", "failed"}
    /\ request' = [request EXCEPT ![r].pc = "failed"]
    /\ UNCHANGED <<orders, createLock, overrun>>

(* PAYMENT_ORDER_TTL_MINUTES pass: EXPIRED on display, PENDING in the row. *)
OrderLapses(c) ==
    /\ orders[c].status = "PENDING" /\ ~orders[c].lapsed
    /\ orders' = [orders EXCEPT ![c].lapsed = TRUE]
    /\ UNCHANGED <<createLock, request, overrun>>

(* The settlement by a transfer, see Subscriptions. *)
Settled(c, t) == [orders EXCEPT ![c].status = "PAID", ![c].paidBy = t]

Settle(c, t) ==
    /\ orders[c].status = "PENDING"
    /\ orders' = Settled(c, t)
    /\ UNCHANGED <<createLock, request, overrun>>

RequestStep(r) == Poll(r) \/ Decide(r) \/ Create(r) \/ CreateFails(r) \/ Release(r)

CreationNext ==
    \/ \E r \in Requests : RequestStep(r) \/ Unavailable(r) \/ ServerDies(r)
    \/ \E r \in Requests, key \in PlanKeys : Acquire(r, key) \/ Contend(r, key)
    \/ \E key \in PlanKeys : LockLapses(key)
    \/ \E c \in Codes : OrderLapses(c)

OrdersNext ==
    CreationNext \/ \E c \in Codes, t \in Transfers : Settle(c, t)

OrdersSpec == OrdersInit /\ [][OrdersNext]_orderVars
-----------------------------------------------------------------------------
OrderType ==
    {NoOrder} \cup
    [key : PlanKeys, status : {"PENDING", "PAID"}, lapsed : BOOLEAN,
     paidBy : Transfers \cup {None}]

RequestType ==
    [pc : {"new", "polling", "deciding", "creating", "releasing", "answered",
           "failed"},
     key : PlanKeys \cup {None}, polls : 0 .. LOCK_POLL_ATTEMPTS,
     order : Codes \cup {None}]

OrdersTypeOK ==
    /\ orders \in [Codes -> OrderType]
    /\ createLock \subseteq PlanKeys
    /\ request \in [Requests -> RequestType]
    /\ overrun \subseteq PlanKeys

(* However requests interleave, with lost DELs, crashes, lapsing orders    *)
(* and settlements, a user has at most one live order per plan, as long as *)
(* no request outlived the ten seconds of its lock.                        *)
OneLiveOrder ==
    \A key \in PlanKeys \ overrun, c, d \in Codes :
        IsLive(c, key) /\ IsLive(d, key) => c = d
=============================================================================
