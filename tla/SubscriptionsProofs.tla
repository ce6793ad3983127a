------------------------- MODULE SubscriptionsProofs -------------------------
(***************************************************************************)
(* The jobs that move subscriptions settle orders as PaymentOrders allows, *)
(* so that its theorem about live orders holds of the whole; and the       *)
(* payment a subscription names is always one that was made for it.        *)
(***************************************************************************)
EXTENDS Subscriptions, FiniteSetTheorems, TLAPS

(* The create lock keeps a user to one live order per plan, for any number *)
(* of users, plans and requests, until a request outlives its lock.        *)

Holding(r) == request[r].pc \in {"deciding", "creating", "releasing"}

(* Who holds the lock, or may be about to create, has a key; as long as no *)
(* lock lapsed under its holder, the lock exists while it is held, and it  *)
(* is held by one request.                                                 *)
KeyKnown  == \A r \in Requests : request[r].pc \notin {"new", "failed"} =>
                                    request[r].key \in PlanKeys
LockHeld  == \A r \in Requests : Holding(r) /\ request[r].key \notin overrun =>
                                    request[r].key \in createLock
OneHolder == \A r, s \in Requests :
                Holding(r) /\ Holding(s) /\ request[r].key = request[s].key
                /\ request[r].key \notin overrun => r = s

(* What the holder saw before it creates is still so. *)
NothingLive ==
    \A r \in Requests, c \in Codes :
        request[r].pc = "creating" /\ request[r].key \notin overrun =>
            ~IsLive(c, request[r].key)

(* A request polls no longer than its budget. *)
PollsLeft == \A r \in Requests : request[r].pc \in {"new", "polling"} =>
                                    request[r].polls < LOCK_POLL_ATTEMPTS

OrdersInv ==
    /\ OrdersTypeOK /\ KeyKnown /\ PollsLeft
    /\ LockHeld /\ OneHolder
    /\ NothingLive /\ OneLiveOrder

LEMMA OrdersInitInv == OrdersInit => OrdersInv
<1> SUFFICES ASSUME OrdersInit PROVE OrdersInv  OBVIOUS
<1>1. \A r \in Requests : request[r] = NewRequest  BY DEF OrdersInit
<1>2. orders \in [Codes -> OrderType]
  BY OrdersAssumption DEF OrdersInit, OrderType
<1>3. OrdersTypeOK
  BY <1>2, OrdersAssumption DEF OrdersInit, OrdersTypeOK, RequestType, NewRequest
<1>4. KeyKnown /\ LockHeld /\ OneHolder /\ NothingLive
  BY <1>1 DEF KeyKnown, LockHeld, OneHolder, NothingLive, Holding, NewRequest
<1>5. OneLiveOrder
  BY OrdersAssumption DEF OrdersInit, OneLiveOrder, IsLive
<1>6. PollsLeft  BY <1>1, OrdersAssumption DEF PollsLeft, NewRequest
<1>7. QED  BY <1>3, <1>4, <1>5, <1>6 DEF OrdersInv

(* Steps that leave the orders and the set of holders alone, or shrink it. *)
LEMMA OneRequestMoves ==
    ASSUME OrdersInv, OrdersTypeOK', NEW r \in Requests, NEW new,
           request' = [request EXCEPT ![r] = new],
           UNCHANGED <<orders, createLock, overrun>>,
           new.pc \notin {"new", "failed"} => new.key \in PlanKeys,
           new.pc \in {"deciding", "creating", "releasing"} =>
              new.key = request[r].key /\ Holding(r),
           new.pc = "creating" => findLivePending(new.key) = {},
           new.pc \in {"new", "polling"} => new.polls < LOCK_POLL_ATTEMPTS
    PROVE  OrdersInv'
<1>1. request \in [Requests -> RequestType]  BY DEF OrdersInv, OrdersTypeOK
<1>2. request'[r] = new /\ \A s \in Requests \ {r} : request'[s] = request[s]  BY <1>1
<1>3. KeyKnown'  BY <1>2 DEF OrdersInv, KeyKnown
<1>4. LockHeld'  BY <1>2 DEF OrdersInv, LockHeld, Holding
<1>5. OneHolder'  BY <1>2 DEF OrdersInv, OneHolder, Holding
<1>6. NothingLive'
  BY <1>2 DEF OrdersInv, NothingLive, IsLive, findLivePending
<1>7. OneLiveOrder'  BY DEF OrdersInv, OneLiveOrder, IsLive
<1>8. PollsLeft'  BY <1>2 DEF OrdersInv, PollsLeft
<1>9. QED  BY <1>3, <1>4, <1>5, <1>6, <1>7, <1>8 DEF OrdersInv

(* Steps that only take orders off the live ones. *)
LEMMA FewerLive ==
    ASSUME OrdersInv, OrdersTypeOK', UNCHANGED <<createLock, request, overrun>>,
           \A c \in Codes, key \in PlanKeys : IsLive(c, key)' => IsLive(c, key)
    PROVE  OrdersInv'
<1>1. KeyKnown' /\ LockHeld' /\ OneHolder' /\ PollsLeft'
  BY DEF OrdersInv, KeyKnown, LockHeld, OneHolder, Holding, PollsLeft
<1>2. NothingLive'
  <2>1. SUFFICES ASSUME NEW r \in Requests, NEW c \in Codes, request[r].pc = "creating",
                        request[r].key \notin overrun, IsLive(c, request[r].key)'
                 PROVE  FALSE
    BY DEF NothingLive
  <2>2. request[r].key \in PlanKeys  BY <2>1 DEF OrdersInv, KeyKnown
  <2>3. request'[r].key = request[r].key  OBVIOUS
  <2>4. IsLive(c, request[r].key)  BY <2>1, <2>2, <2>3
  <2>5. QED  BY <2>1, <2>4 DEF OrdersInv, NothingLive
<1>3. OneLiveOrder'
  <2>1. SUFFICES ASSUME NEW key \in PlanKeys \ overrun, NEW c \in Codes, NEW d \in Codes,
                        IsLive(c, key)', IsLive(d, key)'
                 PROVE  c = d
    BY DEF OneLiveOrder
  <2>2. IsLive(c, key) /\ IsLive(d, key)  BY <2>1
  <2>3. QED  BY <2>2 DEF OrdersInv, OneLiveOrder
<1>4. QED  BY <1>1, <1>2, <1>3 DEF OrdersInv

LEMMA OrdersNextType == OrdersInv /\ [OrdersNext]_orderVars => OrdersTypeOK'
<1> SUFFICES ASSUME OrdersInv, [OrdersNext]_orderVars PROVE OrdersTypeOK'  OBVIOUS
<1>1. /\ orders \in [Codes -> OrderType]
      /\ createLock \subseteq PlanKeys /\ overrun \subseteq PlanKeys
      /\ request \in [Requests -> RequestType]
  BY DEF OrdersInv, OrdersTypeOK
<1>2. ASSUME NEW r \in Requests, NEW key \in PlanKeys, Acquire(r, key)
      PROVE  OrdersTypeOK'
  BY <1>1, <1>2, ZenonT(60) DEF Acquire, OrdersTypeOK, RequestType
<1>3. ASSUME NEW r \in Requests, NEW key \in PlanKeys, Contend(r, key)
      PROVE  OrdersTypeOK'
  BY <1>1, <1>3, ZenonT(60) DEF Contend, OrdersTypeOK, RequestType
<1>4. ASSUME NEW r \in Requests, Poll(r) PROVE OrdersTypeOK'
  <2>1. CASE Reuse(r, "answered")
    <3>1. PICK c \in Codes :
            request' = [request EXCEPT ![r].pc = "answered", ![r].order = c]
      BY <2>1 DEF Reuse, findLivePending
    <3>2. request' \in [Requests -> RequestType]  BY <1>1, <3>1, ZenonT(60) DEF RequestType
    <3>3. QED  BY <1>1, <1>4, <3>2 DEF Poll, OrdersTypeOK
  <2>2. CASE request' = [request EXCEPT ![r].polls = @ + 1,
                            ![r].pc = IF request[r].polls + 1 = LOCK_POLL_ATTEMPTS
                                      THEN "failed" ELSE "polling"]
    <3>1. request[r].polls \in 0 .. LOCK_POLL_ATTEMPTS  BY <1>1 DEF RequestType
    <3>2. request[r].polls < LOCK_POLL_ATTEMPTS
      BY <1>4 DEF Poll, OrdersInv, PollsLeft
    <3>3. request[r].polls + 1 \in 0 .. LOCK_POLL_ATTEMPTS
      BY <3>1, <3>2, OrdersAssumption
    <3> DEFINE new == [request[r] EXCEPT !.polls = request[r].polls + 1,
                          !.pc = IF request[r].polls + 1 = LOCK_POLL_ATTEMPTS
                                 THEN "failed" ELSE "polling"]
    <3>4. new \in RequestType  BY <1>1, <3>3 DEF RequestType
    <3>5. request' = [request EXCEPT ![r] = new]  BY <1>1, <2>2
    <3> HIDE DEF new
    <3>6. request' \in [Requests -> RequestType]  BY <1>1, <3>4, <3>5
    <3>7. QED  BY <1>1, <1>4, <3>6 DEF Poll, OrdersTypeOK
  <2>3. QED  BY <1>4, <2>1, <2>2 DEF Poll
<1>5. ASSUME NEW r \in Requests, Decide(r) PROVE OrdersTypeOK'
  BY <1>1, <1>5 DEF Decide, Reuse, findLivePending, OrdersTypeOK, RequestType
<1>6. ASSUME NEW r \in Requests, Create(r) PROVE OrdersTypeOK'
  <2>1. PICK c \in Codes :
          /\ orders' = [orders EXCEPT ![c] = NewOrder(request[r].key)]
          /\ request' = [request EXCEPT ![r].pc = "releasing", ![r].order = c]
    BY <1>6 DEF Create
  <2>2. request[r].key \in PlanKeys  BY <1>6 DEF Create, OrdersInv, KeyKnown
  <2>3. NewOrder(request[r].key) \in OrderType  BY <2>2 DEF NewOrder, OrderType
  <2>4. orders' \in [Codes -> OrderType]  BY <1>1, <2>1, <2>3
  <2>5. request' \in [Requests -> RequestType]  BY <1>1, <2>1, ZenonT(60) DEF RequestType
  <2>6. QED  BY <1>1, <1>6, <2>4, <2>5 DEF Create, OrdersTypeOK
<1>7. ASSUME NEW r \in Requests, CreateFails(r) \/ Unavailable(r) \/ ServerDies(r)
      PROVE  OrdersTypeOK'
  BY <1>1, <1>7 DEF CreateFails, Unavailable, ServerDies, OrdersTypeOK, RequestType
<1>8. ASSUME NEW r \in Requests, Release(r) PROVE OrdersTypeOK'
  BY <1>1, <1>8 DEF Release, OrdersTypeOK, RequestType
<1>9. ASSUME NEW key \in PlanKeys, LockLapses(key) PROVE OrdersTypeOK'
  BY <1>1, <1>9 DEF LockLapses, OrdersTypeOK
<1>10. ASSUME NEW c \in Codes, OrderLapses(c) PROVE OrdersTypeOK'
  <2>1. orders[c] \in [key : PlanKeys, status : {"PENDING", "PAID"}, lapsed : BOOLEAN,
                       paidBy : Transfers \cup {None}]
    BY <1>1, <1>10 DEF OrderLapses, OrderType, NoOrder
  <2>2. orders' \in [Codes -> OrderType]
    BY <1>1, <1>10, <2>1 DEF OrderLapses, OrderType
  <2>3. QED  BY <1>1, <1>10, <2>2 DEF OrderLapses, OrdersTypeOK
<1>11. ASSUME NEW c \in Codes, NEW t \in Transfers, Settle(c, t) PROVE OrdersTypeOK'
  <2>1. orders[c] \in [key : PlanKeys, status : {"PENDING", "PAID"}, lapsed : BOOLEAN,
                       paidBy : Transfers \cup {None}]
    BY <1>1, <1>11 DEF Settle, OrderType, NoOrder
  <2>2. orders' \in [Codes -> OrderType]
    BY <1>1, <1>11, <2>1 DEF Settle, Settled, OrderType
  <2>3. QED  BY <1>1, <1>11, <2>2 DEF Settle, OrdersTypeOK
<1>12. CASE UNCHANGED orderVars
  BY <1>1, <1>12 DEF orderVars, OrdersTypeOK
<1>13. QED
  BY <1>2, <1>3, <1>4, <1>5, <1>6, <1>7, <1>8, <1>9, <1>10, <1>11, <1>12
  DEF OrdersNext, CreationNext, RequestStep

LEMMA OrdersNextInv == OrdersInv /\ [OrdersNext]_orderVars => OrdersInv'
<1> SUFFICES ASSUME OrdersInv, [OrdersNext]_orderVars PROVE OrdersInv'  OBVIOUS
<1> OrdersTypeOK'  BY OrdersNextType
<1>0. request \in [Requests -> RequestType] /\ orders \in [Codes -> OrderType]
  BY DEF OrdersInv, OrdersTypeOK
<1>1. ASSUME NEW r \in Requests, NEW key \in PlanKeys, Acquire(r, key)
      PROVE  OrdersInv'
  <2>1. /\ request'[r].pc = "deciding" /\ request'[r].key = key
        /\ \A s \in Requests \ {r} : request'[s] = request[s]
        /\ createLock' = createLock \cup {key} /\ key \notin createLock
        /\ orders' = orders /\ overrun' = overrun
    BY <1>0, <1>1 DEF Acquire, RequestType
  <2>2. KeyKnown'  BY <2>1 DEF OrdersInv, KeyKnown
  <2>3. LockHeld'  BY <2>1 DEF OrdersInv, LockHeld, Holding
  <2>4. OneHolder'
    <3>1. \A s \in Requests \ {r} :
             Holding(s)' /\ request'[s].key = key => key \in overrun
      BY <2>1 DEF OrdersInv, LockHeld, Holding
    <3>2. QED  BY <2>1, <3>1 DEF OrdersInv, OneHolder, Holding
  <2>5. NothingLive'  BY <2>1 DEF OrdersInv, NothingLive, IsLive
  <2>6. OneLiveOrder'  BY <2>1 DEF OrdersInv, OneLiveOrder, IsLive
  <2>7. PollsLeft'  BY <2>1 DEF OrdersInv, PollsLeft
  <2>8. QED  BY <2>2, <2>3, <2>4, <2>5, <2>6, <2>7 DEF OrdersInv
<1>2. ASSUME NEW r \in Requests, NEW key \in PlanKeys, Contend(r, key)
      PROVE  OrdersInv'
  <2> DEFINE new == [request[r] EXCEPT !.pc = "polling", !.key = key]
  <2>1. request' = [request EXCEPT ![r] = new] /\ UNCHANGED <<orders, createLock, overrun>>
    BY <1>2 DEF Contend
  <2>2. new.pc = "polling" /\ new.key = key /\ new.polls < LOCK_POLL_ATTEMPTS
    BY <1>0, <1>2 DEF RequestType, Contend, OrdersInv, PollsLeft
  <2> HIDE DEF new
  <2>3. QED  BY <2>1, <2>2, OneRequestMoves
<1>3. ASSUME NEW r \in Requests,
             Poll(r) \/ CreateFails(r) \/ Unavailable(r) \/ ServerDies(r) \/ Decide(r)
      PROVE  OrdersInv'
  <2>1. PICK new :
          /\ request' = [request EXCEPT ![r] = new]
          /\ UNCHANGED <<orders, createLock, overrun>>
          /\ new.key = request[r].key
          /\ \/ new.pc = "failed"
             \/ new.pc \in {"answered", "polling"} /\ request[r].pc = "polling"
             \/ new.pc = "releasing" /\ Holding(r)
             \/ new.pc = "creating" /\ Holding(r) /\ findLivePending(new.key) = {}
          /\ new.pc = "polling" => new.polls < LOCK_POLL_ATTEMPTS
    <3>1. request[r] \in RequestType  BY <1>0
    <3>2. CASE Poll(r)
      <4>1. CASE Reuse(r, "answered")
        <5>1. PICK c \in Codes :
                request' = [request EXCEPT ![r].pc = "answered", ![r].order = c]
          BY <4>1 DEF Reuse, findLivePending
        <5>2. WITNESS [request[r] EXCEPT !.pc = "answered", !.order = c]
        <5>3. QED  BY <3>1, <3>2, <5>1, ZenonT(60) DEF Poll, RequestType
      <4>2. CASE request' = [request EXCEPT ![r].polls = @ + 1,
                                ![r].pc = IF request[r].polls + 1 = LOCK_POLL_ATTEMPTS
                                          THEN "failed" ELSE "polling"]
        <5>1. request[r].polls \in Nat /\ request[r].polls < LOCK_POLL_ATTEMPTS
          BY <3>1, <3>2 DEF RequestType, Poll, OrdersInv, PollsLeft
        <5>2. request[r].polls + 1 # LOCK_POLL_ATTEMPTS =>
                 request[r].polls + 1 < LOCK_POLL_ATTEMPTS
          BY <5>1, OrdersAssumption
        <5>3. WITNESS [request[r] EXCEPT !.polls = @ + 1,
                          !.pc = IF request[r].polls + 1 = LOCK_POLL_ATTEMPTS
                                 THEN "failed" ELSE "polling"]
        <5>4. QED  BY <3>1, <3>2, <4>2, <5>2 DEF Poll, RequestType
      <4>3. QED  BY <3>2, <4>1, <4>2 DEF Poll
    <3>3. CASE CreateFails(r)
      <4>1. WITNESS [request[r] EXCEPT !.pc = "releasing"]
      <4>2. QED  BY <3>1, <3>3 DEF CreateFails, RequestType, Holding
    <3>4. CASE Unavailable(r) \/ ServerDies(r)
      <4>1. WITNESS [request[r] EXCEPT !.pc = "failed"]
      <4>2. QED  BY <3>1, <3>4 DEF Unavailable, ServerDies, RequestType
    <3>5. CASE Decide(r)
      <4>1. CASE Reuse(r, "releasing")
        <5>1. PICK c \in Codes :
                request' = [request EXCEPT ![r].pc = "releasing", ![r].order = c]
          BY <4>1 DEF Reuse, findLivePending
        <5>2. WITNESS [request[r] EXCEPT !.pc = "releasing", !.order = c]
        <5>3. QED  BY <3>1, <3>5, <5>1 DEF Decide, RequestType, Holding
      <4>2. CASE findLivePending(request[r].key) = {}
                 /\ request' = [request EXCEPT ![r].pc = "creating"]
        <5>1. WITNESS [request[r] EXCEPT !.pc = "creating"]
        <5>2. QED  BY <3>1, <3>5, <4>2 DEF Decide, RequestType, Holding
      <4>3. QED  BY <3>5, <4>1, <4>2 DEF Decide
    <3>6. QED  BY <1>3, <3>2, <3>3, <3>4, <3>5
  <2>2. request[r].pc \notin {"new", "failed"} => request[r].key \in PlanKeys
    BY DEF OrdersInv, KeyKnown
  <2>3. new.pc \notin {"new", "failed"} => new.key \in PlanKeys
    BY <2>1, <2>2 DEF Holding
  <2>4. QED  BY <2>1, <2>3, OneRequestMoves
<1>4. ASSUME NEW r \in Requests, Create(r) PROVE OrdersInv'
  <2> DEFINE key == request[r].key
  <2>1. PICK c \in Codes :
          /\ orders[c] = NoOrder
          /\ orders' = [orders EXCEPT ![c] = NewOrder(key)]
          /\ request' = [request EXCEPT ![r].pc = "releasing", ![r].order = c]
          /\ createLock' = createLock /\ overrun' = overrun
    BY <1>4 DEF Create
  <2>2. request[r].pc = "creating" /\ key \in PlanKeys
    BY <1>4 DEF Create, OrdersInv, KeyKnown
  <2>3. /\ request'[r].pc = "releasing" /\ request'[r].key = key
        /\ \A s \in Requests \ {r} : request'[s] = request[s]
    BY <1>0, <2>1 DEF RequestType
  <2>4. \A d \in Codes, k \in PlanKeys :
           IsLive(d, k)' => IsLive(d, k) \/ (d = c /\ k = key)
    BY <1>0, <2>1 DEF IsLive, NewOrder
  <2> HIDE DEF key
  <2>5. key = request[r].key  BY DEF key
  <2>6. KeyKnown'  BY <2>2, <2>3, <2>5 DEF OrdersInv, KeyKnown
  <2>7. createLock' = createLock /\ overrun' = overrun  BY <2>1
  <2>8. \A s \in Requests : Holding(s)' => Holding(s) /\ request'[s].key = request[s].key
    BY <2>2, <2>3, <2>5 DEF Holding
  <2>9. LockHeld'  BY <2>7, <2>8 DEF OrdersInv, LockHeld
  <2>10. OneHolder'  BY <2>7, <2>8 DEF OrdersInv, OneHolder
  <2>11. PollsLeft'  BY <2>3 DEF OrdersInv, PollsLeft
  <2>12. NothingLive'
    <3>1. SUFFICES ASSUME NEW s \in Requests, NEW d \in Codes, (request[s].pc = "creating")',
                          (request[s].key \notin overrun)', IsLive(d, request[s].key)'
                   PROVE  FALSE
      BY DEF NothingLive
    <3>2. request'[s].pc = "creating" /\ request'[s].key \notin overrun
      BY <2>1, <3>1
    <3>3. s # r /\ request'[s] = request[s]  BY <2>3, <3>2
    <3>4. request[s].key \in PlanKeys /\ ~IsLive(d, request[s].key)
      BY <3>2, <3>3 DEF OrdersInv, KeyKnown, NothingLive
    <3>5. PICK k : k = request[s].key  OBVIOUS
    <3>6. IsLive(d, k)'  BY <3>1, <3>3, <3>5 DEF IsLive
    <3>7. k = key  BY <2>4, <3>4, <3>5, <3>6
    <3>8. QED  BY <2>2, <2>5, <3>2, <3>3, <3>5, <3>7 DEF OrdersInv, OneHolder, Holding
  <2>13. OneLiveOrder'
    <3>1. SUFFICES ASSUME NEW k \in PlanKeys \ overrun, NEW d \in Codes, NEW e \in Codes,
                          IsLive(d, k)', IsLive(e, k)'
                   PROVE  d = e
      BY <2>1 DEF OneLiveOrder
    <3>2. CASE k = key
      <4>1. ~IsLive(d, k) /\ ~IsLive(e, k)
        BY <2>2, <2>5, <3>2 DEF OrdersInv, NothingLive
      <4>2. QED  BY <2>4, <3>1, <4>1
    <3>3. CASE k # key
      BY <2>4, <3>1, <3>3 DEF OrdersInv, OneLiveOrder
    <3>4. QED  BY <3>2, <3>3
  <2>14. QED  BY <2>6, <2>9, <2>10, <2>11, <2>12, <2>13 DEF OrdersInv
<1>5. ASSUME NEW r \in Requests, Release(r) PROVE OrdersInv'
  <2>1. /\ request[r].pc = "releasing"
        /\ request'[r].pc \in {"failed", "answered"} /\ request'[r].key = request[r].key
        /\ \A s \in Requests \ {r} : request'[s] = request[s]
        /\ createLock' \in {createLock, createLock \ {request[r].key}}
        /\ orders' = orders /\ overrun' = overrun
    BY <1>0, <1>5 DEF Release, RequestType
  <2>2. KeyKnown'  BY <2>1 DEF OrdersInv, KeyKnown
  <2>3. LockHeld'
    <3>1. SUFFICES ASSUME NEW s \in Requests, Holding(s)', request'[s].key \notin overrun
                   PROVE  request'[s].key \in createLock'
      BY <2>1 DEF LockHeld
    <3>2. s # r /\ request'[s] = request[s] /\ Holding(s)
      BY <2>1, <3>1 DEF Holding
    <3>3. request[s].key # request[r].key
      BY <2>1, <3>1, <3>2 DEF OrdersInv, OneHolder, Holding
    <3>4. request[s].key \in createLock
      BY <3>1, <3>2 DEF OrdersInv, LockHeld
    <3>5. QED  BY <2>1, <3>2, <3>3, <3>4
  <2>4. OneHolder'  BY <2>1 DEF OrdersInv, OneHolder, Holding
  <2>5. NothingLive'  BY <2>1 DEF OrdersInv, NothingLive, IsLive
  <2>6. OneLiveOrder'  BY <2>1 DEF OrdersInv, OneLiveOrder, IsLive
  <2>7. PollsLeft'  BY <2>1 DEF OrdersInv, PollsLeft
  <2>8. QED  BY <2>2, <2>3, <2>4, <2>5, <2>6, <2>7 DEF OrdersInv
<1>6. ASSUME NEW key \in PlanKeys, LockLapses(key) PROVE OrdersInv'
  <2>1. /\ createLock' = createLock \ {key} /\ request' = request /\ orders' = orders
        /\ overrun' = IF Holders(key) = {} THEN overrun ELSE overrun \cup {key}
    BY <1>6 DEF LockLapses
  <2>2. \A r \in Requests : Holding(r) /\ request[r].key = key => key \in overrun'
    BY <2>1 DEF Holders, Holding
  <2>3. overrun \subseteq overrun'  BY <2>1
  <2>4. KeyKnown'  BY <2>1 DEF OrdersInv, KeyKnown
  <2>5. LockHeld'  BY <2>1, <2>2, <2>3 DEF OrdersInv, LockHeld, Holding
  <2>6. OneHolder'  BY <2>1, <2>3 DEF OrdersInv, OneHolder, Holding
  <2>7. NothingLive'  BY <2>1, <2>3 DEF OrdersInv, NothingLive, IsLive
  <2>8. OneLiveOrder'  BY <2>1, <2>3 DEF OrdersInv, OneLiveOrder, IsLive
  <2>9. PollsLeft'  BY <2>1 DEF OrdersInv, PollsLeft
  <2>10. QED  BY <2>4, <2>5, <2>6, <2>7, <2>8, <2>9 DEF OrdersInv
<1>7. ASSUME NEW c \in Codes, OrderLapses(c) PROVE OrdersInv'
  <2>1. \A d \in Codes, key \in PlanKeys : IsLive(d, key)' => IsLive(d, key)
    BY <1>0, <1>7 DEF OrderLapses, IsLive, OrderType, NoOrder
  <2>2. QED  BY <1>7, <2>1, FewerLive DEF OrderLapses
<1>8. ASSUME NEW c \in Codes, NEW t \in Transfers, Settle(c, t) PROVE OrdersInv'
  <2>1. \A d \in Codes, key \in PlanKeys : IsLive(d, key)' => IsLive(d, key)
    BY <1>0, <1>8 DEF Settle, Settled, IsLive, OrderType, NoOrder
  <2>2. QED  BY <1>8, <2>1, FewerLive DEF Settle
<1>9. CASE UNCHANGED orderVars
  BY <1>9 DEF orderVars, OrdersInv, KeyKnown, LockHeld, OneHolder, NothingLive,
              PollsLeft, OneLiveOrder, Holding, IsLive
<1>10. QED
  BY <1>1, <1>2, <1>3, <1>4, <1>5, <1>6, <1>7, <1>8, <1>9
  DEF OrdersNext, CreationNext, RequestStep

LEMMA OrdersAlways == OrdersSpec => []OrdersInv
BY OrdersInitInv, OrdersNextInv, PTL DEF OrdersSpec

(* A user has at most one live order per plan, whatever requests race and  *)
(* whichever of them fail, as long as no request outlived its lock.        *)
THEOREM OneLiveOrderAlways == OrdersSpec => []OneLiveOrder
<1>1. OrdersInv => OneLiveOrder  BY DEF OrdersInv
<1>2. QED  BY <1>1, OrdersAlways, PTL
-----------------------------------------------------------------------------
(* The jobs that move subscriptions.                                       *)

(* What the row of a job is, by the kind of the job. *)
RowKnown ==
    \A j \in Jobs :
        /\ job[j].pc = "claim" => job[j].kind \in {"webhook", "referral", "milestone"}
        /\ job[j].kind = "webhook" => job[j].row \in Codes /\ job[j].transfer \in Transfers
        /\ job[j].kind = "referral" =>
              job[j].row \in Users /\ referral[job[j].row].inviter \in Users
        /\ job[j].kind = "milestone" => job[j].row \in Users

(* A referral is rewarded only once there is one. *)
ReferralKnown == \A u \in Users : referral[u].rewarded => referral[u].inviter \in Users

(* A webhook that won its claim has the order to itself, still unpaid. *)
Settling(j) == job[j].kind = "webhook" /\ job[j].pc = "extend"
ClaimsHold  == \A j \in Jobs : Settling(j) =>
                  job[j].claimed /\ orders[job[j].row].status = "PENDING"
OneClaim    == \A i, j \in Jobs :
                  Settling(i) /\ Settling(j) /\ job[i].row = job[j].row => i = j

Rows == TypeOK /\ RowKnown /\ ReferralKnown /\ ClaimsHold /\ OneClaim

JobsTyped == job \in [Jobs -> JobType]

LEMMA IdleJobType == IdleJob \in JobType
BY DEF IdleJob, JobType

LEMMA CreditedNat ==
    ASSUME TypeOK, NEW key \in PlanKeys
    PROVE  Credited(key) \in Nat
<1> DEFINE paid == {c \in Codes : orders[c].key = key /\ orders[c].status = "PAID"}
           friends == {u \in Users : referral[u].rewarded
                                     /\ key[1] \in {u, referral[u].inviter}}
<1>1. IsFiniteSet(paid) /\ IsFiniteSet(friends)
  <2>1. IsFiniteSet(Codes) /\ IsFiniteSet(Users)  BY SubscriptionsAssumption
  <2>2. paid \subseteq Codes /\ friends \subseteq Users  OBVIOUS
  <2> HIDE DEF paid, friends
  <2>3. QED  BY <2>1, <2>2, FS_Subset
<1>2. Cardinality(paid) \in Nat /\ Cardinality(friends) \in Nat
  <2> HIDE DEF paid, friends
  <2>1. QED  BY <1>1, FS_CardinalityType
<1>3. key[2] \in Plans  BY DEF PlanKeys
<1>4. /\ DURATION_DAYS[key[2]] \in Nat /\ granted[key] \in Nat
      /\ REFERRAL_REWARD_DAYS \in Nat /\ REWARD_DAYS \in Nat
  BY <1>3, SubscriptionsAssumption DEF TypeOK
<1>5. Cardinality(paid) * DURATION_DAYS[key[2]] \in Nat
  <2> HIDE DEF paid, friends
  <2>1. \A m, n \in Nat : m * n \in Nat  OBVIOUS
  <2>2. QED  BY <1>2, <1>4, <2>1
<1>6. Cardinality(friends) * REFERRAL_REWARD_DAYS \in Nat
  <2> HIDE DEF paid, friends
  <2>1. \A m, n \in Nat : m * n \in Nat  OBVIOUS
  <2>2. QED  BY <1>2, <1>4, <2>1
<1>7. Credited(key) = Cardinality(paid) * DURATION_DAYS[key[2]] + granted[key]
        + IF key[2] # PRO THEN 0
          ELSE Cardinality(friends) * REFERRAL_REWARD_DAYS
               + IF key[1] \in rewarded THEN REWARD_DAYS ELSE 0
  BY DEF Credited
<1> HIDE DEF paid, friends
<1>8. QED  BY <1>4, <1>5, <1>6, <1>7

-----------------------------------------------------------------------------
(* Types                                                                   *)

LEMMA InitRows == Init => Rows
<1> SUFFICES ASSUME Init PROVE Rows  OBVIOUS
<1>1. OrdersTypeOK  BY OrdersInitInv DEF Init, OrdersInv
<1>2. JobsTyped  BY IdleJobType DEF Init, JobsTyped
<1>3. NoSub \in SubType  BY DEF NoSub, SubType
<1>4. TypeOK
  BY <1>1, <1>2, <1>3, SubscriptionsAssumption DEF Init, TypeOK, JobsTyped, NoReferral
<1>5. RowKnown /\ ReferralKnown
  BY DEF Init, RowKnown, ReferralKnown, IdleJob, NoReferral
<1>6. ClaimsHold /\ OneClaim  BY DEF Init, ClaimsHold, OneClaim, Settling, IdleJob
<1>7. QED  BY <1>4, <1>5, <1>6 DEF Rows

(* The steps that only move one job. *)
LEMMA OnlyJobRows ==
    ASSUME Rows, NEW j \in Jobs, NEW new \in JobType, OnlyJob(j, new),
           new.pc = "claim" => new.kind \in {"webhook", "referral", "milestone"},
           new.kind = "webhook" => new.row \in Codes /\ new.transfer \in Transfers,
           new.kind = "referral" => new.row \in Users /\ referral[new.row].inviter \in Users,
           new.kind = "milestone" => new.row \in Users,
           new.kind = "webhook" /\ new.pc = "extend" =>
              /\ new.claimed /\ orders[new.row].status = "PENDING"
              /\ \A i \in Jobs \ {j} : Settling(i) => job[i].row # new.row
    PROVE  Rows'
<1>1. job' = [job EXCEPT ![j] = new]  BY DEF OnlyJob
<1>2. job \in [Jobs -> JobType]  BY DEF Rows, TypeOK
<1>3. job' \in [Jobs -> JobType]  BY <1>1, <1>2
<1>4. TypeOK'
  BY <1>3 DEF Rows, TypeOK, OnlyJob, orderVars, OrdersTypeOK
<1>5. job'[j] = new /\ \A i \in Jobs \ {j} : job'[i] = job[i]  BY <1>1, <1>2
<1>6. RowKnown'  BY <1>5 DEF Rows, RowKnown, OnlyJob
<1>7. ReferralKnown'  BY DEF Rows, ReferralKnown, OnlyJob
<1>8. ClaimsHold'
  BY <1>5 DEF Rows, ClaimsHold, Settling, OnlyJob, orderVars
<1>9. OneClaim'  BY <1>5 DEF Rows, OneClaim, Settling
<1>10. QED  BY <1>4, <1>6, <1>7, <1>8, <1>9 DEF Rows

LEMMA ClaimTyped ==
    ASSUME TypeOK, NEW kind \in {"webhook", "referral", "milestone"},
           NEW row \in Codes \cup Users, NEW t \in Transfers \cup {None}
    PROVE  /\ Claim(kind, row, t) \in JobType
           /\ Claim(kind, row, t).pc = "claim" /\ Claim(kind, row, t).kind = kind
           /\ Claim(kind, row, t).row = row /\ Claim(kind, row, t).transfer = t
           /\ ~Claim(kind, row, t).claimed
           /\ \A k \in PlanKeys : Claim(kind, row, t).wrote[k] = None
<1>1. today \in Nat  BY SubscriptionsAssumption DEF TypeOK
<1>2. Claim(kind, row, t) = [IdleJob EXCEPT !.pc = "claim", !.kind = kind, !.row = row,
                                            !.transfer = t, !.at = today]
  BY DEF Claim
<1>3. Claim(kind, row, t) \in JobType  BY <1>1, <1>2, IdleJobType DEF JobType
<1>4. /\ Claim(kind, row, t).pc = "claim" /\ Claim(kind, row, t).kind = kind
      /\ Claim(kind, row, t).row = row /\ Claim(kind, row, t).transfer = t
      /\ Claim(kind, row, t).claimed = IdleJob.claimed
      /\ Claim(kind, row, t).wrote = IdleJob.wrote
  BY <1>2, IdleJobType DEF JobType
<1>5. QED  BY <1>3, <1>4 DEF IdleJob

LEMMA DeliverRows ==
    ASSUME Rows, NEW j \in Jobs, NEW t \in Transfers, Deliver(j, t) PROVE Rows'
<1>1. CodeOf[t] \in Codes  BY SubscriptionsAssumption
<1>2. OnlyJob(j, Claim("webhook", CodeOf[t], t))  BY DEF Deliver
<1>3. QED  BY <1>1, <1>2, ClaimTyped, OnlyJobRows DEF Rows

LEMMA ActivityDayRows ==
    ASSUME Rows, NEW j \in Jobs, NEW u \in Users, ActivityDay(j, u) PROVE Rows'
<1>1. referral[u].inviter \in Users  
  BY DEF ActivityDay, Rows, TypeOK, NoReferral
<1>2. OnlyJob(j, Claim("referral", u, None))  BY DEF ActivityDay
<1>3. QED  BY <1>1, <1>2, ClaimTyped, OnlyJobRows DEF Rows

LEMMA DashboardRows ==
    ASSUME Rows, NEW j \in Jobs, NEW u \in Users, Dashboard(j, u) PROVE Rows'
<1>1. OnlyJob(j, Claim("milestone", u, None))  BY DEF Dashboard
<1>2. QED  BY <1>1, ClaimTyped, OnlyJobRows DEF Rows

LEMMA AdminRows ==
    ASSUME Rows, NEW j \in Jobs, NEW kind \in {"grant", "revoke"}, NEW key \in PlanKeys,
           Admin(j, kind, key)
    PROVE  Rows'
<1> DEFINE new == [IdleJob EXCEPT !.pc = "extend", !.kind = kind, !.at = today,
                                  !.due = <<key>>, !.days = GrantDays]
<1>1. today \in Nat /\ GrantDays \in Nat  BY SubscriptionsAssumption DEF Rows, TypeOK
<1>2. <<key>> \in Seq(PlanKeys)  OBVIOUS
<1>3. new \in JobType  BY <1>1, <1>2 DEF IdleJob, JobType
<1>4. new.pc = "extend" /\ new.kind = kind  BY DEF IdleJob
<1>5. OnlyJob(j, new)  BY DEF Admin
<1> HIDE DEF new
<1>6. QED  BY <1>3, <1>4, <1>5, OnlyJobRows

(* The subscriptions that are due, and the days, are well defined. *)
LEMMA DueTyped ==
    ASSUME Rows, NEW j \in Jobs, job[j].pc = "claim", Matches(j)
    PROVE  Due(j) \in Seq(PlanKeys) /\ Days(j) \in Nat
<1>1. orders \in [Codes -> OrderType]  BY DEF Rows, TypeOK, OrdersTypeOK
<1>2. CASE job[j].kind = "webhook"
  <2>1. job[j].row \in Codes /\ orders[job[j].row].status = "PENDING"
    BY <1>2 DEF Rows, RowKnown, Matches
  <2>2. orders[job[j].row].key \in PlanKeys
    BY <1>1, <2>1 DEF OrderType, NoOrder
  <2>3. DURATION_DAYS[orders[job[j].row].key[2]] \in Nat
    BY <2>2, SubscriptionsAssumption DEF PlanKeys
  <2>4. QED  BY <1>2, <2>2, <2>3 DEF Due, Days
<1>3. CASE job[j].kind = "referral"
  <2>1. job[j].row \in Users /\ referral[job[j].row].inviter \in Users
    BY <1>3 DEF Rows, RowKnown
  <2>2. << <<referral[job[j].row].inviter, PRO>>, <<job[j].row, PRO>> >> \in Seq(PlanKeys)
    BY <2>1, SubscriptionsAssumption DEF PlanKeys
  <2>3. QED  BY <1>3, <2>2, SubscriptionsAssumption DEF Due, Days
<1>4. CASE job[j].kind = "milestone"
  <2>1. << <<job[j].row, PRO>> >> \in Seq(PlanKeys)
    BY <1>4, SubscriptionsAssumption DEF Rows, RowKnown, PlanKeys
  <2>2. QED  BY <1>4, <2>1, SubscriptionsAssumption DEF Due, Days
<1>5. QED  BY <1>2, <1>3, <1>4 DEF Rows, RowKnown

LEMMA ClaimWonRows == ASSUME Rows, NEW j \in Jobs, ClaimWon(j) PROVE Rows'
<1> DEFINE new == [job[j] EXCEPT !.pc = "extend", !.claimed = TRUE,
                                 !.due = Due(j), !.days = Days(j)]
<1>1. Due(j) \in Seq(PlanKeys) /\ Days(j) \in Nat  BY DueTyped DEF ClaimWon
<1>2. job[j] \in JobType  BY DEF Rows, TypeOK
<1>3. new \in JobType  BY <1>1, <1>2 DEF JobType
<1>4. /\ new.pc = "extend" /\ new.kind = job[j].kind
      /\ new.row = job[j].row /\ new.transfer = job[j].transfer
  BY <1>2 DEF JobType
<1>5. OnlyJob(j, new)  BY DEF ClaimWon
<1>6. ASSUME new.kind = "webhook"
      PROVE  /\ new.claimed /\ orders[new.row].status = "PENDING"
             /\ \A i \in Jobs \ {j} : Settling(i) => job[i].row # new.row
  <2>1. new.claimed  BY <1>2 DEF JobType
  <2>2. orders[new.row].status = "PENDING"  BY <1>4, <1>6 DEF ClaimWon, Matches
  <2>3. \A i \in Jobs \ {j} : Settling(i) => job[i].row # new.row
    BY <1>4, <1>6 DEF ClaimWon, RowFree, Settling, Rows, ClaimsHold
  <2>4. QED  BY <2>1, <2>2, <2>3
<1> HIDE DEF new
<1>7. QED  BY <1>3, <1>4, <1>5, <1>6, OnlyJobRows DEF Rows, RowKnown

LEMMA GoIdleRows == ASSUME Rows, NEW j \in Jobs, OnlyJob(j, IdleJob) PROVE Rows'
<1>1. IdleJob.pc = "idle" /\ IdleJob.kind = "none"  BY DEF IdleJob
<1>2. QED  BY <1>1, IdleJobType, OnlyJobRows

LEMMA ExtendedTyped ==
    ASSUME Rows, NEW j \in Jobs, NEW key \in PlanKeys PROVE Extended(j, key) \in SubType
<1>1. job[j] \in JobType /\ subs[key] \in SubType  BY DEF Rows, TypeOK
<1>2. job[j].at \in Nat /\ job[j].days \in Nat  BY <1>1 DEF JobType
<1>3. Later(subs[key].expiresAt, job[j].at) \in Int
  BY <1>1, <1>2 DEF Later, SubType
<1>4. CASE job[j].kind = "revoke"
  BY <1>1, <1>2, <1>4 DEF Extended, SubType
<1>5. CASE job[j].kind = "webhook"
  <2>1. job[j].row \in Codes  BY <1>5 DEF Rows, RowKnown
  <2>2. QED  BY <1>2, <1>3, <1>5, <2>1 DEF Extended, SubType
<1>6. CASE job[j].kind \notin {"revoke", "webhook"}
  BY <1>1, <1>2, <1>3, <1>6 DEF Extended, SubType
<1>7. QED  BY <1>4, <1>5, <1>6

LEMMA ExtendRows == ASSUME Rows, NEW j \in Jobs, Extend(j) PROVE Rows'
<1> DEFINE key == Head(job[j].due)
           new == [job[j] EXCEPT !.due = Tail(@), !.wrote[key] = Extended(j, key)]
<1>1. job[j] \in JobType  BY DEF Rows, TypeOK
<1>2. job[j].due \in Seq(PlanKeys) /\ job[j].due # <<>>  BY <1>1 DEF JobType, Extend
<1>3. key \in PlanKeys /\ Tail(job[j].due) \in Seq(PlanKeys)  BY <1>2
<1>4. Extended(j, key) \in SubType  BY <1>3, ExtendedTyped
<1>5. OnlyJob(j, new)  BY DEF Extend
<1> HIDE DEF key
<1>6. new \in JobType  BY <1>1, <1>3, <1>4 DEF JobType
<1>7. /\ new.pc = job[j].pc /\ new.kind = job[j].kind
      /\ new.row = job[j].row /\ new.transfer = job[j].transfer
      /\ new.claimed = job[j].claimed
  BY <1>1 DEF JobType
<1> HIDE DEF new
<1>8. new.kind = "webhook" /\ new.pc = "extend" =>
              /\ new.claimed /\ orders[new.row].status = "PENDING"
              /\ \A i \in Jobs \ {j} : Settling(i) => job[i].row # new.row
  BY <1>7 DEF Rows, ClaimsHold, OneClaim, Settling
<1>9. QED  BY <1>5, <1>6, <1>7, <1>8, OnlyJobRows DEF Rows, RowKnown

LEMMA CommitRows == ASSUME Rows, NEW j \in Jobs, Commit(j) PROVE Rows'
<1> DEFINE w == job[j].wrote
<1>1. /\ job \in [Jobs -> JobType] /\ job[j] \in JobType
      /\ subs \in [PlanKeys -> SubType] /\ OrdersTypeOK
      /\ referral \in [Users -> [inviter : Users \cup {None}, rewarded : BOOLEAN]]
      /\ granted \in [PlanKeys -> Nat] /\ forfeited \in [PlanKeys -> Nat]
      /\ rewarded \subseteq Users
  BY DEF Rows, TypeOK
<1>2. w \in [PlanKeys -> SubType \cup {None}] /\ job[j].days \in Nat  BY <1>1 DEF JobType
<1>3. subs' \in [PlanKeys -> SubType]
  <2>1. subs' = [k \in PlanKeys |-> IF w[k] = None THEN subs[k] ELSE w[k]]  BY DEF Commit
  <2>2. \A k \in PlanKeys : (IF w[k] = None THEN subs[k] ELSE w[k]) \in SubType
    BY <1>1, <1>2
  <2> HIDE DEF w
  <2>3. QED  BY <2>1, <2>2
<1>4. OrdersTypeOK'
  <2>1. CASE job[j].kind = "webhook"
    <3>1. job[j].row \in Codes /\ job[j].transfer \in Transfers
      BY <2>1 DEF Rows, RowKnown
    <3>2. orders' = Settled(job[j].row, job[j].transfer)  BY <2>1 DEF Commit
    <3>3. orders[job[j].row].status = "PENDING" /\ orders[job[j].row] \in OrderType
      BY <1>1, <2>1, <3>1 DEF Commit, Rows, ClaimsHold, Settling, OrdersTypeOK
    <3>4. [orders[job[j].row] EXCEPT !.status = "PAID", !.paidBy = job[j].transfer] \in OrderType
      <4> DEFINE o == orders[job[j].row]
      <4>1. o \in [key : PlanKeys, status : {"PENDING", "PAID"}, lapsed : BOOLEAN,
                   paidBy : Transfers \cup {None}]
        BY <3>3 DEF OrderType, NoOrder
      <4> HIDE DEF o
      <4>2. [o EXCEPT !.status = "PAID", !.paidBy = job[j].transfer] \in OrderType
        BY <3>1, <4>1 DEF OrderType
      <4>3. QED  BY <4>2 DEF o
    <3>5. orders' \in [Codes -> OrderType]
      BY <1>1, <3>1, <3>2, <3>4 DEF Settled, OrdersTypeOK
    <3>6. QED  BY <1>1, <3>5 DEF Commit, OrdersTypeOK
  <2>2. CASE job[j].kind # "webhook"
    BY <1>1, <2>2 DEF Commit, OrdersTypeOK
  <2>3. QED  BY <2>1, <2>2
<1>5. /\ referral' \in [Users -> [inviter : Users \cup {None}, rewarded : BOOLEAN]]
      /\ \A u \in Users : referral'[u].inviter = referral[u].inviter
      /\ ReferralKnown'
  <2>1. CASE job[j].kind = "referral"
    <3>1. job[j].row \in Users /\ referral[job[j].row].inviter \in Users
      BY <2>1 DEF Rows, RowKnown
    <3>2. referral' = [referral EXCEPT ![job[j].row].rewarded = TRUE]
      BY <2>1 DEF Commit
    <3>3. QED  BY <1>1, <3>1, <3>2, ZenonT(60) DEF Rows, ReferralKnown
  <2>2. CASE job[j].kind # "referral"
    BY <1>1, <2>2 DEF Commit, Rows, ReferralKnown
  <2>3. QED  BY <2>1, <2>2
<1>6. rewarded' \subseteq Users  BY <1>1 DEF Commit, Rows, RowKnown
<1>7. granted' \in [PlanKeys -> Nat]
  <2>1. granted' = granted \/ granted' = [k \in PlanKeys |->
            IF w[k] = None THEN granted[k] ELSE granted[k] + job[j].days]
    BY DEF Commit
  <2>2. \A k \in PlanKeys : (IF w[k] = None THEN granted[k] ELSE granted[k] + job[j].days) \in Nat
    BY <1>1, <1>2
  <2> HIDE DEF w
  <2>3. QED  BY <1>1, <2>1, <2>2
<1>8. forfeited' \in [PlanKeys -> Nat]
  <2>1. forfeited' = forfeited \/ forfeited' = [k \in PlanKeys |->
            IF w[k] = None THEN forfeited[k] ELSE Credited(k)]
    BY DEF Commit
  <2>2. \A k \in PlanKeys : Credited(k) \in Nat  BY CreditedNat DEF Rows
  <2>3. \A k \in PlanKeys : (IF w[k] = None THEN forfeited[k] ELSE Credited(k)) \in Nat
    BY <1>1, <2>2
  <2> HIDE DEF w
  <2>4. QED  BY <1>1, <2>1, <2>3
<1>9. job' = [job EXCEPT ![j] = IdleJob] /\ job' \in [Jobs -> JobType]
  BY <1>1, IdleJobType DEF Commit
<1>10. job'[j] = IdleJob /\ \A i \in Jobs \ {j} : job'[i] = job[i]  BY <1>1, <1>9
<1>11. TypeOK'
  BY <1>3, <1>4, <1>5, <1>6, <1>7, <1>8, <1>9 DEF TypeOK, Commit, Rows
<1>12. RowKnown'  BY <1>5, <1>10 DEF Rows, RowKnown, IdleJob
<1>13. ClaimsHold'
  <2>1. SUFFICES ASSUME NEW i \in Jobs, Settling(i)'
                 PROVE  job'[i].claimed /\ orders'[job'[i].row].status = "PENDING"
    BY DEF ClaimsHold
  <2>2. i # j  BY <1>10, <2>1 DEF Settling, IdleJob
  <2>3. Settling(i) /\ job'[i] = job[i]  BY <1>10, <2>1, <2>2 DEF Settling
  <2>4. job[i].claimed /\ orders[job[i].row].status = "PENDING" /\ job[i].row \in Codes
    BY <2>3 DEF Rows, ClaimsHold, RowKnown, Settling
  <2>5. CASE job[j].kind = "webhook"
    <3>1. job[i].row # job[j].row
      BY <2>2, <2>3, <2>5 DEF Rows, OneClaim, Settling, Commit
    <3>2. orders' = Settled(job[j].row, job[j].transfer)  BY <2>5 DEF Commit
    <3>3. QED  BY <1>1, <2>3, <2>4, <3>1, <3>2 DEF Settled, OrdersTypeOK
  <2>6. CASE job[j].kind # "webhook"
    BY <2>3, <2>4, <2>6 DEF Commit
  <2>7. QED  BY <2>5, <2>6
<1>14. OneClaim'  BY <1>10 DEF Rows, OneClaim, Settling, IdleJob
<1>15. QED  BY <1>5, <1>11, <1>12, <1>13, <1>14 DEF Rows

(* Order creation touches no job, and takes no order out of PENDING. *)
LEMMA CreationRows ==
    ASSUME Rows, OrdersTypeOK', CreationNext, UNCHANGED <<today, subVars>> PROVE Rows'
<1>1. orders \in [Codes -> OrderType]  BY DEF Rows, TypeOK, OrdersTypeOK
<1>2. \A c \in Codes : orders[c].status = "PENDING" => orders'[c].status = "PENDING"
  <2>1. ASSUME NEW r \in Requests, Create(r)
        PROVE  \A c \in Codes : orders[c].status = "PENDING" => orders'[c].status = "PENDING"
    BY <1>1, <2>1 DEF Create, NoOrder
  <2>2. ASSUME NEW d \in Codes, OrderLapses(d)
        PROVE  \A c \in Codes : orders[c].status = "PENDING" => orders'[c].status = "PENDING"
    BY <1>1, <2>2 DEF OrderLapses, OrderType, NoOrder
  <2>3. CASE UNCHANGED orders  BY <2>3
  <2>4. QED
    BY <2>1, <2>2, <2>3 DEF CreationNext, RequestStep, Poll, Decide, CreateFails, Release,
       Unavailable, ServerDies, Acquire, Contend, LockLapses
<1>3. TypeOK'  BY DEF Rows, TypeOK, subVars
<1>4. RowKnown' /\ ReferralKnown' /\ OneClaim'
  BY DEF Rows, RowKnown, ReferralKnown, OneClaim, Settling, subVars
<1>5. ClaimsHold'
  BY <1>2 DEF Rows, RowKnown, ClaimsHold, Settling, subVars
<1>6. QED  BY <1>3, <1>4, <1>5 DEF Rows

LEMMA UsersRows ==
    ASSUME Rows,
           \/ \E u, v \in Users : Redeem(u, v)
           \/ \E u \in Users : CompleteLessons(u)
           \/ Tick
    PROVE  Rows'
<1>1. ASSUME NEW u \in Users, NEW v \in Users, Redeem(u, v) PROVE Rows'
  <2>1. referral' = [referral EXCEPT ![u].inviter = v]  BY <1>1 DEF Redeem
  <2>2. /\ referral' \in [Users -> [inviter : Users \cup {None}, rewarded : BOOLEAN]]
        /\ \A w \in Users : referral[w].inviter \in Users => referral'[w].inviter \in Users
        /\ \A w \in Users : referral'[w].rewarded = referral[w].rewarded
    BY <2>1 DEF Rows, TypeOK
  <2>3. TypeOK'
    BY <1>1, <2>2 DEF Rows, TypeOK, Redeem, orderVars, OrdersTypeOK
  <2>4. RowKnown' /\ ReferralKnown'
    BY <1>1, <2>2 DEF Rows, RowKnown, ReferralKnown, Redeem
  <2>5. ClaimsHold' /\ OneClaim'
    BY <1>1 DEF Rows, ClaimsHold, OneClaim, Settling, Redeem, orderVars
  <2>6. QED  BY <2>3, <2>4, <2>5 DEF Rows
<1>2. ASSUME NEW u \in Users, CompleteLessons(u) PROVE Rows'
  BY <1>2 DEF CompleteLessons, Rows, TypeOK, orderVars, OrdersTypeOK, RowKnown,
     ReferralKnown, ClaimsHold, OneClaim, Settling
<1>3. CASE Tick
  BY <1>3 DEF Tick, Rows, TypeOK, orderVars, subVars, OrdersTypeOK, RowKnown,
     ReferralKnown, ClaimsHold, OneClaim, Settling
<1>4. QED  BY <1>1, <1>2, <1>3

-----------------------------------------------------------------------------
(* Refinement                                                              *)

(* Every step is a step of PaymentOrders or leaves the orders alone. *)
LEMMA StepIsOrdersStep ==
    ASSUME Rows, [Next]_vars PROVE [OrdersNext]_orderVars
<1>1. CASE CreationNext  BY <1>1 DEF OrdersNext
<1>2. ASSUME NEW j \in Jobs, Commit(j) PROVE [OrdersNext]_orderVars
  <2>1. CASE job[j].kind = "webhook"
    <3>1. job[j].row \in Codes /\ job[j].transfer \in Transfers
      BY <2>1 DEF Rows, RowKnown
    <3>2. orders[job[j].row].status = "PENDING"
      BY <1>2, <2>1 DEF Commit, Rows, ClaimsHold, Settling
    <3>3. Settle(job[j].row, job[j].transfer)
      BY <1>2, <2>1, <3>2 DEF Commit, Settle
    <3>4. QED  BY <3>1, <3>3 DEF OrdersNext
  <2>2. CASE job[j].kind # "webhook"
    BY <1>2, <2>2 DEF Commit, orderVars
  <2>3. QED  BY <2>1, <2>2
<1>3. ASSUME NEW j \in Jobs,
             \/ ClaimWon(j) \/ ClaimLost(j) \/ Extend(j) \/ RevokeNothing(j) \/ Rollback(j)
             \/ \E t \in Transfers : Deliver(j, t)
             \/ \E u \in Users : ActivityDay(j, u) \/ Dashboard(j, u)
             \/ \E kind \in {"grant", "revoke"}, key \in PlanKeys : Admin(j, kind, key)
      PROVE  UNCHANGED orderVars
  BY <1>3 DEF ClaimWon, ClaimLost, Extend, RevokeNothing, Rollback, Deliver, ActivityDay,
     Dashboard, Admin, OnlyJob
<1>4. CASE \/ \E u, v \in Users : Redeem(u, v)
           \/ \E u \in Users : CompleteLessons(u)
           \/ Tick
  BY <1>4 DEF Redeem, CompleteLessons, Tick
<1>5. CASE UNCHANGED vars  BY <1>5 DEF vars
<1>6. QED  BY <1>1, <1>2, <1>3, <1>4, <1>5 DEF Next, JobStep

(* OrdersNextType asks for OrdersInv, which is why the two invariants go   *)
(* together.                                                               *)
LEMMA NextRows == Rows /\ OrdersInv /\ [Next]_vars => Rows' /\ OrdersInv'
<1> SUFFICES ASSUME Rows, OrdersInv, [Next]_vars PROVE Rows' /\ OrdersInv'  OBVIOUS
<1>1. [OrdersNext]_orderVars  BY StepIsOrdersStep
<1>2. OrdersInv' /\ OrdersTypeOK'  BY <1>1, OrdersNextInv DEF OrdersInv
<1>3. CASE CreationNext /\ UNCHANGED <<today, subVars>>  BY <1>2, <1>3, CreationRows
<1>4. ASSUME NEW j \in Jobs, JobStep(j) \/ Rollback(j) PROVE Rows'
  BY <1>4, ClaimWonRows, GoIdleRows, ExtendRows, CommitRows
  DEF JobStep, ClaimLost, RevokeNothing, Rollback
<1>5. ASSUME NEW j \in Jobs, NEW t \in Transfers, Deliver(j, t) PROVE Rows'
  BY <1>5, DeliverRows
<1>6. ASSUME NEW j \in Jobs, NEW u \in Users, ActivityDay(j, u) \/ Dashboard(j, u) PROVE Rows'
  BY <1>6, ActivityDayRows, DashboardRows
<1>7. ASSUME NEW j \in Jobs, NEW kind \in {"grant", "revoke"}, NEW key \in PlanKeys,
             Admin(j, kind, key)
      PROVE  Rows'
  BY <1>7, AdminRows
<1>8. CASE \/ \E u, v \in Users : Redeem(u, v)
           \/ \E u \in Users : CompleteLessons(u)
           \/ Tick
  BY <1>2, <1>8, UsersRows
<1>9. CASE UNCHANGED vars
  BY <1>2, <1>9 DEF vars, orderVars, subVars, Rows, TypeOK, OrdersTypeOK, RowKnown, ReferralKnown,
     ClaimsHold, OneClaim, Settling
<1>10. QED  BY <1>2, <1>3, <1>4, <1>5, <1>6, <1>7, <1>8, <1>9 DEF Next

LEMMA RowsAlways == Spec => [](Rows /\ OrdersInv)
<1>1. Init => Rows /\ OrdersInv  BY InitRows, OrdersInitInv DEF Init
<1>2. QED  BY <1>1, NextRows, PTL DEF Spec

(* Every variable of the payment side keeps its type. *)
THEOREM Typed == Spec => []TypeOK
<1>1. Rows => TypeOK  BY DEF Rows
<1>2. QED  BY <1>1, RowsAlways, PTL

(* Settlement implements PaymentOrders: however deliveries are repeated,   *)
(* late or concurrent, an order is paid once, by one transfer, and a paid  *)
(* order does not change.                                                  *)
THEOREM SettlementImplementsOrders == Spec => ImplementsOrders
<1>1. Init => OrdersInit  BY DEF Init
<1>2. Rows /\ [Next]_vars => [OrdersNext]_orderVars  BY StepIsOrdersStep
<1>3. Rows /\ OrdersInv => Rows  OBVIOUS
<1>4. QED  BY <1>1, <1>2, <1>3, RowsAlways, PTL DEF Spec, ImplementsOrders, OrdersSpec

(* So the whole, webhooks and rewards included, keeps at most one live     *)
(* order per user and plan.                                                *)
THEOREM OneLiveOrderThroughout == Spec => []OneLiveOrder
BY SettlementImplementsOrders, OneLiveOrderAlways DEF ImplementsOrders
-----------------------------------------------------------------------------
(* The days                                                                *)

Written(j) == {k \in PlanKeys : job[j].wrote[k] # None}
DueKeys(j) == {job[j].due[i] : i \in DOMAIN job[j].due}
Extending(j) == job[j].pc = "extend"
Claims == {"webhook", "referral", "milestone"}

(* The subscriptions that the row a job has claimed pays for. *)
Owing(j) ==
    LET c == job[j].row
    IN  CASE job[j].kind = "webhook"   -> {orders[c].key}
          [] job[j].kind = "referral"  -> {<<referral[c].inviter, PRO>>, <<c, PRO>>}
          [] job[j].kind = "milestone" -> {<<c, PRO>>}

Unpaid(j) ==
    LET c == job[j].row
    IN  /\ job[j].kind = "webhook"   => orders[c].status = "PENDING"
        /\ job[j].kind = "referral"  => ~referral[c].rewarded
        /\ job[j].kind = "milestone" => c \notin rewarded

(* What a transaction has in hand: the row it claimed is still unpaid, the *)
(* subscriptions it has extended and those it is about to are the ones due *)
(* for that row, and what it wrote was computed from the rows as they are. *)
ClaimSound(j) ==
    job[j].kind \in Claims =>
       /\ job[j].claimed /\ Unpaid(j)
       /\ DueKeys(j) \cup Written(j) = Owing(j) /\ job[j].days = Days(j)
WroteSound(j) ==
    \A k \in Written(j) : /\ job[j].wrote[k] = Extended(j, k)
                          /\ job[j].kind = "revoke" => subs[k] # NoSub
JobSound(j) ==
    /\ job[j].at <= today
    /\ job[j].kind = "referral" => referral[job[j].row] # NoReferral
    /\ ~Extending(j) => Written(j) = {} /\ ~job[j].claimed
    /\ Extending(j) => job[j].kind # "none" /\ ClaimSound(j) /\ WroteSound(j)

(* Two transactions have no row in hand together. *)
JobsApart(i, j) ==
    /\ Written(i) \cap Written(j) = {}
    /\ ~(job[i].claimed /\ job[j].claimed /\ job[i].kind = job[j].kind
         /\ job[i].row = job[j].row)

ForfeitedCredit == \A k \in PlanKeys : forfeited[k] <= Credited(k)

Books ==
    /\ \A j \in Jobs : JobSound(j)
    /\ \A i, j \in Jobs : i # j => JobsApart(i, j)
    /\ ForfeitedCredit /\ DaysAccounted /\ LastPaymentKept

(* Credited, by its parts. *)
Paid(k)    == {c \in Codes : orders[c].key = k /\ orders[c].status = "PAID"}
Friends(k) == {u \in Users : referral[u].rewarded /\ k[1] \in {u, referral[u].inviter}}
Credit(paid, friends, mine, k, gift) ==
    paid * DURATION_DAYS[k[2]] + gift
    + IF k[2] # PRO THEN 0
      ELSE friends * REFERRAL_REWARD_DAYS + IF mine THEN REWARD_DAYS ELSE 0

LEMMA CreditedParts ==
    ASSUME TypeOK, NEW k \in PlanKeys
    PROVE  /\ Credited(k) = Credit(Cardinality(Paid(k)), Cardinality(Friends(k)),
                                   k[1] \in rewarded, k, granted[k])
           /\ IsFiniteSet(Paid(k)) /\ Cardinality(Paid(k)) \in Nat
           /\ IsFiniteSet(Friends(k)) /\ Cardinality(Friends(k)) \in Nat
           /\ k[1] \in Users /\ k[2] \in Plans /\ DURATION_DAYS[k[2]] \in Nat
           /\ granted[k] \in Nat /\ REFERRAL_REWARD_DAYS \in Nat /\ REWARD_DAYS \in Nat
<1>1. IsFiniteSet(Paid(k)) /\ IsFiniteSet(Friends(k))
  <2>1. Paid(k) \subseteq Codes /\ Friends(k) \subseteq Users  BY DEF Paid, Friends
  <2>2. QED  BY <2>1, SubscriptionsAssumption, FS_Subset
<1>2. Cardinality(Paid(k)) \in Nat /\ Cardinality(Friends(k)) \in Nat
  BY <1>1, FS_CardinalityType
<1>3. Credited(k) = Credit(Cardinality(Paid(k)), Cardinality(Friends(k)),
                           k[1] \in rewarded, k, granted[k])
  BY DEF Credited, Credit, Paid, Friends
<1>4. k[1] \in Users /\ k[2] \in Plans  BY DEF PlanKeys
<1>5. QED  BY <1>1, <1>2, <1>3, <1>4, SubscriptionsAssumption DEF TypeOK

(* Rows that still say what they said of what was paid and earned. *)
OrdersKeep ==
    /\ \A c \in Codes : orders[c].status = "PENDING" =>
          orders'[c].status = "PENDING" /\ orders'[c].key = orders[c].key
    /\ \A c \in Codes : orders'[c].status = "PAID" <=> orders[c].status = "PAID"
    /\ \A c \in Codes : orders[c].status = "PAID" => orders'[c].key = orders[c].key
ReferralsKeep ==
    /\ \A u \in Users : referral[u] # NoReferral => referral'[u] = referral[u]
    /\ \A u \in Users : referral'[u].rewarded <=> referral[u].rewarded

LEMMA CreditedSame ==
    ASSUME OrdersKeep, ReferralsKeep, UNCHANGED <<rewarded, granted>>, NEW k \in PlanKeys
    PROVE  Credited(k)' = Credited(k) /\ Paid(k)' = Paid(k)
<1>1. Paid(k)' = Paid(k)  BY DEF Paid, OrdersKeep
<1>2. Friends(k)' = Friends(k)
  <2>1. \A u \in Users : referral[u].rewarded => referral'[u] = referral[u]
    BY DEF ReferralsKeep, NoReferral
  <2>2. QED  BY <2>1 DEF Friends, ReferralsKeep
<1>3. Credited(k)' = Cardinality(Paid(k)') * DURATION_DAYS[k[2]] + granted'[k]
        + IF k[2] # PRO THEN 0
          ELSE Cardinality(Friends(k)') * REFERRAL_REWARD_DAYS
               + IF k[1] \in rewarded' THEN REWARD_DAYS ELSE 0
  BY DEF Credited, Paid, Friends
<1>4. Credited(k) = Cardinality(Paid(k)) * DURATION_DAYS[k[2]] + granted[k]
        + IF k[2] # PRO THEN 0
          ELSE Cardinality(Friends(k)) * REFERRAL_REWARD_DAYS
               + IF k[1] \in rewarded THEN REWARD_DAYS ELSE 0
  BY DEF Credited, Paid, Friends
<1> HIDE DEF Paid, Friends
<1>5. QED  BY <1>1, <1>2, <1>3, <1>4

(* Steps that touch no subscription keep the books of the subscriptions. *)
LEMMA NothingPaid ==
    ASSUME Rows, Books, OrdersKeep, ReferralsKeep,
           UNCHANGED <<subs, rewarded, granted, forfeited>>,
           today' \in Nat, today <= today'
    PROVE  ForfeitedCredit' /\ DaysAccounted' /\ LastPaymentKept'
<1>1. \A k \in PlanKeys : Credited(k)' = Credited(k) /\ Paid(k)' = Paid(k)  BY CreditedSame
<1>2. ForfeitedCredit'  BY <1>1 DEF Books, ForfeitedCredit
<1>3. LastPaymentKept'
  <2>1. LastPaymentKept  BY DEF Books
  <2>2. ASSUME NEW k \in PlanKeys
        PROVE  IF Paid(k)' = {} THEN subs'[k].lastPayment = None
               ELSE subs'[k].lastPayment \in Paid(k)'
    BY <1>1, <2>1 DEF LastPaymentKept, Paid
  <2>3. QED  BY <2>2 DEF LastPaymentKept, Paid
<1>4. DaysAccounted'
  <2>1. SUFFICES ASSUME NEW k \in PlanKeys
                 PROVE  IF subs[k] = NoSub THEN Credited(k)' - forfeited'[k] = 0
                        ELSE /\ Credited(k)' - forfeited'[k] <= subs[k].expiresAt
                             /\ subs[k].expiresAt <= today' + (Credited(k)' - forfeited'[k])
    BY DEF DaysAccounted
  <2>2. Credited(k)' - forfeited'[k] = Credited(k) - forfeited[k]  BY <1>1
  <2> DEFINE owed == Credited(k) - forfeited[k]
  <2>3. owed \in Int /\ subs[k].expiresAt \in Int /\ today \in Int
    BY CreditedNat, SubscriptionsAssumption DEF Rows, TypeOK, SubType
  <2>4. IF subs[k] = NoSub THEN owed = 0
        ELSE owed <= subs[k].expiresAt /\ subs[k].expiresAt <= today + owed
    BY DEF Books, DaysAccounted
  <2> HIDE DEF owed
  <2>5. subs[k].expiresAt <= today + owed => subs[k].expiresAt <= today' + owed  BY <2>3
  <2>6. QED  BY <2>2, <2>4, <2>5 DEF owed
<1>5. QED  BY <1>2, <1>3, <1>4

(* And they keep the jobs that do not move. *)
LEMMA JobWaits ==
    ASSUME Rows, Books, OrdersKeep, ReferralsKeep, UNCHANGED <<subs, rewarded>>,
           today' \in Nat, today <= today', NEW j \in Jobs, job'[j] = job[j]
    PROVE  JobSound(j)' /\ Written(j)' = Written(j)
<1>1. Written(j)' = Written(j) /\ DueKeys(j)' = DueKeys(j)  BY DEF Written, DueKeys
<1>2. JobSound(j)  BY DEF Books
<1>3. job[j].at \in Nat /\ today \in Nat
  BY SubscriptionsAssumption DEF Rows, TypeOK, JobType
<1>4. job'[j].at <= today'  BY <1>2, <1>3 DEF JobSound
<1>5. job'[j].kind = "referral" => referral'[job'[j].row] # NoReferral
  BY <1>2 DEF JobSound, ReferralsKeep, Rows, RowKnown
<1>6. Extending(j) /\ job[j].kind \in Claims =>
         Unpaid(j)' /\ Owing(j)' = Owing(j) /\ Days(j)' = Days(j)
  <2>1. SUFFICES ASSUME Extending(j), job[j].kind \in Claims
                 PROVE  Unpaid(j)' /\ Owing(j)' = Owing(j) /\ Days(j)' = Days(j)
    OBVIOUS
  <2>2. Unpaid(j)  BY <1>2, <2>1 DEF JobSound, ClaimSound
  <2>3. CASE job[j].kind = "webhook"
    BY <2>2, <2>3 DEF Unpaid, Owing, Days, OrdersKeep, Rows, RowKnown
  <2>4. CASE job[j].kind = "referral"
    BY <1>2, <2>2, <2>4 DEF JobSound, Unpaid, Owing, Days, ReferralsKeep, Rows, RowKnown
  <2>5. CASE job[j].kind = "milestone"
    BY <2>2, <2>5 DEF Unpaid, Owing, Days
  <2>6. QED  BY <2>1, <2>3, <2>4, <2>5 DEF Claims
<1>7. Extending(j) => ClaimSound(j)'
  BY <1>1, <1>2, <1>6 DEF JobSound, ClaimSound
<1>8. Extending(j) => WroteSound(j)'
  BY <1>1, <1>2 DEF JobSound, WroteSound, Extended
<1>9. QED  BY <1>1, <1>2, <1>4, <1>5, <1>7, <1>8 DEF JobSound, Extending

LEMMA InitBooks == Init => Books
<1> SUFFICES ASSUME Init PROVE Books  OBVIOUS
<1>0. Rows  BY InitRows
<1>1. \A j \in Jobs : job[j] = IdleJob  BY DEF Init
<1>2. \A j \in Jobs : Written(j) = {} /\ ~job[j].claimed  BY <1>1 DEF Written, IdleJob
<1>3. \A j \in Jobs : JobSound(j)
  BY <1>1, <1>2 DEF JobSound, Extending, IdleJob, Init
<1>4. \A i, j \in Jobs : i # j => JobsApart(i, j)  BY <1>2 DEF JobsApart
<1>5. ASSUME NEW k \in PlanKeys
      PROVE  /\ Paid(k) = {} /\ Credited(k) = 0 /\ forfeited[k] = 0
             /\ subs[k] = NoSub
  <2>1. \A c \in Codes : orders[c].status # "PAID"
    <3>1. \A c \in Codes : orders[c].status \in {"PENDING", "NONE"}
      BY OrdersAssumption DEF Init, OrdersInit, NoOrder
    <3>2. QED  BY <3>1
  <2>2. Paid(k) = {}  BY <2>1 DEF Paid
  <2>3. Friends(k) = {}  BY DEF Friends, Init, NoReferral
  <2>4. granted[k] = 0 /\ k[1] \notin rewarded  BY DEF Init
  <2>5. Cardinality(Paid(k)) = 0 /\ Cardinality(Friends(k)) = 0  BY <2>2, <2>3, FS_EmptySet
  <2>6. Credited(k) = Credit(0, 0, FALSE, k, 0)
    BY <1>0, <2>4, <2>5, CreditedParts DEF Rows, Credit
  <2>7. Credit(0, 0, FALSE, k, 0) = 0  BY <1>0, CreditedParts DEF Credit, Rows
  <2>8. QED  BY <2>2, <2>6, <2>7 DEF Init
<1>6. ForfeitedCredit  BY <1>5 DEF ForfeitedCredit
<1>7. DaysAccounted  BY <1>5 DEF DaysAccounted
<1>8. LastPaymentKept  BY <1>5 DEF LastPaymentKept, Paid, NoSub
<1>9. QED  BY <1>3, <1>4, <1>6, <1>7, <1>8 DEF Books

(* A step of one job that leaves every table alone. *)
LEMMA OnlyJobBooks ==
    ASSUME Rows, Books, NEW j \in Jobs, NEW new, OnlyJob(j, new),
           JobSound(j)', \A i \in Jobs \ {j} : JobsApart(i, j)'
    PROVE  Books'
<1>1. job' = [job EXCEPT ![j] = new] /\ job \in [Jobs -> JobType]
  BY DEF OnlyJob, Rows, TypeOK
<1>2. \A i \in Jobs \ {j} : job'[i] = job[i]  BY <1>1
<1>3. OrdersKeep /\ ReferralsKeep  BY DEF OnlyJob, orderVars, OrdersKeep, ReferralsKeep
<1>4. today' \in Nat /\ today <= today'
  BY SubscriptionsAssumption DEF OnlyJob, Rows, TypeOK
<1>5. UNCHANGED <<subs, rewarded, granted, forfeited>>  BY DEF OnlyJob
<1>6. ForfeitedCredit' /\ DaysAccounted' /\ LastPaymentKept'
  BY <1>3, <1>4, <1>5, NothingPaid
<1>7. \A i \in Jobs : JobSound(i)'
  BY <1>2, <1>3, <1>4, <1>5, JobWaits
<1>8. \A i, k \in Jobs : i # k => JobsApart(i, k)'
  <2>1. ASSUME NEW i \in Jobs \ {j}, NEW k \in Jobs \ {j}, i # k PROVE JobsApart(i, k)'
    BY <1>2, <2>1 DEF Books, JobsApart, Written
  <2>2. \A i \in Jobs \ {j} : JobsApart(j, i)'  BY DEF JobsApart
  <2>3. QED  BY <2>1, <2>2
<1>9. QED  BY <1>6, <1>7, <1>8 DEF Books

(* Opening a transaction, and rolling one back. *)
LEMMA FreshBooks ==
    ASSUME Rows, Books, NEW j \in Jobs, NEW new, OnlyJob(j, new),
           \A k \in PlanKeys : new.wrote[k] = None, ~new.claimed,
           new.at <= today,
           new.kind = "referral" => referral[new.row] # NoReferral,
           new.pc = "extend" => new.kind \notin Claims /\ new.kind # "none"
    PROVE  Books'
<1>1. job'[j] = new  BY DEF OnlyJob, Rows, TypeOK
<1>2. Written(j)' = {}  BY <1>1 DEF Written
<1>3. JobSound(j)'
  BY <1>1, <1>2 DEF JobSound, Extending, ClaimSound, WroteSound, OnlyJob
<1>4. \A i \in Jobs \ {j} : JobsApart(i, j)'  BY <1>1, <1>2 DEF JobsApart
<1>5. QED  BY <1>3, <1>4, OnlyJobBooks

LEMMA OpenBooks ==
    ASSUME Rows, Books, NEW j \in Jobs,
           \/ \E t \in Transfers : Deliver(j, t)
           \/ \E u \in Users : ActivityDay(j, u) \/ Dashboard(j, u)
           \/ \E kind \in {"grant", "revoke"}, key \in PlanKeys : Admin(j, kind, key)
    PROVE  Books'
<1>0. TypeOK /\ today \in Nat  BY SubscriptionsAssumption DEF Rows, TypeOK
<1>1. ASSUME NEW kind \in {"webhook", "referral", "milestone"}, NEW row \in Codes \cup Users,
             NEW t \in Transfers \cup {None}, OnlyJob(j, Claim(kind, row, t)),
             kind = "referral" => referral[row] # NoReferral
      PROVE  Books'
  <2> DEFINE new == Claim(kind, row, t)
  <2>1. new.at = today  BY <1>0 DEF Claim, IdleJob
  <2>2. /\ new.pc = "claim" /\ new.kind = kind /\ new.row = row /\ ~new.claimed
        /\ \A k \in PlanKeys : new.wrote[k] = None
    BY <1>0, ClaimTyped
  <2> HIDE DEF new
  <2>3. OnlyJob(j, new)  BY <1>1 DEF new
  <2>4. QED  BY <1>0, <1>1, <2>1, <2>2, <2>3, FreshBooks
<1>2. ASSUME NEW t \in Transfers, Deliver(j, t) PROVE Books'
  <2>1. CodeOf[t] \in Codes  BY SubscriptionsAssumption
  <2>2. OnlyJob(j, Claim("webhook", CodeOf[t], t))  BY <1>2 DEF Deliver
  <2>3. QED  BY <1>1, <2>1, <2>2
<1>3. ASSUME NEW u \in Users, ActivityDay(j, u) PROVE Books'
  <2>1. OnlyJob(j, Claim("referral", u, None)) /\ referral[u] # NoReferral
    BY <1>3 DEF ActivityDay
  <2>2. QED  BY <1>1, <2>1
<1>4. ASSUME NEW u \in Users, Dashboard(j, u) PROVE Books'
  <2>1. OnlyJob(j, Claim("milestone", u, None))  BY <1>4 DEF Dashboard
  <2>2. QED  BY <1>1, <2>1
<1>5. ASSUME NEW kind \in {"grant", "revoke"}, NEW key \in PlanKeys, Admin(j, kind, key)
      PROVE  Books'
  <2> DEFINE new == [IdleJob EXCEPT !.pc = "extend", !.kind = kind, !.at = today,
                                    !.due = <<key>>, !.days = GrantDays]
  <2>1. /\ new.pc = "extend" /\ new.kind = kind /\ ~new.claimed /\ new.at = today
        /\ \A k \in PlanKeys : new.wrote[k] = None
    BY DEF IdleJob
  <2>2. OnlyJob(j, new)  BY <1>5 DEF Admin
  <2> HIDE DEF new
  <2>3. new.at <= today /\ kind \notin Claims /\ kind # "none" /\ kind # "referral"
    BY <1>0, <2>1 DEF Claims
  <2>4. QED  BY <2>1, <2>2, <2>3, FreshBooks
<1>6. QED  BY <1>2, <1>3, <1>4, <1>5

LEMMA AbortBooks == ASSUME Rows, Books, NEW j \in Jobs, OnlyJob(j, IdleJob) PROVE Books'
<1>1. today \in Nat  BY SubscriptionsAssumption DEF Rows, TypeOK
<1>2. /\ IdleJob.pc = "idle" /\ IdleJob.kind = "none" /\ ~IdleJob.claimed /\ IdleJob.at <= today
      /\ \A k \in PlanKeys : IdleJob.wrote[k] = None
  BY <1>1 DEF IdleJob
<1>3. QED  BY <1>2, FreshBooks

LEMMA ClaimWonBooks == ASSUME Rows, Books, NEW j \in Jobs, ClaimWon(j) PROVE Books'
<1> DEFINE new == [job[j] EXCEPT !.pc = "extend", !.claimed = TRUE,
                                 !.due = Due(j), !.days = Days(j)]
<1>1. job[j] \in JobType /\ JobSound(j) /\ job[j].kind \in Claims /\ job[j].pc = "claim"
  BY DEF Rows, RowKnown, TypeOK, Books, ClaimWon, Claims
<1>2. OnlyJob(j, new)  BY DEF ClaimWon
<1>3. /\ new.pc = "extend" /\ new.claimed /\ new.due = Due(j) /\ new.days = Days(j)
      /\ new.kind = job[j].kind /\ new.row = job[j].row /\ new.at = job[j].at
      /\ new.wrote = job[j].wrote
  BY <1>1 DEF JobType
<1> HIDE DEF new
<1>4. job'[j] = new  BY <1>2 DEF OnlyJob, Rows, TypeOK
<1>5. Written(j)' = {}  BY <1>1, <1>3, <1>4 DEF JobSound, Extending, Written
<1>6. Owing(j)' = Owing(j) /\ Days(j)' = Days(j)
  BY <1>1, <1>2, <1>3, <1>4 DEF Owing, Days, Claims, OnlyJob, orderVars
<1>7. DueKeys(j)' = Owing(j)
  <2>1. DueKeys(j)' = {Due(j)[i] : i \in DOMAIN Due(j)}  BY <1>3, <1>4 DEF DueKeys
  <2>2. CASE job[j].kind = "webhook"
    <3>1. Due(j) = <<orders[job[j].row].key>>  BY <2>2 DEF Due
    <3>2. QED  BY <2>1, <2>2, <3>1 DEF Owing
  <2>3. CASE job[j].kind = "referral"
    <3> DEFINE a == <<referral[job[j].row].inviter, PRO>>
               b == <<job[j].row, PRO>>
    <3>1. Due(j) = <<a, b>>  BY <2>3 DEF Due
    <3>2. Owing(j) = {a, b}  BY <2>3 DEF Owing
    <3> HIDE DEF a, b
    <3>3. DOMAIN <<a, b>> = {1, 2}  OBVIOUS
    <3>4. QED  BY <2>1, <3>1, <3>2, <3>3
  <2>4. CASE job[j].kind = "milestone"
    <3> DEFINE a == <<job[j].row, PRO>>
    <3>1. Due(j) = <<a>> /\ Owing(j) = {a}  BY <2>4 DEF Due, Owing
    <3> HIDE DEF a
    <3>2. QED  BY <2>1, <3>1
  <2>5. QED  BY <1>1, <2>2, <2>3, <2>4 DEF Claims
<1>8. Unpaid(j)'
  BY <1>2, <1>3, <1>4 DEF ClaimWon, Matches, Unpaid, OnlyJob, orderVars
<1>9. JobSound(j)'
  BY <1>1, <1>2, <1>3, <1>4, <1>5, <1>6, <1>7, <1>8
  DEF JobSound, Extending, ClaimSound, WroteSound, Claims, OnlyJob
<1>10. ASSUME NEW i \in Jobs \ {j} PROVE JobsApart(i, j)'
  <2>1. job'[i] = job[i]  BY <1>2 DEF OnlyJob, Rows, TypeOK
  <2>2. QED  BY <1>3, <1>4, <1>5, <2>1 DEF JobsApart, ClaimWon, RowFree
<1>11. QED  BY <1>2, <1>9, <1>10, OnlyJobBooks

LEMMA ExtendBooks == ASSUME Rows, Books, NEW j \in Jobs, Extend(j) PROVE Books'
<1> DEFINE key == Head(job[j].due)
           new == [job[j] EXCEPT !.due = Tail(@), !.wrote[key] = Extended(j, key)]
<1>1. job[j] \in JobType /\ JobSound(j) /\ Extending(j)
  BY DEF Rows, TypeOK, Books, Extend, Extending
<1>2. job[j].due \in Seq(PlanKeys) /\ job[j].due # <<>>  BY <1>1 DEF JobType, Extend
<1>3. key \in PlanKeys /\ key \in DueKeys(j)
      /\ DueKeys(j) = {key} \cup {Tail(job[j].due)[i] : i \in DOMAIN Tail(job[j].due)}
  <2> DEFINE s == job[j].due
  <2>1. s \in Seq(PlanKeys) /\ s # <<>>  BY <1>2
  <2> HIDE DEF s
  <2>2. Head(s) = s[1] /\ Head(s) \in PlanKeys /\ 1 \in DOMAIN s  BY <2>1
  <2>3. /\ DOMAIN Tail(s) = 1 .. Len(s) - 1 /\ DOMAIN s = 1 .. Len(s) /\ Len(s) \in Nat
        /\ \A i \in 1 .. Len(s) - 1 : Tail(s)[i] = s[i + 1]
    BY <2>1
  <2>4. \A i \in DOMAIN s : i = 1 \/ (i - 1 \in DOMAIN Tail(s) /\ s[i] = Tail(s)[i - 1])
    BY <2>3
  <2>5. {s[i] : i \in DOMAIN s} = {Head(s)} \cup {Tail(s)[i] : i \in DOMAIN Tail(s)}
    <3>1. \A i \in DOMAIN Tail(s) : i + 1 \in DOMAIN s /\ Tail(s)[i] = s[i + 1]  BY <2>3
    <3>2. \A i \in DOMAIN s : s[i] \in {Head(s)} \cup {Tail(s)[n] : n \in DOMAIN Tail(s)}
      BY <2>2, <2>4
    <3>3. \A i \in DOMAIN Tail(s) : Tail(s)[i] \in {s[n] : n \in DOMAIN s}  BY <3>1
    <3>4. Head(s) \in {s[n] : n \in DOMAIN s}  BY <2>2
    <3>5. QED  BY <3>2, <3>3, <3>4
  <2>6. QED  BY <2>2, <2>5 DEF s, DueKeys
<1>4. Extended(j, key) \in SubType /\ Extended(j, key) # None
  BY <1>3, ExtendedTyped, SubscriptionsAssumption
<1>5. OnlyJob(j, new) /\ ~NothingToRevoke(j)  BY DEF Extend
<1> HIDE DEF key
<1>6. /\ new.pc = job[j].pc /\ new.kind = job[j].kind /\ new.row = job[j].row
      /\ new.at = job[j].at /\ new.days = job[j].days /\ new.claimed = job[j].claimed
      /\ new.due = Tail(job[j].due) /\ new.wrote = [job[j].wrote EXCEPT ![key] = Extended(j, key)]
  BY <1>1 DEF JobType
<1> HIDE DEF new
<1>7. job'[j] = new  BY <1>5 DEF OnlyJob, Rows, TypeOK
<1>8. job[j].wrote \in [PlanKeys -> SubType \cup {None}]  BY <1>1 DEF JobType
<1>9. Written(j)' = Written(j) \cup {key}  BY <1>3, <1>4, <1>6, <1>7, <1>8 DEF Written
<1>10. DueKeys(j)' \cup Written(j)' = DueKeys(j) \cup Written(j)
  <2>1. DueKeys(j)' = {Tail(job[j].due)[i] : i \in DOMAIN Tail(job[j].due)}
    BY <1>6, <1>7 DEF DueKeys
  <2>2. QED  BY <1>3, <1>9, <2>1
<1>11. job[j].kind \in Claims => Unpaid(j)' /\ Owing(j)' = Owing(j) /\ Days(j)' = Days(j)
  <2>1. UNCHANGED <<orders, referral, rewarded>>  BY <1>5 DEF OnlyJob, orderVars
  <2>2. job[j].kind \in Claims => Unpaid(j)  BY <1>1 DEF JobSound, ClaimSound
  <2>3. job'[j].kind = job[j].kind /\ job'[j].row = job[j].row  BY <1>6, <1>7
  <2>4. Unpaid(j)' = Unpaid(j)  BY <2>1, <2>3 DEF Unpaid
  <2>5. job[j].kind \in Claims => Owing(j)' = Owing(j) /\ Days(j)' = Days(j)
    BY <2>1, <2>3 DEF Owing, Days
  <2>6. QED  BY <2>2, <2>4, <2>5
<1>12. \A k \in PlanKeys : Extended(j, k)' = Extended(j, k)
  BY <1>5, <1>6, <1>7 DEF Extended, OnlyJob
<1>13. WroteSound(j)'
  <2>1. SUFFICES ASSUME NEW k \in Written(j)'
                 PROVE  /\ job'[j].wrote[k] = Extended(j, k)'
                        /\ job'[j].kind = "revoke" => subs'[k] # NoSub
    BY DEF WroteSound
  <2>2. k \in PlanKeys /\ subs' = subs  BY <1>5 DEF Written, OnlyJob
  <2>3. CASE k = key
    BY <1>3, <1>5, <1>6, <1>7, <1>8, <1>12, <2>2, <2>3 DEF NothingToRevoke, key
  <2>4. CASE k # key
    BY <1>1, <1>6, <1>7, <1>8, <1>9, <1>12, <2>1, <2>2, <2>4 DEF JobSound, WroteSound
  <2>5. QED  BY <2>3, <2>4
<1>14. JobSound(j)'
  <2>1. ClaimSound(j)'
    BY <1>1, <1>6, <1>7, <1>10, <1>11 DEF JobSound, ClaimSound
  <2>2. Extending(j)' /\ job'[j].kind # "none"
    BY <1>1, <1>6, <1>7 DEF JobSound, Extending
  <2>3. job'[j].at <= today' /\ (job'[j].kind = "referral" => referral'[job'[j].row] # NoReferral)
    BY <1>1, <1>5, <1>6, <1>7 DEF JobSound, OnlyJob
  <2>4. QED  BY <1>13, <2>1, <2>2, <2>3 DEF JobSound
<1>15. ASSUME NEW i \in Jobs \ {j} PROVE JobsApart(i, j)'
  <2>1. job'[i] = job[i]  BY <1>5 DEF OnlyJob, Rows, TypeOK
  <2>2. job[i].wrote[key] = None  BY DEF Extend, SubFree, key
  <2>3. JobsApart(i, j) /\ Written(i)' = Written(i)  BY <2>1 DEF Books, Written
  <2>4. QED  BY <1>6, <1>7, <1>9, <2>1, <2>2, <2>3 DEF JobsApart, Written
<1>16. QED  BY <1>5, <1>14, <1>15, OnlyJobBooks

(* What a commit credits: the days of the job, to the rows it wrote. *)
LEMMA CommitCredits ==
    ASSUME Rows, Books, NEW j \in Jobs, Commit(j), TypeOK', NEW k \in PlanKeys
    PROVE  /\ Credited(k)' = Credited(k) + IF k \in Written(j) /\ job[j].kind # "revoke"
                                           THEN job[j].days ELSE 0
           /\ Paid(k)' = Paid(k) \cup IF k \in Written(j) /\ job[j].kind = "webhook"
                                      THEN {job[j].row} ELSE {}
<1> DEFINE d == IF k \in Written(j) /\ job[j].kind # "revoke" THEN job[j].days ELSE 0
           c == job[j].row
<1>0. TypeOK  BY DEF Rows
<1>1. /\ JobSound(j) /\ Extending(j) /\ job[j].kind # "none" /\ job[j].days \in Nat
      /\ job[j].kind \in {"webhook", "referral", "milestone", "grant", "revoke"}
  BY DEF Books, Commit, Extending, JobSound, Rows, TypeOK, JobType
<1>2. DueKeys(j) = {}  BY DEF DueKeys, Commit
<1>3. job[j].kind \in Claims =>
         Written(j) = Owing(j) /\ Unpaid(j) /\ job[j].days = Days(j)
  BY <1>1, <1>2 DEF JobSound, ClaimSound
<1>4. /\ orders \in [Codes -> OrderType]
      /\ referral \in [Users -> [inviter : Users \cup {None}, rewarded : BOOLEAN]]
      /\ granted \in [PlanKeys -> Nat]
  BY <1>0 DEF TypeOK, OrdersTypeOK
<1>5. Credited(k) \in Nat  BY <1>0, CreditedNat
<1>6. CASE job[j].kind = "webhook"
  <2>1. c \in Codes /\ orders[c].status = "PENDING" /\ Written(j) = {orders[c].key}
        /\ job[j].days = DURATION_DAYS[orders[c].key[2]]
    BY <1>3, <1>6 DEF Claims, Unpaid, Owing, Days, Rows, RowKnown
  <2>2. orders' = [orders EXCEPT ![c].status = "PAID", ![c].paidBy = job[j].transfer]
    BY <1>6 DEF Commit, Settled
  <2>3. /\ orders'[c].status = "PAID" /\ orders'[c].key = orders[c].key
        /\ \A e \in Codes \ {c} : orders'[e] = orders[e]
    <3>1. orders[c] \in [key : PlanKeys, status : {"PENDING", "PAID"}, lapsed : BOOLEAN,
                         paidBy : Transfers \cup {None}]
      BY <1>4, <2>1 DEF OrderType, NoOrder
    <3>2. QED  BY <1>4, <2>1, <2>2, <3>1
  <2>4. Paid(k)' = Paid(k) \cup IF k = orders[c].key THEN {c} ELSE {}
    BY <2>1, <2>3 DEF Paid
  <2>5. c \notin Paid(k)  BY <2>1 DEF Paid
  <2>6. Cardinality(Paid(k)') = Cardinality(Paid(k)) + IF k = orders[c].key THEN 1 ELSE 0
    <3>1. IsFiniteSet(Paid(k)) /\ Cardinality(Paid(k)) \in Nat  BY <1>0, CreditedParts
    <3>2. Cardinality(Paid(k) \cup {c}) = Cardinality(Paid(k)) + 1
      BY <2>5, <3>1, FS_AddElement
    <3>3. CASE k = orders[c].key  BY <2>4, <3>2, <3>3
    <3>4. CASE k # orders[c].key
      <4>1. Paid(k)' = Paid(k)  BY <2>4, <3>4
      <4>2. QED  BY <3>1, <3>4, <4>1
    <3>5. QED  BY <3>3, <3>4
  <2>7. Friends(k)' = Friends(k) /\ granted' = granted /\ rewarded' = rewarded
    BY <1>6 DEF Commit, Friends
  <2>8. Credited(k)' = Credit(Cardinality(Paid(k)'), Cardinality(Friends(k)'),
                              k[1] \in rewarded', k, granted'[k])
    BY DEF Credited, Credit, Paid, Friends
  <2> HIDE DEF c
  <2>9. k \in Written(j) <=> k = orders[c].key  BY <2>1
  <2>10. (Cardinality(Paid(k)) + 1) * DURATION_DAYS[k[2]] =
            Cardinality(Paid(k)) * DURATION_DAYS[k[2]] + DURATION_DAYS[k[2]]
    <3>1. \A m, n \in Nat : (m + 1) * n = m * n + n  OBVIOUS
    <3>2. QED  BY <1>0, <3>1, CreditedParts
  <2> DEFINE p == Cardinality(Paid(k)) * DURATION_DAYS[k[2]]
             f == Cardinality(Friends(k)) * REFERRAL_REWARD_DAYS
  <2>11. p \in Nat /\ f \in Nat
    <3>1. \A m, n \in Nat : m * n \in Nat  OBVIOUS
    <3>2. QED  BY <1>0, <3>1, CreditedParts
  <2>12. Cardinality(Paid(k)') * DURATION_DAYS[k[2]] =
            p + IF k = orders[c].key THEN job[j].days ELSE 0
    <3>1. CASE k = orders[c].key
      <4>1. DURATION_DAYS[k[2]] = job[j].days  BY <2>1, <3>1
      <4>2. Cardinality(Paid(k)') = Cardinality(Paid(k)) + 1  BY <2>6, <3>1
      <4>3. Cardinality(Paid(k)') * DURATION_DAYS[k[2]] = p + DURATION_DAYS[k[2]]
        BY <2>10, <4>2
      <4>4. QED  BY <3>1, <4>1, <4>3
    <3>2. CASE k # orders[c].key
      <4>1. Cardinality(Paid(k)') = Cardinality(Paid(k))
        BY <1>0, <2>6, <3>2, CreditedParts
      <4>2. Cardinality(Paid(k)') * DURATION_DAYS[k[2]] = p  BY <4>1
      <4> HIDE DEF p
      <4>3. p + 0 = p  BY <2>11
      <4>4. QED  BY <3>2, <4>2, <4>3
    <3>3. QED  BY <3>1, <3>2
  <2>13. Credited(k) = p + granted[k] + IF k[2] # PRO THEN 0
                         ELSE f + IF k[1] \in rewarded THEN REWARD_DAYS ELSE 0
    BY <1>0, CreditedParts DEF Credit
  <2>14. Credited(k)' = Cardinality(Paid(k)') * DURATION_DAYS[k[2]] + granted[k]
                         + IF k[2] # PRO THEN 0
                           ELSE f + IF k[1] \in rewarded THEN REWARD_DAYS ELSE 0
    BY <2>7, <2>8 DEF Credit
  <2> HIDE DEF p, f
  <2>15. Credited(k)' = Credited(k) + IF k = orders[c].key THEN job[j].days ELSE 0
    BY <1>0, <1>1, <1>4, <2>11, <2>12, <2>13, <2>14, CreditedParts
  <2>16. QED  BY <1>6, <2>4, <2>9, <2>15 DEF c
<1>7. CASE job[j].kind = "referral"
  <2>1. /\ c \in Users /\ ~referral[c].rewarded /\ job[j].days = REFERRAL_REWARD_DAYS
        /\ Written(j) = {<<referral[c].inviter, PRO>>, <<c, PRO>>}
    BY <1>3, <1>7 DEF Claims, Unpaid, Owing, Days, Rows, RowKnown
  <2>2. /\ orders' = orders /\ granted' = granted /\ rewarded' = rewarded
        /\ referral' = [referral EXCEPT ![c].rewarded = TRUE]
    BY <1>7 DEF Commit
  <2>3. Paid(k)' = Paid(k)  BY <2>2 DEF Paid
  <2>4. /\ referral'[c].rewarded /\ referral'[c].inviter = referral[c].inviter
        /\ \A u \in Users \ {c} : referral'[u] = referral[u]
    BY <1>4, <2>1, <2>2
  <2> DEFINE his == k[1] \in {c, referral[c].inviter}
  <2>5. Friends(k)' = Friends(k) \cup IF his THEN {c} ELSE {}
    BY <2>1, <2>4 DEF Friends
  <2>6. c \notin Friends(k)  BY <2>1 DEF Friends
  <2>7. Cardinality(Friends(k)') = Cardinality(Friends(k)) + IF his THEN 1 ELSE 0
    <3>1. IsFiniteSet(Friends(k)) /\ Cardinality(Friends(k)) \in Nat  BY <1>0, CreditedParts
    <3>2. Cardinality(Friends(k) \cup {c}) = Cardinality(Friends(k)) + 1
      BY <2>6, <3>1, FS_AddElement
    <3>3. CASE his
      <4>1. Friends(k)' = Friends(k) \cup {c}  BY <2>5, <3>3
      <4>2. QED  BY <3>2, <3>3, <4>1
    <3>4. CASE ~his
      <4>1. Friends(k)' = Friends(k)  BY <2>5, <3>4
      <4>2. QED  BY <3>1, <3>4, <4>1
    <3>5. QED  BY <3>3, <3>4
  <2>8. k \in Written(j) <=> k[2] = PRO /\ his
    BY <2>1 DEF PlanKeys
  <2>9. Credited(k)' = Credit(Cardinality(Paid(k)'), Cardinality(Friends(k)'),
                              k[1] \in rewarded', k, granted'[k])
    BY DEF Credited, Credit, Paid, Friends
  <2>10. (Cardinality(Friends(k)) + 1) * REFERRAL_REWARD_DAYS =
            Cardinality(Friends(k)) * REFERRAL_REWARD_DAYS + REFERRAL_REWARD_DAYS
    <3>1. \A m, n \in Nat : (m + 1) * n = m * n + n  OBVIOUS
    <3>2. QED  BY <1>0, <3>1, CreditedParts
  <2> DEFINE p == Cardinality(Paid(k)) * DURATION_DAYS[k[2]]
             f == Cardinality(Friends(k)) * REFERRAL_REWARD_DAYS
  <2>11. p \in Nat /\ f \in Nat
    <3>1. \A m, n \in Nat : m * n \in Nat  OBVIOUS
    <3>2. QED  BY <1>0, <3>1, CreditedParts
  <2> HIDE DEF his
  <2>12. Cardinality(Friends(k)') * REFERRAL_REWARD_DAYS =
            f + IF his THEN REFERRAL_REWARD_DAYS ELSE 0
    BY <1>0, <2>7, <2>10, <2>11, CreditedParts
  <2>13. Credited(k) = p + granted[k] + IF k[2] # PRO THEN 0
                         ELSE f + IF k[1] \in rewarded THEN REWARD_DAYS ELSE 0
    BY <1>0, CreditedParts DEF Credit
  <2>14. Credited(k)' = p + granted[k]
                         + IF k[2] # PRO THEN 0
                           ELSE Cardinality(Friends(k)') * REFERRAL_REWARD_DAYS
                                + IF k[1] \in rewarded THEN REWARD_DAYS ELSE 0
    BY <2>2, <2>3, <2>9 DEF Credit
  <2> HIDE DEF p, f
  <2>15. Credited(k)' = Credited(k) + IF k[2] = PRO /\ his THEN REFERRAL_REWARD_DAYS ELSE 0
    BY <1>0, <1>4, <2>11, <2>12, <2>13, <2>14, CreditedParts
  <2>16. QED  BY <1>7, <2>1, <2>3, <2>8, <2>15
<1>8. CASE job[j].kind = "milestone"
  <2>1. /\ c \notin rewarded /\ job[j].days = REWARD_DAYS /\ Written(j) = {<<c, PRO>>}
    BY <1>3, <1>8 DEF Claims, Unpaid, Owing, Days
  <2>2. /\ orders' = orders /\ granted' = granted /\ rewarded' = rewarded \cup {c}
        /\ referral' = referral
    BY <1>8 DEF Commit
  <2>3. Paid(k)' = Paid(k) /\ Friends(k)' = Friends(k)  BY <2>2 DEF Paid, Friends
  <2>4. k \in Written(j) <=> k[2] = PRO /\ k[1] = c  BY <2>1 DEF PlanKeys
  <2>5. Credited(k)' = Credit(Cardinality(Paid(k)'), Cardinality(Friends(k)'),
                              k[1] \in rewarded', k, granted'[k])
    BY DEF Credited, Credit, Paid, Friends
  <2> DEFINE p == Cardinality(Paid(k)) * DURATION_DAYS[k[2]]
             f == Cardinality(Friends(k)) * REFERRAL_REWARD_DAYS
  <2>6. p \in Nat /\ f \in Nat
    <3>1. \A m, n \in Nat : m * n \in Nat  OBVIOUS
    <3>2. QED  BY <1>0, <3>1, CreditedParts
  <2>7. Credited(k) = p + granted[k] + IF k[2] # PRO THEN 0
                         ELSE f + IF k[1] \in rewarded THEN REWARD_DAYS ELSE 0
    BY <1>0, CreditedParts DEF Credit
  <2>8. Credited(k)' = p + granted[k] + IF k[2] # PRO THEN 0
                         ELSE f + IF k[1] \in rewarded' THEN REWARD_DAYS ELSE 0
    BY <2>2, <2>3, <2>5 DEF Credit
  <2> HIDE DEF p, f
  <2>9. Credited(k)' = Credited(k) + IF k[2] = PRO /\ k[1] = c THEN REWARD_DAYS ELSE 0
    BY <1>0, <1>4, <2>1, <2>2, <2>6, <2>7, <2>8, CreditedParts
  <2>10. QED  BY <1>8, <2>1, <2>3, <2>4, <2>9
<1>9. CASE job[j].kind \in {"grant", "revoke"}
  <2>1. /\ orders' = orders /\ rewarded' = rewarded /\ referral' = referral
        /\ granted'[k] = granted[k] + d
    <3>1. job[j].kind = "revoke" => granted' = granted /\ d = 0  BY DEF Commit
    <3>2. job[j].kind = "grant" =>
             granted'[k] = IF job[j].wrote[k] = None THEN granted[k]
                           ELSE granted[k] + job[j].days
      BY DEF Commit
    <3>3. QED  BY <1>1, <1>4, <1>9, <3>1, <3>2 DEF Commit, Written
  <2>2. Paid(k)' = Paid(k) /\ Friends(k)' = Friends(k)  BY <2>1 DEF Paid, Friends
  <2>3. Credited(k)' = Credit(Cardinality(Paid(k)'), Cardinality(Friends(k)'),
                              k[1] \in rewarded', k, granted'[k])
    BY DEF Credited, Credit, Paid, Friends
  <2> DEFINE p == Cardinality(Paid(k)) * DURATION_DAYS[k[2]]
             f == Cardinality(Friends(k)) * REFERRAL_REWARD_DAYS
  <2>4. p \in Nat /\ f \in Nat /\ d \in Nat
    <3>1. \A m, n \in Nat : m * n \in Nat  OBVIOUS
    <3>2. QED  BY <1>0, <1>1, <3>1, CreditedParts
  <2>5. Credited(k) = p + granted[k] + IF k[2] # PRO THEN 0
                         ELSE f + IF k[1] \in rewarded THEN REWARD_DAYS ELSE 0
    BY <1>0, CreditedParts DEF Credit
  <2>6. Credited(k)' = p + (granted[k] + d) + IF k[2] # PRO THEN 0
                         ELSE f + IF k[1] \in rewarded THEN REWARD_DAYS ELSE 0
    BY <2>1, <2>2, <2>3 DEF Credit
  <2> HIDE DEF p, f, d
  <2>7. Credited(k)' = Credited(k) + d
    BY <1>0, <1>4, <2>4, <2>5, <2>6, CreditedParts
  <2>8. QED  BY <1>9, <2>2, <2>7 DEF d
<1>10. QED  BY <1>1, <1>6, <1>7, <1>8, <1>9

LEMMA CommitDays ==
    ASSUME Rows, Books, NEW j \in Jobs, Commit(j), TypeOK'
    PROVE  ForfeitedCredit' /\ DaysAccounted' /\ LastPaymentKept'
<1> SUFFICES ASSUME NEW k \in PlanKeys
             PROVE  /\ forfeited'[k] <= Credited(k)'
                    /\ IF subs'[k] = NoSub THEN Credited(k)' - forfeited'[k] = 0
                       ELSE /\ Credited(k)' - forfeited'[k] <= subs'[k].expiresAt
                            /\ subs'[k].expiresAt <= today' + (Credited(k)' - forfeited'[k])
                    /\ IF Paid(k)' = {} THEN subs'[k].lastPayment = None
                       ELSE subs'[k].lastPayment \in Paid(k)'
  BY DEF ForfeitedCredit, DaysAccounted, LastPaymentKept, Paid
<1>0. TypeOK  BY DEF Rows
<1>1. /\ subs[k] \in SubType /\ today \in Nat /\ forfeited[k] \in Nat /\ Credited(k) \in Nat
      /\ job[j] \in JobType
  BY <1>0, CreditedNat, SubscriptionsAssumption DEF TypeOK
<1>2. /\ job[j].at \in Nat /\ job[j].at <= today /\ job[j].days \in Nat
      /\ JobSound(j) /\ Extending(j) /\ WroteSound(j)
  BY <1>1 DEF Books, JobSound, Commit, Extending, JobType
<1>3. /\ subs'[k] = IF k \in Written(j) THEN Extended(j, k) ELSE subs[k]
      /\ today' = today
  <2>1. subs'[k] = IF job[j].wrote[k] = None THEN subs[k] ELSE job[j].wrote[k]  BY DEF Commit
  <2>2. k \in Written(j) <=> job[j].wrote[k] # None  BY DEF Written
  <2>3. QED  BY <1>2, <2>1, <2>2 DEF WroteSound, Commit
<1>4. forfeited'[k] = IF k \in Written(j) /\ job[j].kind = "revoke" THEN Credited(k)
                      ELSE forfeited[k]
  BY DEF Commit, Written
<1>5. Credited(k)' = Credited(k) + IF k \in Written(j) /\ job[j].kind # "revoke"
                                   THEN job[j].days ELSE 0
  BY CommitCredits
<1>6. Paid(k)' = Paid(k) \cup IF k \in Written(j) /\ job[j].kind = "webhook"
                              THEN {job[j].row} ELSE {}
  BY CommitCredits
<1>7. /\ forfeited[k] <= Credited(k)
      /\ IF subs[k] = NoSub THEN Credited(k) - forfeited[k] = 0
         ELSE /\ Credited(k) - forfeited[k] <= subs[k].expiresAt
              /\ subs[k].expiresAt <= today + (Credited(k) - forfeited[k])
      /\ IF Paid(k) = {} THEN subs[k].lastPayment = None
         ELSE subs[k].lastPayment \in Paid(k)
  BY DEF Books, ForfeitedCredit, DaysAccounted, LastPaymentKept, Paid
<1>8. CASE k \notin Written(j)
  BY <1>1, <1>3, <1>4, <1>5, <1>6, <1>7, <1>8
<1>9. CASE k \in Written(j) /\ job[j].kind = "revoke"
  <2>1. subs'[k] = [subs[k] EXCEPT !.expiresAt = job[j].at]
    BY <1>3, <1>9 DEF Extended
  <2>2. subs'[k].expiresAt = job[j].at /\ subs'[k].lastPayment = subs[k].lastPayment
    BY <1>1, <2>1 DEF SubType
  <2>3. subs'[k] # NoSub  BY <1>2, <2>2 DEF NoSub
  <2>4. forfeited'[k] = Credited(k) /\ Credited(k)' = Credited(k)  BY <1>1, <1>4, <1>5, <1>9
  <2>5. Paid(k)' = Paid(k)  BY <1>6, <1>9
  <2>6. QED  BY <1>1, <1>2, <1>3, <1>7, <2>2, <2>3, <2>4, <2>5
<1>10. CASE k \in Written(j) /\ job[j].kind # "revoke"
  <2> DEFINE e == subs[k].expiresAt
             at == job[j].at
             owed == Credited(k) - forfeited[k]
  <2>1. subs'[k] = [expiresAt |-> Later(e, at) + job[j].days,
                    lastPayment |-> IF job[j].kind = "webhook" THEN job[j].row
                                    ELSE subs[k].lastPayment]
    BY <1>3, <1>10 DEF Extended
  <2>2. subs'[k].expiresAt = Later(e, at) + job[j].days
        /\ subs'[k].lastPayment = IF job[j].kind = "webhook" THEN job[j].row
                                  ELSE subs[k].lastPayment
    BY <2>1
  <2>3. e \in Int /\ owed \in Nat  BY <1>1, <1>7 DEF SubType
  <2>4. IF subs[k] = NoSub THEN owed = 0 /\ e = -1 ELSE owed <= e /\ e <= today + owed
    BY <1>7 DEF NoSub
  <2>5. Credited(k)' = Credited(k) + job[j].days /\ forfeited'[k] = forfeited[k]
    BY <1>4, <1>5, <1>10
  <2>6. Credited(k)' - forfeited'[k] = owed + job[j].days  BY <1>1, <1>2, <2>5
  <2>7. forfeited'[k] <= Credited(k)'  BY <1>1, <1>2, <1>7, <2>5
  <2> HIDE DEF e, at, owed
  <2>8. owed <= Later(e, at) /\ Later(e, at) <= today + owed /\ Later(e, at) >= 0
        /\ Later(e, at) \in Int
    BY <1>1, <1>2, <2>3, <2>4 DEF Later, at
  <2>9. subs'[k] # NoSub
    BY <1>2, <2>2, <2>8 DEF NoSub
  <2>10. /\ owed + job[j].days <= subs'[k].expiresAt
         /\ subs'[k].expiresAt <= today + (owed + job[j].days)
    BY <1>1, <1>2, <2>2, <2>3, <2>8
  <2>11. IF Paid(k)' = {} THEN subs'[k].lastPayment = None
         ELSE subs'[k].lastPayment \in Paid(k)'
    BY <1>6, <1>7, <1>10, <2>2
  <2>12. QED  BY <1>3, <2>6, <2>7, <2>9, <2>10, <2>11
<1>11. QED  BY <1>8, <1>9, <1>10

LEMMA CommitBooks == ASSUME Rows, Books, NEW j \in Jobs, Commit(j), TypeOK' PROVE Books'
<1>1. job' = [job EXCEPT ![j] = IdleJob] /\ job \in [Jobs -> JobType]
  BY DEF Commit, Rows, TypeOK
<1>2. job'[j] = IdleJob /\ \A i \in Jobs \ {j} : job'[i] = job[i]  BY <1>1
<1>3. JobSound(j) /\ Extending(j) /\ today' = today /\ today \in Nat
  BY SubscriptionsAssumption DEF Books, Commit, Extending, Rows, TypeOK
<1>4. Written(j)' = {} /\ ~job'[j].claimed  BY <1>2 DEF Written, IdleJob
<1>5. JobSound(j)'
  BY <1>2, <1>3, <1>4 DEF JobSound, Extending, IdleJob
<1>6. ASSUME NEW i \in Jobs \ {j} PROVE JobSound(i)'
  <2>1. Written(i)' = Written(i) /\ DueKeys(i)' = DueKeys(i)
    BY <1>2 DEF Written, DueKeys
  <2>2. JobSound(i) /\ JobsApart(i, j)  BY DEF Books
  <2>3. /\ orders \in [Codes -> OrderType]
        /\ referral \in [Users -> [inviter : Users \cup {None}, rewarded : BOOLEAN]]
    BY DEF Rows, TypeOK, OrdersTypeOK
  <2>4. ~(job[i].claimed /\ job[i].kind = job[j].kind /\ job[i].row = job[j].row
          /\ job[j].kind \in Claims)
    BY <1>3, <2>2 DEF JobsApart, JobSound, ClaimSound
  <2>5. job'[i].kind = "referral" => referral'[job'[i].row] # NoReferral
    <3>1. CASE job[j].kind = "referral"
      <4>1. job[j].row \in Users /\ referral' = [referral EXCEPT ![job[j].row].rewarded = TRUE]
        BY <3>1 DEF Commit, Rows, RowKnown
      <4>2. \A u \in Users : referral'[u] = referral[u] \/ referral'[u].rewarded
        BY <2>3, <4>1
      <4>3. QED  BY <1>2, <2>2, <4>2 DEF JobSound, NoReferral, Rows, RowKnown
    <3>2. CASE job[j].kind # "referral"
      BY <1>2, <2>2, <3>2 DEF JobSound, Commit
    <3>3. QED  BY <3>1, <3>2
  <2>6. Extending(i) /\ job[i].kind \in Claims =>
           Unpaid(i)' /\ Owing(i)' = Owing(i) /\ Days(i)' = Days(i)
    <3>1. SUFFICES ASSUME Extending(i), job[i].kind \in Claims
                   PROVE  Unpaid(i)' /\ Owing(i)' = Owing(i) /\ Days(i)' = Days(i)
      OBVIOUS
    <3>2. Unpaid(i) /\ job[i].claimed  BY <2>2, <3>1 DEF JobSound, ClaimSound
    <3>3. CASE job[i].kind = "webhook"
      <4>1. job[i].row \in Codes  BY <3>3 DEF Rows, RowKnown
      <4>2. orders'[job[i].row] = orders[job[i].row]
        <5>1. CASE job[j].kind = "webhook"
          <6>1. job[i].row # job[j].row  BY <2>4, <3>2, <3>3, <5>1 DEF Claims
          <6>2. orders' = Settled(job[j].row, job[j].transfer)  BY <5>1 DEF Commit
          <6>3. QED  BY <2>3, <4>1, <6>1, <6>2 DEF Settled
        <5>2. CASE job[j].kind # "webhook"  BY <5>2 DEF Commit
        <5>3. QED  BY <5>1, <5>2
      <4>3. QED  BY <1>2, <3>2, <3>3, <4>2 DEF Unpaid, Owing, Days
    <3>4. CASE job[i].kind = "referral"
      <4>1. job[i].row \in Users  BY <3>4 DEF Rows, RowKnown
      <4>2. referral'[job[i].row] = referral[job[i].row]
        <5>1. CASE job[j].kind = "referral"
          <6>1. job[i].row # job[j].row  BY <2>4, <3>2, <3>4, <5>1 DEF Claims
          <6>2. referral' = [referral EXCEPT ![job[j].row].rewarded = TRUE]
            BY <5>1 DEF Commit
          <6>3. QED  BY <2>3, <4>1, <6>1, <6>2
        <5>2. CASE job[j].kind # "referral"  BY <5>2 DEF Commit
        <5>3. QED  BY <5>1, <5>2
      <4>3. QED  BY <1>2, <3>2, <3>4, <4>2 DEF Unpaid, Owing, Days
    <3>5. CASE job[i].kind = "milestone"
      <4>1. job[i].row \notin rewarded'
        BY <2>4, <3>2, <3>5 DEF Unpaid, Commit, Claims
      <4>2. QED  BY <1>2, <3>5, <4>1 DEF Unpaid, Owing, Days
    <3>6. QED  BY <3>1, <3>3, <3>4, <3>5 DEF Claims
  <2>7. Extending(i) => ClaimSound(i)'
    BY <1>2, <2>1, <2>2, <2>6 DEF JobSound, ClaimSound
  <2>8. Extending(i) => WroteSound(i)'
    <3>1. \A k \in Written(i) : subs'[k] = subs[k]
      BY <2>2 DEF JobsApart, Written, Commit
    <3>2. QED  BY <1>2, <2>1, <2>2, <3>1 DEF JobSound, WroteSound, Extended
  <2>9. job'[i].at <= today'  BY <1>2, <1>3, <2>2 DEF JobSound
  <2>10. QED  BY <1>2, <2>1, <2>2, <2>5, <2>7, <2>8, <2>9 DEF JobSound, Extending
<1>7. \A i, k \in Jobs : i # k => JobsApart(i, k)'
  <2>1. ASSUME NEW i \in Jobs \ {j}, NEW k \in Jobs \ {j}, i # k PROVE JobsApart(i, k)'
    BY <1>2, <2>1 DEF Books, JobsApart, Written
  <2>2. \A i \in Jobs : JobsApart(i, j)' /\ JobsApart(j, i)'  BY <1>4 DEF JobsApart
  <2>3. QED  BY <2>1, <2>2
<1>8. QED  BY <1>5, <1>6, <1>7, CommitDays DEF Books

(* Orders are created and lapse, invitations are redeemed, lessons are     *)
(* completed and time passes without moving a subscription.                *)
LEMMA OthersBooks ==
    ASSUME Rows, Books, TypeOK',
           \/ CreationNext /\ UNCHANGED <<today, subVars>>
           \/ \E u, v \in Users : Redeem(u, v)
           \/ \E u \in Users : CompleteLessons(u)
           \/ Tick
           \/ UNCHANGED vars
    PROVE  Books'
<1>0. /\ orders \in [Codes -> OrderType] /\ today \in Nat
      /\ referral \in [Users -> [inviter : Users \cup {None}, rewarded : BOOLEAN]]
  BY SubscriptionsAssumption DEF Rows, TypeOK, OrdersTypeOK
<1>1. OrdersKeep
  <2>1. ASSUME NEW r \in Requests, Create(r) PROVE OrdersKeep
    <3>1. PICK c \in Codes : /\ orders[c] = NoOrder
                             /\ orders' = [orders EXCEPT ![c] = NewOrder(request[r].key)]
      BY <2>1 DEF Create
    <3>2. orders[c].status = "NONE" /\ orders'[c].status = "PENDING"
      BY <1>0, <3>1 DEF NoOrder, NewOrder
    <3>3. \A d \in Codes \ {c} : orders'[d] = orders[d]  BY <1>0, <3>1
    <3>4. QED  BY <3>2, <3>3 DEF OrdersKeep
  <2>2. ASSUME NEW c \in Codes, OrderLapses(c) PROVE OrdersKeep
    <3>1. orders[c].status = "PENDING" /\ orders' = [orders EXCEPT ![c].lapsed = TRUE]
      BY <2>2 DEF OrderLapses
    <3>2. orders[c] \in [key : PlanKeys, status : {"PENDING", "PAID"}, lapsed : BOOLEAN,
                         paidBy : Transfers \cup {None}]
      BY <1>0, <3>1 DEF OrderType, NoOrder
    <3>3. orders'[c].status = "PENDING" /\ orders'[c].key = orders[c].key
      BY <1>0, <3>1, <3>2
    <3>4. \A d \in Codes \ {c} : orders'[d] = orders[d]  BY <1>0, <3>1
    <3>5. QED  BY <3>1, <3>3, <3>4 DEF OrdersKeep
  <2>3. CASE UNCHANGED orders  BY <2>3 DEF OrdersKeep
  <2>4. QED
    BY <2>1, <2>2, <2>3 DEF CreationNext, RequestStep, Poll, Decide, CreateFails, Release,
       Unavailable, ServerDies, Acquire, Contend, LockLapses, Redeem, CompleteLessons, Tick,
       orderVars, vars
<1>2. ReferralsKeep
  <2>1. ASSUME NEW u \in Users, NEW v \in Users, Redeem(u, v) PROVE ReferralsKeep
    <3>1. referral[u] = NoReferral /\ referral' = [referral EXCEPT ![u].inviter = v]
      BY <2>1 DEF Redeem
    <3>2. referral'[u].rewarded = referral[u].rewarded
      BY <1>0, <3>1
    <3>3. \A w \in Users \ {u} : referral'[w] = referral[w]  BY <1>0, <3>1
    <3>4. QED  BY <3>1, <3>2, <3>3 DEF ReferralsKeep
  <2>2. CASE UNCHANGED referral  BY <2>2 DEF ReferralsKeep
  <2>3. QED
    BY <2>1, <2>2 DEF subVars, CompleteLessons, Tick, vars
<1>3. UNCHANGED <<subs, rewarded, granted, forfeited, job>>
  BY DEF subVars, Redeem, CompleteLessons, Tick, vars
<1>4. today' \in Nat /\ today <= today'
  BY <1>0, SubscriptionsAssumption DEF subVars, Redeem, CompleteLessons, Tick, vars, TypeOK
<1>5. ForfeitedCredit' /\ DaysAccounted' /\ LastPaymentKept'
  BY <1>1, <1>2, <1>3, <1>4, NothingPaid
<1>6. \A j \in Jobs : JobSound(j)' /\ Written(j)' = Written(j)
  BY <1>1, <1>2, <1>3, <1>4, JobWaits
<1>7. \A i, j \in Jobs : i # j => JobsApart(i, j)'
  BY <1>3, <1>6 DEF Books, JobsApart
<1>8. QED  BY <1>5, <1>6, <1>7 DEF Books

LEMMA NextBooks == Rows /\ Rows' /\ Books /\ [Next]_vars => Books'
<1> SUFFICES ASSUME Rows, Rows', Books, [Next]_vars PROVE Books'  OBVIOUS
<1>0. TypeOK'  BY DEF Rows
<1>1. ASSUME NEW j \in Jobs, JobStep(j) \/ Rollback(j) PROVE Books'
  BY <1>0, <1>1, ClaimWonBooks, AbortBooks, ExtendBooks, CommitBooks
  DEF JobStep, ClaimLost, RevokeNothing, Rollback
<1>2. ASSUME NEW j \in Jobs, NEW t \in Transfers, Deliver(j, t) PROVE Books'
  BY <1>2, OpenBooks
<1>3. ASSUME NEW j \in Jobs, NEW u \in Users, ActivityDay(j, u) \/ Dashboard(j, u) PROVE Books'
  BY <1>3, OpenBooks
<1>4. ASSUME NEW j \in Jobs, NEW kind \in {"grant", "revoke"}, NEW key \in PlanKeys,
             Admin(j, kind, key)
      PROVE  Books'
  BY <1>4, OpenBooks
<1>5. QED  BY <1>0, <1>1, <1>2, <1>3, <1>4, OthersBooks DEF Next

(* Every paid, earned or granted day is on the subscription once, however  *)
(* webhooks, rewards, grants, revokes, rollbacks and crashes interleave,   *)
(* and the payment it names is one that was made for it.                   *)
THEOREM EntitlementAlwaysAccounted == Spec => []EntitlementAccounted
<1>1. Init => Books  BY InitBooks
<1>2. Books => EntitlementAccounted  BY DEF Books, EntitlementAccounted
<1>3. Rows /\ OrdersInv => Rows  OBVIOUS
<1>4. QED  BY <1>1, <1>2, <1>3, RowsAlways, NextBooks, PTL DEF Spec
=============================================================================
