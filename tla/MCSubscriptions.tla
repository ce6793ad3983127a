--------------------------- MODULE MCSubscriptions ---------------------------
(***************************************************************************)
(* Subscriptions for TLC, in scenes that each fix the rows that exist and  *)
(* the requests and jobs that race on them.                                *)
(***************************************************************************)
EXTENDS Subscriptions, TLC

CONSTANTS u1, u2, PREMIUM, c1, c2, t1, t2, t3, t4, j1, r3, Scenes

VARIABLE scene

MCCodeOf   == (t1 :> c1) @@ (t2 :> c2) @@ (t3 :> c2) @@ (t4 :> c1)
MCAmountOf == (t1 :> PRO) @@ (t2 :> PRO) @@ (t3 :> PRO) @@ (t4 :> PREMIUM)
MCDuration == (PRO :> 30) @@ (PREMIUM :> 365)

Mine   == <<u1, PRO>>
Theirs == <<u2, PRO>>

(* One lapsed and one live order of u1; one live order of u2; none. *)
TwoOrders == [c \in Codes |-> CASE c = c1 -> [NewOrder(Mine) EXCEPT !.lapsed = TRUE]
                                [] c = c2 -> NewOrder(Mine)
                                [] OTHER -> NoOrder]
OneOrder  == [c \in Codes |-> IF c = c1 THEN NewOrder(Theirs) ELSE NoOrder]
NoOrders  == [c \in Codes |-> NoOrder]
MCPast    == {TwoOrders, OneOrder, NoOrders}

(* checkout: two requests of one user race for an order that SePay then    *)
(* settles.  crowd: three requests race.  settling: two unsettled orders   *)
(* with duplicate deliveries and an administrator.  rewards: two users who *)
(* invite each other, a milestone and a payment.                           *)
SceneOf ==
    [checkout |-> [past |-> NoOrders, key |-> Mine, until |-> 0,
                   requests |-> Requests \ {r3}, jobs |-> {j1}, kinds |-> {"webhook"}],
     crowd    |-> [past |-> NoOrders, key |-> Mine, until |-> 0,
                   requests |-> Requests, jobs |-> {}, kinds |-> {}],
     settling |-> [past |-> TwoOrders, key |-> Mine, until |-> 31,
                   requests |-> {}, jobs |-> Jobs,
                   kinds |-> {"webhook", "grant", "revoke"}],
     rewards  |-> [past |-> OneOrder, key |-> Theirs, until |-> 0,
                   requests |-> {}, jobs |-> Jobs,
                   kinds |-> {"webhook", "referral", "milestone"}]]

MCInit == /\ Init
          /\ scene \in Scenes
          /\ orders = SceneOf[scene].past

MCNext ==
    LET s == SceneOf[scene]
    IN  /\ Next
        /\ today' <= s.until
        /\ \A r \in Requests :
              /\ request'[r].key \in {None, s.key}
              /\ r \notin s.requests => request'[r].pc = "new"
        /\ \A j \in Jobs : job'[j] # IdleJob =>
              /\ j \in s.jobs /\ job'[j].kind \in s.kinds
              /\ job'[j].kind \in {"grant", "revoke"} => job'[j].due \in {<<>>, <<s.key>>}
        /\ "referral" \notin s.kinds => referral' = referral /\ tenLessons' = tenLessons
        /\ tenLessons' \subseteq {u1}
        /\ \A k \in PlanKeys : granted'[k] <= GrantDays
        /\ UNCHANGED scene

MCSpec == MCInit /\ [][MCNext]_<<vars, scene>>
          /\ \A r \in Requests : WF_orderVars(RequestStep(r))
=============================================================================
