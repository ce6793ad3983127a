----------------------------- MODULE MCChatSend -----------------------------
(***************************************************************************)
(* ChatSend for TLC, in scenes that each fix the requests that are made    *)
(* and what moves around them.                                             *)
(***************************************************************************)
EXTENDS ChatSend, TLC

CONSTANTS s1, s2, s3, s4, m1, m2, m3, Scenes

VARIABLE scene

(* retry: one message sent three times, by a PRO student.  session: two    *)
(* messages, one of them sent twice at most, and the session is cleared.   *)
(* full: three messages, each answered without a hitch, which is one more  *)
(* than the session keeps.                                                 *)
(* quota: four requests around the last unit while the subscription lapses *)
(* and the month turns (none gets past prepareSend).                       *)
SceneOf ==
    [retry   |-> [sends |-> {s1, s2, s3}, ids |-> {m1}, pro |-> {TRUE},
                  months |-> {0}, cleared |-> FALSE, answered |-> TRUE],
     session |-> [sends |-> {s1, s2}, ids |-> {m1, m2}, pro |-> {TRUE},
                  months |-> {0}, cleared |-> TRUE, answered |-> TRUE],
     full    |-> [sends |-> {s1, s2, s3}, ids |-> {m1, m2, m3}, pro |-> {TRUE},
                  months |-> {0}, cleared |-> FALSE, answered |-> TRUE],
     quota   |-> [sends |-> Sends, ids |-> {m1}, pro |-> BOOLEAN,
                  months |-> Months, cleared |-> FALSE, answered |-> FALSE]]

OwnId == s1 :> m1 @@ s2 :> m2 @@ s3 :> m3

Smooth(r) ==
    /\ r.pc \notin {"failed", "release"}
    /\ ~r.aborted /\ r.model < 2

MCInit == /\ Init /\ scene \in Scenes
          /\ isPro

MCNext ==
    LET s == SceneOf[scene]
    IN  /\ Next
        /\ \A r \in Sends :
              /\ send'[r].pc # "new" => r \in s.sends
              /\ send'[r].id \in s.ids \cup {None}
        /\ scene = "full" =>
              \A r \in s.sends : /\ Smooth(send'[r])
                                 /\ send'[r].id \in {OwnId[r], None}
        /\ ~s.answered => claim' = claim
        /\ isPro' \in s.pro /\ month' \in s.months
        /\ isPro' => isPro
        /\ ~s.cleared => session' # <<>> \/ session = <<>>
        /\ UNCHANGED scene

MCSpec == MCInit /\ [][MCNext]_<<vars, scene>>
          /\ \A s \in Sends : WF_vars(SendStep(s))
=============================================================================
