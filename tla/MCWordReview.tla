---------------------------- MODULE MCWordReview ----------------------------
(***************************************************************************)
(* WordReview for TLC: two requests, two fresh clientReviewIds, a word not *)
(* started yet and a word one easy answer away from being mastered, for    *)
(* the first time or again after a lapse.                                  *)
(***************************************************************************)
EXTENDS WordReview

CONSTANTS fresh, old, r1, r2

(* The history a sequence of answers to one word leaves. *)
PastOf(w, answers) ==
    LET card[i \in 0 .. Len(answers)] ==
            IF i = 0 THEN DEFAULT_NEW_PROGRESS
            ELSE next(card[i - 1], answers[i], 0, 0)
    IN  [i \in 1 .. Len(answers) |->
            Log(<<w, i>>, w, answers[i], i, card[i])]

NearlyMastered == <<"EASY", "EASY">>
Lapsed         == <<"EASY", "EASY", "EASY", "AGAIN", "EASY", "EASY">>

MCWords     == {fresh, old}
MCHistories == {[w \in MCWords |-> IF w = old THEN PastOf(old, past) ELSE <<>>] :
                    past \in {NearlyMastered, Lapsed}}
MCReviews   == {r1, r2} \cup {<<old, i>> : i \in 1 .. 6}

(* Old reviews are not submitted again. *)
MCNext ==
    \/ \E q \in Requests, r \in {r1, r2}, w \in Words, g \in Answers :
         Submit(q, r, w, g)
    \/ \E q \in Requests : Run(q) \/ Crash(q)
    \/ SetVisible(old)
MCSpec == Init /\ [][MCNext]_vars
=============================================================================
