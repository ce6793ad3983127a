---------------------------- MODULE ReviewHistory ----------------------------
(***************************************************************************)
(* What the learning engine promises of a student's words: every accepted  *)
(* review is one entry of its word's history, scheduled from the entry     *)
(* before it, and a clientReviewId is accepted once.                       *)
(***************************************************************************)
EXTENDS SrsScheduler, Sequences

CONSTANTS Words, Reviews, Answers, Histories

VARIABLE history    \* the accepted reviews of each word, in order

(* The card a word is scheduled from when its history is h. *)
Card(h) == IF h = <<>> THEN DEFAULT_NEW_PROGRESS ELSE h[Len(h)].card

Accepted(r) == \E w \in Words : \E i \in DOMAIN history[w] : history[w][i].review = r

Init == history \in Histories

Accept(r, w, g, tie) ==
    /\ ~Accepted(r)
    /\ history' = [history EXCEPT ![w] =
         Append(@, [review |-> r, word |-> w, rating |-> g,
                    resultVersion |-> Len(@) + 1,
                    card |-> next(Card(@), g, 0, tie)])]

Next == \E r \in Reviews, w \in Words, g \in Answers, tie \in {0, 1} :
            Accept(r, w, g, tie)

Spec == Init /\ [][Next]_history
=============================================================================
