--------------------------- MODULE ListeningScores ---------------------------
(***************************************************************************)
(* How a sentence heard is marked: a dictation word by word in place       *)
(* (dictation-scoring.ts), a recording by the cheapest word alignment      *)
(* with its transcript (transcript-alignment.ts).  A sentence is a         *)
(* sequence of normalized words.                                           *)
(***************************************************************************)
EXTENDS Integers, Sequences, FiniteSets

Least(S)    == CHOOSE x \in S : \A y \in S : x <= y
Positive(x) == IF x < 0 THEN 0 ELSE x
Least2(x, y) == IF x <= y THEN x ELSE y

\* Math.round(100 * part / whole), never below 0
Percent(part, whole) == (200 * Positive(part) + whole) \div (2 * whole)

scoreDictationAttempt(reference, typed, revealedWordCount) ==
    LET n        == Len(reference)
        matched  == Cardinality({i \in 1 .. Least2(n, Len(typed)) : typed[i] = reference[i]})
        revealed == Positive(Least2(revealedWordCount, n))
    IN  IF n = 0
        THEN [accuracyPercent |-> 0, wordsCorrect |-> 0, wordsTotal |-> 0,
              solved |-> FALSE, assisted |-> revealedWordCount > 0]
        ELSE [accuracyPercent |-> Percent(matched, n),
              wordsCorrect |-> Positive(matched - revealed), wordsTotal |-> n,
              solved |-> matched = n, assisted |-> revealed > 0]

(* Mutant: the first row is left at the zeros the matrix is made with. *)
CostsUnfilled(reference, spoken) ==
    LET cost[p \in (0 .. Len(reference)) \X (0 .. Len(spoken))] ==
            LET i == p[1]
                j == p[2]
            IN  IF i = 0 THEN 0 ELSE IF j = 0 THEN i ELSE
                Least({cost[<<i - 1, j - 1>>] + (IF reference[i] = spoken[j] THEN 0 ELSE 1),
                       cost[<<i - 1, j>>] + 1, cost[<<i, j - 1>>] + 1})
    IN  cost

(* The cost of turning the first i words of the reference into the first j *)
(* words that were spoken.                                                 *)
Costs(reference, spoken) ==
    LET cost[p \in (0 .. Len(reference)) \X (0 .. Len(spoken))] ==
            LET i == p[1]
                j == p[2]
            IN  IF i = 0 THEN j ELSE IF j = 0 THEN i ELSE
                Least({cost[<<i - 1, j - 1>>] + (IF reference[i] = spoken[j] THEN 0 ELSE 1),
                       cost[<<i - 1, j>>] + 1, cost[<<i, j - 1>>] + 1})
    IN  cost

Tally == [match |-> 0, substitute |-> 0, insert |-> 0, delete |-> 0]

(* The backtrace: the diagonal first, then a missing word, then an extra   *)
(* one.                                                                    *)
Backtrace(reference, spoken) ==
    LET cost == Costs(reference, spoken)
        back[p \in (0 .. Len(reference)) \X (0 .. Len(spoken))] ==
            LET i    == p[1]
                j    == p[2]
                same == i > 0 /\ j > 0 /\ reference[i] = spoken[j]
            IN  IF p = <<0, 0>> THEN Tally
                ELSE IF i > 0 /\ j > 0
                        /\ cost[p] = cost[<<i - 1, j - 1>>] + (IF same THEN 0 ELSE 1)
                THEN IF same THEN [back[<<i - 1, j - 1>>] EXCEPT !.match = @ + 1]
                             ELSE [back[<<i - 1, j - 1>>] EXCEPT !.substitute = @ + 1]
                ELSE IF i > 0 /\ cost[p] = cost[<<i - 1, j>>] + 1
                THEN [back[<<i - 1, j>>] EXCEPT !.delete = @ + 1]
                ELSE [back[<<i, j - 1>>] EXCEPT !.insert = @ + 1]
    IN  back[<<Len(reference), Len(spoken)>>]

alignTranscript(reference, spoken) ==
    LET n == Len(reference)
        t == IF n = 0 THEN [Tally EXCEPT !.insert = Len(spoken)]
                      ELSE Backtrace(reference, spoken)
    IN  [wordsCorrect |-> t.match, wordsTotal |-> n, substitutions |-> t.substitute,
         insertions |-> t.insert, deletions |-> t.delete,
         accuracyPercent |-> IF n = 0 THEN 0
                             ELSE Percent(n - (t.substitute + t.insert + t.delete), n)]
-----------------------------------------------------------------------------
(* Every way to pair words of the two sentences without crossing, and what *)
(* it costs when paired words that differ, and unpaired ones, cost 1.      *)
Pairings(n, m) ==
    {P \in SUBSET ((1 .. n) \X (1 .. m)) : \A p, q \in P : p # q => (p[1] < q[1] /\ p[2] < q[2])
                                                                 \/ (q[1] < p[1] /\ q[2] < p[2])}

PairingCost(P, reference, spoken) ==
    Len(reference) + Len(spoken) - 2 * Cardinality(P)
        + Cardinality({p \in P : reference[p[1]] # spoken[p[2]]})

(* The mistakes a student is shown are the fewest that explain what was    *)
(* said, they account for every word of both sentences, and only the       *)
(* sentence itself is worth 100: the backtrace of alignTranscript walks    *)
(* the matrix it filled.                                                   *)
AlignmentOptimal(reference, spoken) ==
    LET n == Len(reference)
        m == Len(spoken)
        r == alignTranscript(reference, spoken)
    IN  /\ r.insertions + r.wordsCorrect + r.substitutions = m
        /\ n > 0 =>
              /\ r.deletions + r.wordsCorrect + r.substitutions = n
              /\ r.substitutions + r.insertions + r.deletions =
                    Least({PairingCost(P, reference, spoken) : P \in Pairings(n, m)})
              /\ (r.accuracyPercent = 100) <=> (spoken = reference)
              /\ scoreDictationAttempt(reference, spoken, 0).solved /\ m = n
                    => r.accuracyPercent = 100
=============================================================================
