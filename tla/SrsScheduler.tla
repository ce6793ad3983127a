---------------------------- MODULE SrsScheduler ----------------------------
(***************************************************************************)
(* The spaced-repetition scheduler, src/src/learning/srs/scheduler.ts.     *)
(* Ease factors are counted in hundredths (clampEase keeps them there).    *)
(* Math.round of a product of floats: the exact half is the only value the *)
(* float error can tip over, so `tie` says which way a half goes.          *)
(***************************************************************************)
EXTENDS Integers

GRADUATING_INTERVAL_DAYS      == 1
SECOND_INTERVAL_DAYS          == 6
EASY_GRADUATING_INTERVAL_DAYS == 4
AGAIN_EASE_PENALTY            == 20
HARD_EASE_PENALTY             == 15
EASY_EASE_BONUS               == 15
MIN_EASE_FACTOR               == 130
MAX_EASE_FACTOR               == 300
DEFAULT_EASE_FACTOR           == 250
MASTERY_MIN_INTERVAL_DAYS     == 21
MASTERY_MIN_REPETITIONS       == 3

LearningStates == {"NEW", "LEARNING", "REVIEW", "RELEARNING", "MASTERED"}
Ratings        == {"AGAIN", "HARD", "GOOD", "EASY"}
Never          == -1        \* a null timestamp

DEFAULT_NEW_PROGRESS ==
    [state |-> "NEW", easeFactor |-> DEFAULT_EASE_FACTOR, intervalDays |-> 0,
     repetitions |-> 0, lapses |-> 0, masteredAt |-> Never,
     firstLearnedAt |-> Never]

(* n/d rounded to the nearest integer; tie \in {0, 1} is added to a half. *)
Rounded(n, d, tie) ==
    IF (2 * n) % (2 * d) = d THEN n \div d + tie
    ELSE (2 * n + d) \div (2 * d)

clampEase(ease) ==
    IF ease < MIN_EASE_FACTOR THEN MIN_EASE_FACTOR
    ELSE IF ease > MAX_EASE_FACTOR THEN MAX_EASE_FACTOR ELSE ease

preGraduation(p) == p.state \in {"NEW", "LEARNING"}
Stamp(at, now)   == IF at = Never THEN now ELSE at

(* AGAIN: only a word in REVIEW or MASTERED lapses. *)
again(p) ==
    CASE preGraduation(p) ->
           [p EXCEPT !.state = "LEARNING", !.intervalDays = GRADUATING_INTERVAL_DAYS]
      [] p.state \in {"REVIEW", "MASTERED"} ->
           [p EXCEPT !.state = "RELEARNING", !.lapses = @ + 1,
                     !.easeFactor = clampEase(@ - AGAIN_EASE_PENALTY),
                     !.intervalDays = GRADUATING_INTERVAL_DAYS,
                     !.masteredAt = Never]
      [] OTHER -> [p EXCEPT !.intervalDays = GRADUATING_INTERVAL_DAYS]

(* Mutant: a demoted word keeps the time it was mastered. *)
hardKeepsMasteredAt(p, tie) ==
    LET stretched == Rounded(p.intervalDays * 12, 10, tie)
    IN  CASE preGraduation(p) ->
               [p EXCEPT !.state = "LEARNING",
                         !.intervalDays = GRADUATING_INTERVAL_DAYS]
          [] p.state = "RELEARNING" -> [p EXCEPT !.intervalDays = stretched]
          [] OTHER ->
               [p EXCEPT !.state = "REVIEW", !.repetitions = @ + 1,
                         !.easeFactor = clampEase(@ - HARD_EASE_PENALTY),
                         !.intervalDays = stretched]

(* HARD: a mastered word is demoted, and no state is left upwards. *)
hard(p, tie) ==
    LET stretched == Rounded(p.intervalDays * 12, 10, tie)
    IN  CASE preGraduation(p) ->
               [p EXCEPT !.state = "LEARNING",
                         !.intervalDays = GRADUATING_INTERVAL_DAYS]
          [] p.state = "RELEARNING" -> [p EXCEPT !.intervalDays = stretched]
          [] OTHER ->
               [p EXCEPT !.state = "REVIEW", !.repetitions = @ + 1,
                         !.easeFactor = clampEase(@ - HARD_EASE_PENALTY),
                         !.intervalDays = stretched, !.masteredAt = Never]

(* GOOD and EASY graduate to REVIEW, and to MASTERED past both floors. *)
recalled(p, rating, now, tie) ==
    LET ease == IF rating = "EASY" THEN clampEase(p.easeFactor + EASY_EASE_BONUS)
                ELSE p.easeFactor
        days == CASE p.repetitions = 0 ->
                       IF rating = "EASY" THEN EASY_GRADUATING_INTERVAL_DAYS
                       ELSE GRADUATING_INTERVAL_DAYS
                  [] rating = "GOOD" /\ p.repetitions = 1 -> SECOND_INTERVAL_DAYS
                  [] rating = "EASY" /\ p.repetitions # 0 ->
                       Rounded(p.intervalDays * ease * 13, 1000, tie)
                  [] OTHER -> Rounded(p.intervalDays * ease, 100, tie)
        mastered == /\ days >= MASTERY_MIN_INTERVAL_DAYS
                    /\ p.repetitions + 1 >= MASTERY_MIN_REPETITIONS
    IN  [p EXCEPT !.state = IF mastered THEN "MASTERED" ELSE "REVIEW",
                  !.easeFactor = ease, !.intervalDays = days,
                  !.repetitions = @ + 1,
                  !.firstLearnedAt = Stamp(@, now),
                  !.masteredAt = IF mastered THEN Stamp(@, now) ELSE @]

next(p, rating, now, tie) ==
    CASE rating = "AGAIN" -> again(p)
      [] rating = "HARD"  -> hard(p, tie)
      [] OTHER            -> recalled(p, rating, now, tie)

justMastered(before, after) ==
    before.state # "MASTERED" /\ after.state = "MASTERED"
-----------------------------------------------------------------------------
(* Whatever the answers: a mastered word has its timestamp and no other    *)
(* word has one, GOOD or EASY never demotes it (the floors stay passed),   *)
(* only ungraduated words have no repetition, a word in relearning is due  *)
(* tomorrow, and the ease stays between its clamps.                        *)
Shaped(p) ==
    /\ p.state = "MASTERED" <=> p.masteredAt # Never
    /\ p.state = "MASTERED" => p.intervalDays >= MASTERY_MIN_INTERVAL_DAYS
    /\ p.intervalDays >= MASTERY_MIN_INTERVAL_DAYS => p.repetitions >= MASTERY_MIN_REPETITIONS
    /\ preGraduation(p) <=> p.repetitions = 0
    /\ p.repetitions > 0 <=> p.firstLearnedAt # Never
    /\ p.state = "RELEARNING" => p.intervalDays = 1
    /\ p.easeFactor \in MIN_EASE_FACTOR .. MAX_EASE_FACTOR

(* The four previewed intervals are ordered: a better answer never brings  *)
(* a word back sooner.  The one exception is the second recall, where GOOD *)
(* jumps to six days and EASY multiplies the first interval.               *)
AnswersOrdered(p) ==
    \A tie \in {0, 1} :
        LET days(rating) == next(p, rating, 0, tie).intervalDays
        IN  /\ days("AGAIN") <= days("HARD")
            /\ days("HARD") <= days("GOOD") /\ days("HARD") <= days("EASY")
            /\ p.repetitions # 1 => days("GOOD") <= days("EASY")
            /\ p.intervalDays <= days("GOOD")
=============================================================================
