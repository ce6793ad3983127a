-------------------------- MODULE GamificationProofs --------------------------
(***************************************************************************)
(* Gamification's invariants for every number of users, transactions and   *)
(* calls.  Two facts carry the argument: a row that a transaction has in   *)
(* hand is neither in the ledger nor in a rival's hand, and what a         *)
(* transaction pays is the sum of the rows it has in hand.                 *)
(***************************************************************************)
EXTENDS Gamification, FiniteSetTheorems, WellFoundedInduction, TLAPS

(* The ledger's keys, the sums of their amounts and the level curve, for   *)
(* every set of lessons, tasks, questions, words and reviews.              *)

(* The image of a finite set under a function is finite. *)
LEMMA FiniteImage ==
    ASSUME NEW S, NEW T, IsFiniteSet(S), NEW f \in [S -> T],
           \A y \in T : \E x \in S : f[x] = y
    PROVE  IsFiniteSet(T)
<1>1. f \in Surjection(S, T)
  BY DEF Surjection
<1>2. QED  BY <1>1, FS_Surjection

(* Two-element sets of strings are finite. *)
LEMMA FinitePair == ASSUME NEW a, NEW b PROVE IsFiniteSet({a, b})
<1>1. {a, b} = {a} \cup {b}  OBVIOUS
<1>2. IsFiniteSet({a}) /\ IsFiniteSet({b})  BY FS_Singleton
<1>3. IsFiniteSet({a} \cup {b})  BY <1>2, FS_Union
<1>4. QED  BY <1>1, <1>3

(* There are finitely many ledger keys. *)
LEMMA KeysFinite == IsFiniteSet(Keys)
<1> DEFINE Stages  == {stageAward(l, s) : l \in Lessons, s \in {"VIDEO", "THEORY"}}
           Passes  == {taskPassedAward(t, ty) : t \in Tasks, ty \in {"QUIZ", "PRACTICE"}}
           Traps   == {trapClearedAward(t, q) : t \in Tasks, q \in Questions}
           Reviewed == {wordReviewedAward(r) : r \in Reviews}
           Mastered == {wordMasteredAward(w) : w \in Words}
<1>1. IsFiniteSet(Stages)
  <2> DEFINE S == Lessons \X {"VIDEO", "THEORY"}
             f == [p \in S |-> stageAward(p[1], p[2])]
  <2>1. IsFiniteSet(S)  BY XpIdsFinite, FinitePair, FS_Product
  <2>2. f \in [S -> Stages]  OBVIOUS
  <2>3. ASSUME NEW y \in Stages PROVE \E x \in S : f[x] = y
    <3>1. PICK l \in Lessons, s \in {"VIDEO", "THEORY"} : y = stageAward(l, s)  OBVIOUS
    <3>2. <<l, s>> \in S /\ f[<<l, s>>] = y  BY <3>1
    <3>3. QED  BY <3>2
  <2> HIDE DEF S, f
  <2>4. QED  BY <2>1, <2>2, <2>3, FiniteImage
<1>2. IsFiniteSet(Passes)
  <2> DEFINE S == Tasks \X {"QUIZ", "PRACTICE"}
             f == [p \in S |-> taskPassedAward(p[1], p[2])]
  <2>1. IsFiniteSet(S)  BY XpIdsFinite, FinitePair, FS_Product
  <2>2. f \in [S -> Passes]  OBVIOUS
  <2>3. ASSUME NEW y \in Passes PROVE \E x \in S : f[x] = y
    <3>1. PICK t \in Tasks, ty \in {"QUIZ", "PRACTICE"} : y = taskPassedAward(t, ty)  OBVIOUS
    <3>2. <<t, ty>> \in S /\ f[<<t, ty>>] = y  BY <3>1
    <3>3. QED  BY <3>2
  <2> HIDE DEF S, f
  <2>4. QED  BY <2>1, <2>2, <2>3, FiniteImage
<1>3. IsFiniteSet(Traps)
  <2> DEFINE S == Tasks \X Questions
             f == [p \in S |-> trapClearedAward(p[1], p[2])]
  <2>1. IsFiniteSet(S)  BY XpIdsFinite, FS_Product
  <2>2. f \in [S -> Traps]  OBVIOUS
  <2>3. ASSUME NEW y \in Traps PROVE \E x \in S : f[x] = y
    <3>1. PICK t \in Tasks, q \in Questions : y = trapClearedAward(t, q)  OBVIOUS
    <3>2. <<t, q>> \in S /\ f[<<t, q>>] = y  BY <3>1
    <3>3. QED  BY <3>2
  <2> HIDE DEF S, f
  <2>4. QED  BY <2>1, <2>2, <2>3, FiniteImage
<1>4. IsFiniteSet(Reviewed)
  <2> DEFINE f == [r \in Reviews |-> wordReviewedAward(r)]
  <2>1. f \in [Reviews -> Reviewed] /\ \A y \in Reviewed : \E x \in Reviews : f[x] = y
    OBVIOUS
  <2> HIDE DEF f
  <2>2. QED  BY <2>1, XpIdsFinite, FiniteImage
<1>5. IsFiniteSet(Mastered)
  <2> DEFINE f == [w \in Words |-> wordMasteredAward(w)]
  <2>1. f \in [Words -> Mastered] /\ \A y \in Mastered : \E x \in Words : f[x] = y
    OBVIOUS
  <2> HIDE DEF f
  <2>2. QED  BY <2>1, XpIdsFinite, FiniteImage
<1>6. IsFiniteSet(BadgeKeys)
  <2> DEFINE f == [b \in Badges |-> achievementAward(b)]
  <2>1. f \in [Badges -> BadgeKeys] /\ \A y \in BadgeKeys : \E x \in Badges : f[x] = y
    BY DEF BadgeKeys
  <2>2. IsFiniteSet(Badges)
    <3>1. Badges = ({"FIRST_STAGE", "FIRST_QUIZ_PASS"} \cup {"FIRST_MASTERED_WORD", "STREAK_3"})
                    \cup {"STREAK_7", "XP_500"}
      BY DEF Badges
    <3>2. QED  BY <3>1, FinitePair, FS_Union
  <2> HIDE DEF f
  <2>3. QED  BY <2>1, <2>2, FiniteImage
<1>7. Keys = ((((Stages \cup Passes) \cup Traps) \cup Reviewed) \cup Mastered) \cup BadgeKeys
  BY DEF Keys, ActionKeys
<1> HIDE DEF Stages, Passes, Traps, Reviewed, Mastered
<1>8. QED  BY <1>1, <1>2, <1>3, <1>4, <1>5, <1>6, <1>7, FS_Union

(* No award is worth nothing, and none more than the XP_500 badge. *)
LEMMA AmountRange == ASSUME NEW k \in Keys PROVE Amount(k) \in 1 .. 100
<1>1. CASE k \in BadgeKeys
  <2>1. PICK b \in Badges : k = achievementAward(b)  BY <1>1 DEF BadgeKeys
  <2>2. k.source = "ACHIEVEMENT" /\ k.id = b  BY <2>1 DEF achievementAward, Key
  <2>3. Amount(k) = AchievementXp[b]  BY <2>2 DEF Amount
  <2>4. QED  BY <2>3 DEF AchievementXp, Badges
<1>2. CASE k \in ActionKeys
  <2> DEFINE Sources == {"STAGE_COMPLETED", "TASK_PASSED", "TRAP_CLEARED",
                         "WORD_REVIEWED", "WORD_MASTERED"}
  <2>1. ASSUME NEW l, NEW s PROVE stageAward(l, s).source \in Sources
    BY DEF stageAward, Key
  <2>2. ASSUME NEW t, NEW ty PROVE taskPassedAward(t, ty).source \in Sources
    BY DEF taskPassedAward, Key
  <2>3. ASSUME NEW t, NEW q PROVE trapClearedAward(t, q).source \in Sources
    BY DEF trapClearedAward, Key
  <2>4. ASSUME NEW r PROVE wordReviewedAward(r).source \in Sources
    BY DEF wordReviewedAward, Key
  <2>5. ASSUME NEW w PROVE wordMasteredAward(w).source \in Sources
    BY DEF wordMasteredAward, Key
  <2>6. k.source \in Sources
    <3> HIDE DEF Sources
    <3>1. \/ \E l \in Lessons, s \in {"VIDEO", "THEORY"} : k = stageAward(l, s)
          \/ \E t \in Tasks, ty \in {"QUIZ", "PRACTICE"} : k = taskPassedAward(t, ty)
          \/ \E t \in Tasks, q \in Questions : k = trapClearedAward(t, q)
          \/ \E r \in Reviews : k = wordReviewedAward(r)
          \/ \E w \in Words : k = wordMasteredAward(w)
      BY <1>2 DEF ActionKeys
    <3>2. QED  BY <3>1, <2>1, <2>2, <2>3, <2>4, <2>5
  <2>7. QED  BY <2>6 DEF Amount
<1>3. QED  BY <1>1, <1>2 DEF Keys

(* The points of any set of ledger rows can be counted. *)
LEMMA PointsFinite == ASSUME NEW rows \in SUBSET Keys PROVE IsFiniteSet(XpPoints(rows))
<1>1. PICK most \in Nat : most = 100  OBVIOUS
<1>2. XpPoints(rows) \subseteq Keys \X (1 .. most)
  <2>1. SUFFICES ASSUME NEW k \in rows PROVE {k} \X (1 .. Amount(k)) \subseteq Keys \X (1 .. most)
    BY DEF XpPoints
  <2>2. QED  BY AmountRange, <1>1
<1>3. IsFiniteSet(1 .. most)  BY FS_Interval
<1>4. IsFiniteSet(Keys \X (1 .. most))  BY <1>3, KeysFinite, FS_Product
<1>5. QED  BY <1>2, <1>4, FS_Subset

LEMMA SumType == ASSUME NEW rows \in SUBSET Keys PROVE sumAmounts(rows) \in Nat
BY PointsFinite, FS_CardinalityType DEF sumAmounts

(* The sum over disjoint sets of rows is the sum of the sums. *)
LEMMA SumOfUnion ==
    ASSUME NEW A \in SUBSET Keys, NEW B \in SUBSET Keys, A \cap B = {}
    PROVE  sumAmounts(A \cup B) = sumAmounts(A) + sumAmounts(B)
<1>1. XpPoints(A \cup B) = XpPoints(A) \cup XpPoints(B)
  BY DEF XpPoints
<1>2. XpPoints(A) \cap XpPoints(B) = {}
  <2>1. SUFFICES ASSUME NEW p \in XpPoints(A), p \in XpPoints(B) PROVE FALSE
    OBVIOUS
  <2>2. p[1] \in A /\ p[1] \in B
    BY <2>1 DEF XpPoints
  <2>3. QED  BY <2>2
<1>3. IsFiniteSet(XpPoints(A)) /\ IsFiniteSet(XpPoints(B))
  BY PointsFinite
<1>4. Cardinality(XpPoints(A)) \in Nat /\ Cardinality(XpPoints(B)) \in Nat
  BY <1>3, FS_CardinalityType
<1>5. Cardinality(XpPoints(A) \cap XpPoints(B)) = 0
  BY <1>2, FS_EmptySet
<1>6. Cardinality(XpPoints(A) \cup XpPoints(B))
         = Cardinality(XpPoints(A)) + Cardinality(XpPoints(B))
             - Cardinality(XpPoints(A) \cap XpPoints(B))
  BY <1>3, FS_Union
<1>7. Cardinality(XpPoints(A \cup B)) = Cardinality(XpPoints(A) \cup XpPoints(B))
  BY <1>1
<1>8. Cardinality(XpPoints(A \cup B)) = Cardinality(XpPoints(A)) + Cardinality(XpPoints(B))
  BY <1>4, <1>5, <1>6, <1>7
<1>9. QED  BY <1>8 DEF sumAmounts

LEMMA SumOfNothing == sumAmounts({}) = 0
<1>1. XpPoints({}) = {}  BY DEF XpPoints
<1>2. QED  BY <1>1, FS_EmptySet DEF sumAmounts

(* More rows are worth at least as much. *)
LEMMA SumMonotone ==
    ASSUME NEW B \in SUBSET Keys, NEW A \in SUBSET B
    PROVE  sumAmounts(A) <= sumAmounts(B)
<1>1. XpPoints(A) \subseteq XpPoints(B)  BY DEF XpPoints
<1>2. QED  BY <1>1, PointsFinite, FS_Subset DEF sumAmounts

LEMMA LevelType == ASSUME NEW x \in Nat PROVE levelForXp(x) \in Nat
<1> DEFINE L == {l \in 2 .. (x \div 100 + 1) : xpThresholdForLevel(l) <= x}
<1>1. IsFiniteSet(2 .. (x \div 100 + 1)) /\ L \subseteq 2 .. (x \div 100 + 1)
  BY FS_Interval
<1>2. Cardinality(L) \in Nat
  BY <1>1, FS_Subset, FS_CardinalityType
<1> HIDE DEF L
<1>3. levelForXp(x) = IF x <= 0 THEN 1 ELSE 1 + Cardinality(L)
  BY DEF levelForXp, L
<1>4. QED  BY <1>2, <1>3

(* A larger total is never a lower level. *)
LEMMA LevelMonotone ==
    ASSUME NEW x \in Nat, NEW y \in Nat, x <= y
    PROVE  levelForXp(x) <= levelForXp(y)
<1> DEFINE Reached(n) == {l \in 2 .. (n \div 100 + 1) : xpThresholdForLevel(l) <= n}
<1>1. ASSUME NEW l \in Nat PROVE xpThresholdForLevel(l) \in Int
  <2>1. (50 * (l - 2) * (l - 1)) \in Int  OBVIOUS
  <2>2. QED  BY <2>1 DEF xpThresholdForLevel
<1>2. Reached(x) \subseteq Reached(y)
  <2>1. x \div 100 <= y \div 100  OBVIOUS
  <2>2. SUFFICES ASSUME NEW l \in Reached(x) PROVE l \in Reached(y)
    OBVIOUS
  <2>3. l \in Nat /\ l \in 2 .. (y \div 100 + 1)  BY <2>1
  <2>4. xpThresholdForLevel(l) <= y  BY <1>1, <2>3
  <2>5. QED  BY <2>3, <2>4
<1>3. IsFiniteSet(Reached(y))
  <2>1. IsFiniteSet(2 .. (y \div 100 + 1)) /\ Reached(y) \subseteq 2 .. (y \div 100 + 1)
    BY FS_Interval
  <2>2. QED  BY <2>1, FS_Subset
<1>4. /\ Cardinality(Reached(x)) <= Cardinality(Reached(y))
      /\ Cardinality(Reached(x)) \in Nat /\ Cardinality(Reached(y)) \in Nat
  BY <1>2, <1>3, FS_Subset, FS_CardinalityType
<1> HIDE DEF Reached
<1>5. /\ levelForXp(x) = IF x <= 0 THEN 1 ELSE 1 + Cardinality(Reached(x))
      /\ levelForXp(y) = IF y <= 0 THEN 1 ELSE 1 + Cardinality(Reached(y))
  BY DEF levelForXp, Reached
<1>6. QED  BY <1>4, <1>5

(* A set of naturals has a least element.                                  *)
LEMMA Smallest == ASSUME NEW S \in SUBSET Nat, S # {}
                  PROVE  \E m \in S : \A j \in S : m <= j
<1>1. PICK m \in S : \A j \in S : <<j, m>> \notin OpToRel(<, Nat)
  BY NatLessThanWellFounded, WFMin
<1>2. \A j \in S : ~(j < m)  BY <1>1 DEF OpToRel
<1>3. \A j \in S : j \in Nat /\ m \in Nat  OBVIOUS
<1>4. \A j \in S : m <= j  BY <1>2, <1>3
<1> QED  BY <1>4

(* The threshold in closed form; each level costs 50 more than the last.   *)
LEMMA Thresholds ==
    ASSUME NEW l \in Nat, l >= 1
    PROVE  /\ xpThresholdForLevel(l) = 25 * ((l - 1) * (l + 2))
           /\ xpThresholdForLevel(l) \in Nat
           /\ xpThresholdForLevel(l) >= 100 * (l - 1)
           /\ xpThresholdForLevel(l + 1) = xpThresholdForLevel(l) + 50 * (l + 1)
<1>1. ASSUME NEW k \in Nat, k >= 1 PROVE xpThresholdForLevel(k) = 25 * ((k - 1) * (k + 2))
  <2> DEFINE z == (k - 2) * (k - 1)
  <2>1. z \in Int /\ 50 * (k - 2) * (k - 1) = 50 * z  OBVIOUS
  <2>2. (k - 1) * (k + 2) = z + 4 * (k - 1)  OBVIOUS
  <2> HIDE DEF z
  <2>3. (50 * z) \div 2 = 25 * z  BY <2>1
  <2>4. CASE k = 1  BY <2>4 DEF xpThresholdForLevel
  <2>5. CASE k # 1
    <3>1. xpThresholdForLevel(k) = (k - 1) * 100 + (50 * z) \div 2
      BY <1>1, <2>1, <2>5 DEF xpThresholdForLevel
    <3> QED  BY <2>1, <2>2, <2>3, <3>1
  <2> QED  BY <2>4, <2>5
<1>2. /\ xpThresholdForLevel(l) = 25 * ((l - 1) * (l + 2))
      /\ xpThresholdForLevel(l + 1) = 25 * (l * (l + 3))
  <2>1. l + 1 \in Nat /\ l + 1 >= 1  OBVIOUS
  <2> HIDE DEF xpThresholdForLevel
  <2>2. xpThresholdForLevel(l + 1) = 25 * (((l + 1) - 1) * ((l + 1) + 2))  BY <1>1, <2>1
  <2>3. (l + 1) - 1 = l /\ (l + 1) + 2 = l + 3  OBVIOUS
  <2> QED  BY <1>1, <2>2, <2>3
<1> DEFINE y == (l - 1) * (l + 2)
<1>3. y \in Int /\ l * (l + 3) = y + 2 * (l + 1)  OBVIOUS
<1>4. y = (l - 1) * (l - 2) + 4 * (l - 1) /\ (l - 1) * (l - 2) >= 0
  <2>1. y = (l - 1) * (l - 2) + 4 * (l - 1)  OBVIOUS
  <2>2. CASE l = 1  BY <2>2, <2>1
  <2>3. CASE l # 1
    <3>1. l - 1 \in Nat /\ l - 2 \in Nat  BY <2>3
    <3> QED  BY <2>1, <3>1
  <2> QED  BY <2>2, <2>3
<1>5. y >= 4 * (l - 1)
  <2> DEFINE e == (l - 1) * (l - 2)
  <2>1. e \in Int /\ e >= 0 /\ y = e + 4 * (l - 1)  BY <1>4
  <2> HIDE DEF e, y
  <2> QED  BY <2>1
<1> HIDE DEF y
<1> QED  BY <1>2, <1>3, <1>5 DEF y

(* The level is the last one that the total affords.                       *)
LEMMA LevelIsLast ==
    ASSUME NEW x \in Nat
    PROVE  /\ levelForXp(x) \in Nat /\ levelForXp(x) >= 1
           /\ xpThresholdForLevel(levelForXp(x)) <= x
           /\ x < xpThresholdForLevel(levelForXp(x) + 1)
<1> DEFINE T(l) == xpThresholdForLevel(l)
           top  == x \div 100 + 1
           R    == {l \in 2 .. top : T(l) <= x}
           Dear == {l \in Nat : l >= 2 /\ x < T(l)}
<1>1. top \in Nat /\ x < 100 * top /\ top >= 1  OBVIOUS
<1>2. ASSUME NEW l \in Nat, l >= 1
      PROVE  T(l) \in Nat /\ T(l) >= 100 * (l - 1) /\ T(l + 1) = T(l) + 50 * (l + 1)
  <2>1. xpThresholdForLevel(l) \in Nat /\ xpThresholdForLevel(l) >= 100 * (l - 1)
    BY <1>2, Thresholds
  <2>2. xpThresholdForLevel(l + 1) = xpThresholdForLevel(l) + 50 * (l + 1)
    BY <1>2, Thresholds
  <2> QED  BY <2>1, <2>2
<1> HIDE DEF T, top
<1>3. PICK k \in Dear : \A j \in Dear : k <= j
  <2>1. T(top + 1) \in Nat /\ T(top + 1) >= 100 * top  BY <1>1, <1>2
  <2>2. top + 1 \in Dear  BY <1>1, <2>1
  <2>3. Dear \in SUBSET Nat /\ Dear # {}  BY <2>2
  <2> HIDE DEF Dear
  <2> QED  BY <2>3, Smallest
<1>4. k \in Nat /\ k >= 2 /\ x < T(k)  BY <1>3
<1>5. \A l \in 2 .. (k - 1) : T(l) <= x
  <2> SUFFICES ASSUME NEW l \in 2 .. (k - 1) PROVE T(l) <= x  OBVIOUS
  <2>1. l \in Nat /\ l >= 2 /\ l >= 1 /\ l < k  BY <1>4
  <2>2. l \notin Dear  BY <1>3, <1>4, <2>1
  <2>3. T(l) \in Nat  BY <1>2, <2>1
  <2> QED  BY <2>1, <2>2, <2>3
<1>6. \A l \in Nat : l >= k => x < T(l)
  <2>1. k - 1 \in Nat /\ k - 1 >= 1  BY <1>4
  <2> SUFFICES ASSUME NEW l \in Nat, l >= k PROVE x < T(l)  OBVIOUS
  <2>2. T(k) = 25 * ((k - 1) * (k + 2)) /\ T(l) = 25 * ((l - 1) * (l + 2))
    BY <1>4, Thresholds DEF T
  <2>3. (k - 1) * (k + 2) <= (l - 1) * (l + 2)
    <3>1. (l - 1) * (l + 2) = (k - 1) * (k + 2) + (l - k) * (l + k + 1)
      BY <1>4
    <3>2. (l - k) \in Nat /\ (l + k + 1) \in Nat  BY <1>4
    <3>3. (l - k) * (l + k + 1) \in Nat  BY <3>2
    <3>4. (k - 1) * (k + 2) \in Int /\ (l - 1) * (l + 2) \in Int  BY <1>4
    <3> QED  BY <3>1, <3>3, <3>4
  <2>4. (k - 1) * (k + 2) \in Int /\ (l - 1) * (l + 2) \in Int  BY <1>4
  <2> QED  BY <1>4, <2>2, <2>3, <2>4
<1>7. R = 2 .. (k - 1)
  <2>1. \A l \in R : l \in Nat /\ T(l) <= x  BY <1>1
  <2>2. \A l \in R : l \in 2 .. (k - 1)
    <3> SUFFICES ASSUME NEW l \in R PROVE l < k  BY <1>4, <1>1
    <3>1. l \in Nat /\ T(l) <= x /\ l >= 1  BY <2>1, <1>1
    <3>2. T(l) \in Nat  BY <1>2, <3>1
    <3>3. ~(l >= k)  BY <1>6, <3>1, <3>2
    <3> QED  BY <1>4, <3>1, <3>3
  <2>3. \A l \in 2 .. (k - 1) : l \in R
    <3> SUFFICES ASSUME NEW l \in 2 .. (k - 1) PROVE l <= top  BY <1>5, <1>1
    <3>1. l \in Nat /\ T(l) <= x /\ l >= 1  BY <1>4, <1>5
    <3>2. T(l) \in Nat /\ T(l) >= 100 * (l - 1)  BY <1>2, <3>1
    <3> QED  BY <1>1, <3>1, <3>2
  <2> QED  BY <2>2, <2>3
<1>8. Cardinality(2 .. (k - 1)) = k - 2
  <2>1. 2 \in Int /\ k - 1 \in Int  BY <1>4
  <2>2. Cardinality(2 .. (k - 1)) = IF 2 > k - 1 THEN 0 ELSE (k - 1) - 2 + 1  BY <2>1, FS_Interval
  <2> QED  BY <2>2, <1>4
<1>9. levelForXp(x) = IF x <= 0 THEN 1 ELSE 1 + Cardinality(R)
  BY DEF levelForXp, R, T, top
<1>10. T(1) = 0  BY DEF T, xpThresholdForLevel
<1>11. T(2) = T(1) + 100  BY <1>2, <1>10
<1>12. x <= 0 => k = 2
  <2> SUFFICES ASSUME x <= 0 PROVE k = 2  OBVIOUS
  <2>1. 2 \in Dear  BY <1>10, <1>11
  <2> QED  BY <1>3, <1>4, <2>1
<1> HIDE DEF R
<1>13. levelForXp(x) = k - 1  BY <1>4, <1>7, <1>8, <1>9, <1>12
<1>14. T(k - 1) <= x
  <2>1. CASE k = 2  BY <1>10, <2>1
  <2>2. CASE k # 2  BY <1>4, <1>5, <2>2
  <2> QED  BY <2>1, <2>2
<1>15. k - 1 \in Nat /\ k - 1 >= 1 /\ (k - 1) + 1 = k  BY <1>4
<1> QED  BY <1>4, <1>13, <1>14, <1>15 DEF T

LEMMA TableOfThresholds == \A l \in 1 .. 10 : xpThresholdForLevel(l) = LevelTable[l]
<1> SUFFICES ASSUME NEW l \in 1 .. 10 PROVE xpThresholdForLevel(l) = LevelTable[l]  OBVIOUS
<1> DEFINE Told(k, t) == xpThresholdForLevel(k) = t /\ LevelTable[k] = t
<1>1. Told(1, 0) /\ Told(2, 100) /\ Told(3, 250)  BY DEF xpThresholdForLevel, LevelTable
<1>2. Told(4, 450) /\ Told(5, 700) /\ Told(6, 1000)  BY DEF xpThresholdForLevel, LevelTable
<1>3. Told(7, 1350) /\ Told(8, 1750) /\ Told(9, 2200)  BY DEF xpThresholdForLevel, LevelTable
<1>4. Told(10, 2700)  BY DEF xpThresholdForLevel, LevelTable
<1>5. l \in {1, 2, 3, 4, 5, 6, 7, 8, 9, 10}  OBVIOUS
<1> QED  BY <1>1, <1>2, <1>3, <1>4, <1>5

(* At every total the level is the last one of the table, or of the curve  *)
(* beyond it, that the total affords, and the bar shows what is left of it *)
(* (levelForXp, levelProgress): a total below 0 is level 1 with an empty   *)
(* bar.                                                                    *)
THEOREM LevelAlwaysTabled == \A x \in Int : LevelMatchesTable(x)
<1> SUFFICES ASSUME NEW x \in Int PROVE LevelMatchesTable(x)  OBVIOUS
<1> DEFINE safe    == IF x > 0 THEN x ELSE 0
           reached == levelForXp(safe)
           floor   == xpThresholdForLevel(reached)
           ceil    == xpThresholdForLevel(reached + 1)
           n       == (safe - floor) * 100
           d       == ceil - floor
           p       == levelProgress(x)
<1>1. safe \in Nat /\ (safe = x \/ (safe = 0 /\ x <= 0))  OBVIOUS
<1>2. /\ p.level = reached /\ p.intoLevel = safe - floor /\ p.toNextLevel = ceil - safe
      /\ p.percent = n \div d
  BY DEF levelProgress
<1> HIDE DEF safe
<1>3. reached \in Nat /\ reached >= 1 /\ floor <= safe /\ safe < ceil  BY <1>1, LevelIsLast
<1> HIDE DEF reached, p
<1>4. floor \in Nat /\ ceil = floor + 50 * (reached + 1)  BY <1>3, Thresholds
<1>5. reached \in 1 .. 10 => floor = LevelTable[reached]  BY TableOfThresholds
<1>6. reached + 1 \in 1 .. 10 => ceil = LevelTable[reached + 1]  BY TableOfThresholds
<1>7. DOMAIN LevelTable = 1 .. 10  BY DEF LevelTable
<1>8. reached = 1 => floor = 0  BY DEF xpThresholdForLevel
<1> HIDE DEF floor, ceil
<1>9. n \in Nat /\ d \in Nat /\ d > 0 /\ n < 100 * d  BY <1>1, <1>3, <1>4
<1> HIDE DEF n, d
<1>10. n \div d \in 0 .. 99
  <2>1. n \div d \in Int /\ n \div d >= 0 /\ d * (n \div d) <= n  BY <1>9, SMTT(30)
  <2> DEFINE q == n \div d
  <2> HIDE DEF q
  <2>2. q \in Int /\ q >= 0 /\ d * q <= n  BY <2>1 DEF q
  <2>3. ASSUME q >= 100 PROVE FALSE
    <3>1. q - 100 \in Nat  BY <2>2, <2>3
    <3>2. d * (q - 100) \in Nat /\ d * q = 100 * d + d * (q - 100)  BY <1>9, <2>2, <3>1
    <3>3. d * q \in Int  BY <1>9, <2>2
    <3> QED  BY <1>9, <2>2, <3>2, <3>3
  <2>4. q \in 0 .. 99  BY <2>2, <2>3
  <2> QED  BY <2>4 DEF q
<1>11. safe - floor >= 0 /\ ceil - safe > 0  BY <1>1, <1>3, <1>4
<1>12. reached = 1 \/ floor <= x
  <2>1. CASE safe = x  BY <1>3, <2>1
  <2>2. CASE safe = 0 /\ x <= 0
    <3>1. reached = 1
      <4>1. safe <= 0  BY <2>2
      <4> QED  BY <4>1 DEF reached, levelForXp
    <3> QED  BY <3>1
  <2> QED  BY <1>1, <2>1, <2>2
<1>13. x < ceil  BY <1>1, <1>3, <1>4
<1>14. (safe - floor) + (ceil - safe) = ceil - floor  BY <1>1, <1>4, <1>3
<1>15. reached + 1 \in 1 .. 10 => reached \in 1 .. 10  BY <1>3
<1>16. /\ reached \in 1 .. 10 => reached = 1 \/ LevelTable[reached] <= x
       /\ reached + 1 \in 1 .. 10 =>
             /\ x < LevelTable[reached + 1]
             /\ (safe - floor) + (ceil - safe) = LevelTable[reached + 1] - LevelTable[reached]
  BY <1>5, <1>6, <1>12, <1>13, <1>14, <1>15
<1> QED  BY <1>2, <1>7, <1>10, <1>11, <1>16 DEF LevelMatchesTable, p
-----------------------------------------------------------------------------
(* What the statements of a call use.                                      *)

USE DEF None, NoStep

(* What a calendar helper returns. *)
LEMMA DayType ==
    ASSUME NEW i \in Int, NEW zone PROVE formatDayInTimeZone(i, zone) \in Int
BY DayWindowAssumption DEF formatDayInTimeZone

LEMMA StreakType ==
    ASSUME NEW today \in Int, NEW n \in Nat, NEW days
    PROVE  countCurrentStreak(today, n, days) \in Int
<1> DEFINE end == IF today \in days THEN today ELSE today - 1
           S == {d \in enumerateDays(today, n) : d <= end /\ (d .. end) \subseteq days}
<1>1. IsFiniteSet((today - n + 1) .. today)  BY FS_Interval
<1>2. IsFiniteSet(S)  BY <1>1, FS_Subset DEF enumerateDays
<1>3. Cardinality(S) \in Nat  BY <1>2, FS_CardinalityType
<1> HIDE DEF S
<1>4. QED  BY <1>3 DEF countCurrentStreak, S

(* The rows a statement inserts are ledger rows. *)
LEMMA EarnedAreKeys == ASSUME NEW t \in Txs PROVE EarnedKeys(t) \subseteq BadgeKeys
BY DEF EarnedKeys, BadgeKeys, newlyEarnedAchievements

LEMMA CallAwards ==
    ASSUME NEW c \in Calls \cup {NoCall} PROVE c.awards \in SUBSET ActionKeys
<1>1. \A call \in Calls : call \in CallType  BY GamificationAssumption
<1>2. \A call \in CallType : call.awards \in SUBSET ActionKeys  BY DEF CallType
<1>3. NoCall.awards = {}  BY DEF NoCall
<1>4. QED  BY <1>1, <1>2, <1>3

LEMMA CallStep ==
    ASSUME NEW c \in Calls PROVE c.step \in Lessons \cup {NoStep}
<1>1. c \in CallType  BY GamificationAssumption
<1>2. QED  BY <1>1 DEF CallType

LEMMA TxTyped == ASSUME TypeOK, NEW t \in Txs PROVE tx[t] \in TxType
BY DEF TypeOK

LEMMA IdleTxType == IdleTx \in TxType
BY DEF IdleTx, TxType, NoCall, Zones, NoStreak

(* A step that rewrites one transaction and nothing else. *)
LEMMA OneTxTyped ==
    ASSUME TypeOK, NEW t \in Txs, NEW new \in TxType,
           tx' = [tx EXCEPT ![t] = new], UNCHANGED <<now, userVars>>
    PROVE  TypeOK'
BY DEF TypeOK, userVars

-----------------------------------------------------------------------------
(* A past of finitely many instants fills finitely many days. *)
LEMMA InitDays ==
    ASSUME Init, NEW u \in Users
    PROVE  dayRows[u] \in SUBSET Int /\ IsFiniteSet(dayRows[u])
<1>1. PICK past \in [Users -> Pasts] :
        dayRows = [v \in Users |->
                     {formatDayInTimeZone(i, past[v].zone) : i \in past[v].log}]
  BY DEF Init
<1> DEFINE L == past[u].log
           f == [i \in L |-> formatDayInTimeZone(i, past[u].zone)]
<1>2. L \in SUBSET Instants
  <2>1. past[u] \in [rows : SUBSET Keys, log : SUBSET Instants, zone : Zones]
    BY GamificationAssumption
  <2>2. QED  BY <2>1
<1>3. IsFiniteSet(L)
  <2>1. PICK zero \in Int : zero = 0  OBVIOUS
  <2>2. MaxInstant \in Int
    <3>1. MaxInstant \in Nat  BY ONLY GamificationAssumption, Zenon DEF GamificationAssumption
    <3>2. QED  BY <3>1
  <2>3. IsFiniteSet(zero .. MaxInstant)  BY <2>2, FS_Interval
  <2>4. IsFiniteSet(Instants)  BY <2>1, <2>3 DEF Instants
  <2>5. QED  BY <1>2, <2>4, FS_Subset
<1>4. dayRows[u] = {formatDayInTimeZone(i, past[u].zone) : i \in L}  BY <1>1
<1>5. dayRows[u] \subseteq Int
  <2>1. \A i \in L : i \in Int  BY <1>2 DEF Instants
  <2>2. \A i \in L : formatDayInTimeZone(i, past[u].zone) \in Int  BY <2>1, DayType
  <2> HIDE DEF L
  <2>3. QED  BY <1>4, <2>2
<1>6. f \in [L -> dayRows[u]] /\ \A d \in dayRows[u] : \E i \in L : f[i] = d  BY <1>4
<1> HIDE DEF L, f
<1>7. QED  BY <1>3, <1>5, <1>6, FiniteImage

LEMMA InitType == Init => TypeOK
<1> SUFFICES ASSUME Init PROVE TypeOK  OBVIOUS
<1>1. PICK past \in [Users -> Pasts] :
        /\ now = Start
        /\ timezone = [u \in Users |-> past[u].zone]
        /\ ledger = [u \in Users |-> past[u].rows]
        /\ total = [u \in Users |-> sumAmounts(past[u].rows)]
        /\ level = [u \in Users |-> levelForXp(sumAmounts(past[u].rows))]
        /\ dayRows = [u \in Users |->
                        {formatDayInTimeZone(i, past[u].zone) : i \in past[u].log}]
        /\ stepAt = [u \in Users |-> [l \in Lessons |-> None]]
        /\ logAt = [u \in Users |-> past[u].log]
        /\ activeAt = logAt
        /\ hookRuns = [u \in Users |-> Cardinality(dayRows[u])]
        /\ tx = [t \in Txs |-> IdleTx]
  BY DEF Init
<1>2. ASSUME NEW u \in Users
      PROVE  /\ past[u].rows \in SUBSET Keys /\ past[u].log \in SUBSET Instants
             /\ past[u].zone \in Zones
  <2>1. past[u] \in [rows : SUBSET Keys, log : SUBSET Instants, zone : Zones]
    BY GamificationAssumption
  <2>2. QED  BY <2>1
<1>3. now \in Nat  BY <1>1, GamificationAssumption
<1>4. timezone \in [Users -> Zones] /\ ledger \in [Users -> SUBSET Keys]
  BY <1>1, <1>2
<1>5. total \in [Users -> Nat] /\ level \in [Users -> Nat]
  <2>1. ASSUME NEW u \in Users PROVE sumAmounts(past[u].rows) \in Nat
    BY <1>2, SumType
  <2>2. ASSUME NEW u \in Users PROVE levelForXp(sumAmounts(past[u].rows)) \in Nat
    BY <2>1, LevelType
  <2>3. QED  BY <1>1, <2>1, <2>2
<1>6. ASSUME NEW u \in Users PROVE dayRows[u] \in SUBSET Int /\ IsFiniteSet(dayRows[u])
  BY InitDays
<1>7. dayRows \in [Users -> SUBSET Int]  BY <1>1, <1>6
<1>8. hookRuns \in [Users -> Nat]  BY <1>1, <1>6, FS_CardinalityType
<1>9. /\ stepAt \in [Users -> [Lessons -> Int]] /\ logAt \in [Users -> SUBSET Int]
      /\ activeAt \in [Users -> SUBSET Int]
  <2>1. None \in Int  OBVIOUS
  <2>2. stepAt \in [Users -> [Lessons -> Int]]  BY <1>1, <2>1
  <2>3. Instants \subseteq Int  BY DEF Instants
  <2>4. QED  BY <1>1, <1>2, <2>2, <2>3
<1>10. tx \in [Txs -> TxType]  BY <1>1, IdleTxType
<1>11. QED  BY <1>3, <1>4, <1>5, <1>7, <1>8, <1>9, <1>10 DEF TypeOK

LEMMA NextType == TypeOK /\ [Next]_vars => TypeOK'
<1> SUFFICES ASSUME TypeOK, [Next]_vars PROVE TypeOK'  OBVIOUS
<1>1. ASSUME NEW t \in Txs, NEW u \in Users, NEW c \in Calls, Begin(t, u, c)
      PROVE  TypeOK'
  <2> DEFINE new == [IdleTx EXCEPT !.pc = "read", !.user = u, !.call = c, !.at = now,
                       !.zone = timezone[u],
                       !.previousTotal = total[u], !.previousLevel = level[u],
                       !.known = IF c.step = NoStep THEN None ELSE stepAt[u][c.step]]
  <2>1. (IF c.step = NoStep THEN None ELSE stepAt[u][c.step]) \in Int
    <3>1. stepAt[u] \in [Lessons -> Int]  BY DEF TypeOK
    <3>2. c.step # NoStep => stepAt[u][c.step] \in Int  BY <3>1, CallStep
    <3>3. None \in Int  OBVIOUS
    <3>4. QED  BY <3>2, <3>3
  <2>2. now \in Int /\ timezone[u] \in Zones /\ total[u] \in Nat /\ level[u] \in Nat
    BY DEF TypeOK
  <2>3. new \in TxType  BY <2>1, <2>2, IdleTxType DEF TxType
  <2>4. tx' = [tx EXCEPT ![t] = new] /\ UNCHANGED <<now, userVars>>
    BY <1>1 DEF Begin
  <2> HIDE DEF new
  <2>5. QED  BY <2>3, <2>4, OneTxTyped
<1>2. ASSUME NEW t \in Txs, ReadUnlocked(t) PROVE TypeOK'
  <2> DEFINE held == IF tx[t].call.awards = {} THEN {} ELSE BadgesIn(ledger[tx[t].user])
             new == [tx[t] EXCEPT !.pc = "day", !.unlocked = held]
  <2>1. held \in SUBSET Badges  BY DEF BadgesIn
  <2>2. new \in TxType  BY TxTyped, <2>1, ZenonT(60) DEF TxType
  <2>3. tx' = [tx EXCEPT ![t] = new] /\ UNCHANGED <<now, userVars>>
    BY <1>2 DEF ReadUnlocked
  <2> HIDE DEF new
  <2>4. QED  BY <2>2, <2>3, OneTxTyped
<1>3. ASSUME NEW t \in Txs, SkipDay(t) PROVE TypeOK'
  <2> DEFINE new == [tx[t] EXCEPT !.pc = "awards"]
  <2>1. new \in TxType  BY TxTyped DEF TxType
  <2>2. tx' = [tx EXCEPT ![t] = new] /\ UNCHANGED <<now, userVars>>
    BY <1>3 DEF SkipDay
  <2> HIDE DEF new
  <2>3. QED  BY <2>1, <2>2, OneTxTyped
<1>4. ASSUME NEW t \in Txs, OpenDay(t) PROVE TypeOK'
  <2> DEFINE d == formatDayInTimeZone(tx[t].at, tx[t].zone)
             s == countCurrentStreak(d, STREAK_SCAN_DAYS,
                                     ActiveDays(t))
             new == [tx[t] EXCEPT !.pc = "awards", !.day = d, !.isNewDay = TRUE,
                                  !.streak = s]
  <2>1. d \in Int  BY DayType, TxTyped DEF TxType
  <2>2. s \in Int  BY <2>1, StreakType DEF STREAK_SCAN_DAYS
  <2>3. tx' = [tx EXCEPT ![t] = new] /\ UNCHANGED <<now, userVars>>
    BY <1>4 DEF OpenDay
  <2> HIDE DEF d, s
  <2>4. new \in TxType  BY TxTyped, <2>1, <2>2, ZenonT(60) DEF TxType
  <2> HIDE DEF new
  <2>5. QED  BY <2>3, <2>4, OneTxTyped
<1>5. ASSUME NEW t \in Txs, TouchDay(t) PROVE TypeOK'
  <2> DEFINE d == formatDayInTimeZone(tx[t].at, tx[t].zone)
             new == [tx[t] EXCEPT !.pc = "awards", !.day = d]
  <2>1. d \in Int  BY DayType, TxTyped DEF TxType
  <2>2. tx' = [tx EXCEPT ![t] = new] /\ UNCHANGED <<now, userVars>>
    BY <1>5 DEF TouchDay
  <2> HIDE DEF d
  <2>3. new \in TxType  BY TxTyped, <2>1, ZenonT(60) DEF TxType
  <2> HIDE DEF new
  <2>4. QED  BY <2>2, <2>3, OneTxTyped
<1>6. ASSUME NEW t \in Txs, InsertAwards(t) PROVE TypeOK'
  <2> DEFINE new == [tx[t] EXCEPT !.pc = "badges", !.rows = Landed(t, tx[t].call.awards)]
  <2>1. Landed(t, tx[t].call.awards) \in SUBSET Keys
    BY CallAwards, TxTyped DEF Landed, TxType, Keys
  <2>2. new \in TxType  BY TxTyped, <2>1, ZenonT(60) DEF TxType
  <2>3. tx' = [tx EXCEPT ![t] = new] /\ UNCHANGED <<now, userVars>>
    BY <1>6 DEF InsertAwards
  <2> HIDE DEF new
  <2>4. QED  BY <2>2, <2>3, OneTxTyped
<1>7. ASSUME NEW t \in Txs, InsertBadges(t) PROVE TypeOK'
  <2> DEFINE rows == tx[t].rows \cup Landed(t, EarnedKeys(t))
             new == [tx[t] EXCEPT !.pc = "update", !.rows = rows]
  <2>1. rows \in SUBSET Keys
    BY EarnedAreKeys, TxTyped DEF Landed, TxType, Keys
  <2>2. tx' = [tx EXCEPT ![t] = new] /\ UNCHANGED <<now, userVars>>
    BY <1>7 DEF InsertBadges
  <2> HIDE DEF rows
  <2>3. new \in TxType  BY TxTyped, <2>1, ZenonT(60) DEF TxType
  <2> HIDE DEF new
  <2>4. QED  BY <2>2, <2>3, OneTxTyped
<1>8. ASSUME NEW t \in Txs, NoAward(t) PROVE TypeOK'
  <2> DEFINE new == [tx[t] EXCEPT !.pc = "commit"]
  <2>1. new \in TxType  BY TxTyped DEF TxType
  <2>2. tx' = [tx EXCEPT ![t] = new] /\ UNCHANGED <<now, userVars>>
    BY <1>8 DEF NoAward
  <2> HIDE DEF new
  <2>3. QED  BY <2>1, <2>2, OneTxTyped
<1>9. ASSUME NEW t \in Txs, UpdateUser(t) PROVE TypeOK'
  <2> DEFINE xp == sumAmounts(tx[t].rows)
             lvl == levelForXp(tx[t].previousTotal + xp)
             new == [tx[t] EXCEPT !.pc = "commit", !.pay = xp, !.newLevel = lvl]
  <2>1. xp \in Nat  BY SumType, TxTyped DEF TxType
  <2>2. tx[t].previousTotal + xp \in Nat  BY <2>1, TxTyped DEF TxType
  <2>3. lvl \in Nat  BY <2>2, LevelType
  <2>4. tx' = [tx EXCEPT ![t] = new] /\ UNCHANGED <<now, userVars>>
    BY <1>9 DEF UpdateUser
  <2> HIDE DEF xp, lvl
  <2>5. new \in TxType  BY TxTyped, <2>1, <2>3, ZenonT(60) DEF TxType
  <2> HIDE DEF new
  <2>6. QED  BY <2>4, <2>5, OneTxTyped
<1>10. ASSUME NEW t \in Txs, Commit(t) PROVE TypeOK'
  <2>1. /\ tx[t].rows \in SUBSET Keys /\ tx[t].pay \in Nat /\ tx[t].newLevel \in Nat
        /\ tx[t].day \in Int /\ tx[t].at \in Int
    BY TxTyped DEF TxType
  <2>2. ledger' \in [Users -> SUBSET Keys] /\ total' \in [Users -> Nat]
    <3>1. /\ ledger' = [ledger EXCEPT ![tx[t].user] = @ \cup tx[t].rows]
          /\ total' = [total EXCEPT ![tx[t].user] = @ + tx[t].pay]
      BY <1>10 DEF Commit
    <3>2. ledger \in [Users -> SUBSET Keys] /\ total \in [Users -> Nat]  BY DEF TypeOK
    <3>3. ledger' \in [Users -> SUBSET Keys]  BY <2>1, <3>1, <3>2
    <3>4. total' \in [Users -> Nat]
      <4>1. \A u \in Users : total[u] + tx[t].pay \in Nat  BY <2>1, <3>2
      <4>2. ASSUME NEW u \in Users PROVE total'[u] \in {total[u], total[u] + tx[t].pay}
        BY <3>1, <3>2
      <4>3. QED  BY <3>1, <3>2, <4>1, <4>2
    <3>5. QED  BY <3>3, <3>4
  <2>3. level' \in [Users -> Nat]
    BY <1>10, <2>1 DEF Commit, TypeOK
  <2>4. dayRows' \in [Users -> SUBSET Int] /\ hookRuns' \in [Users -> Nat]
    <3>1. /\ dayRows' = [dayRows EXCEPT ![tx[t].user] =
                            IF tx[t].isNewDay THEN @ \cup {tx[t].day} ELSE @]
          /\ hookRuns' = [hookRuns EXCEPT ![tx[t].user] =
                            IF tx[t].isNewDay THEN @ + 1 ELSE @]
      BY <1>10 DEF Commit
    <3>2. dayRows \in [Users -> SUBSET Int] /\ hookRuns \in [Users -> Nat]  BY DEF TypeOK
    <3>3. dayRows' \in [Users -> SUBSET Int]  BY <2>1, <3>1, <3>2
    <3>4. hookRuns' \in [Users -> Nat]
      <4>1. \A u \in Users : hookRuns[u] + 1 \in Nat  BY <3>2
      <4>2. ASSUME NEW u \in Users PROVE hookRuns'[u] \in {hookRuns[u], hookRuns[u] + 1}
        BY <3>1, <3>2
      <4>3. QED  BY <3>1, <3>2, <4>1, <4>2
    <3>5. QED  BY <3>3, <3>4
  <2>5. stepAt' \in [Users -> [Lessons -> Int]]
    BY <1>10, <2>1 DEF Commit, TypeOK
  <2>6. logAt' \in [Users -> SUBSET Int] /\ activeAt' \in [Users -> SUBSET Int]
    BY <1>10, <2>1, ZenonT(60) DEF Commit, TypeOK
  <2>7. tx' \in [Txs -> TxType]
    BY <1>10, IdleTxType DEF Commit, TypeOK
  <2>8. now' \in Nat /\ timezone' \in [Users -> Zones]
    BY <1>10 DEF Commit, TypeOK
  <2>9. QED  BY <2>2, <2>3, <2>4, <2>5, <2>6, <2>7, <2>8 DEF TypeOK
<1>11. ASSUME NEW t \in Txs, Rollback(t) PROVE TypeOK'
  BY <1>11, IdleTxType, OneTxTyped DEF Rollback
<1>12. CASE Tick
  BY <1>12 DEF Tick, TypeOK, userVars
<1>13. ASSUME NEW u \in Users, LearnTimezone(u) PROVE TypeOK'
  BY <1>13 DEF LearnTimezone, TypeOK, Zones
<1>14. CASE UNCHANGED vars
  BY <1>14 DEF vars, userVars, TypeOK
<1>15. QED
  BY <1>1, <1>2, <1>3, <1>4, <1>5, <1>6, <1>7, <1>8, <1>9, <1>10, <1>11, <1>12,
     <1>13, <1>14 DEF Next, Run

(* Every variable keeps its type, in every run of the service. *)
THEOREM Typed == Spec => []TypeOK
BY InitType, NextType, PTL DEF Spec
-----------------------------------------------------------------------------
(* What a transaction has in hand at each point of its run. *)
Shape(r) ==
    /\ r.pc = "idle" \/ r.user \in Users
    /\ r.pc \notin {"badges", "update", "commit"} => r.rows = {}
    /\ r.pay = IF r.pc = "commit" THEN sumAmounts(r.rows) ELSE 0

RowsFresh == \A t \in Txs : tx[t].rows \cap ledger[tx[t].user] = {}

RowsApart ==
    \A t, r \in Txs : t # r /\ tx[t].user = tx[r].user => tx[t].rows \cap tx[r].rows = {}

(* The inductive invariant behind TotalIsLedgerSum. *)
LedgerInv ==
    /\ TypeOK
    /\ \A t \in Txs : Shape(tx[t])
    /\ RowsFresh
    /\ RowsApart
    /\ TotalIsLedgerSum

LEMMA IdleShape == Shape(IdleTx)
BY DEF Shape, IdleTx

(* A step that rewrites one transaction keeps the invariant when the rows  *)
(* it puts in hand are neither in the ledger nor in a rival's hand.        *)
LEMMA OneTxLedger ==
    ASSUME LedgerInv, TypeOK', NEW t \in Txs, NEW new,
           tx' = [tx EXCEPT ![t] = new], UNCHANGED userVars,
           Shape(new), new.rows \cap ledger[new.user] = {},
           \A r \in Txs \ {t} : tx[r].user = new.user => tx[r].rows \cap new.rows = {}
    PROVE  LedgerInv'
<1>1. tx \in [Txs -> TxType]  BY DEF LedgerInv, TypeOK
<1>2. tx'[t] = new /\ \A r \in Txs \ {t} : tx'[r] = tx[r]  BY <1>1
<1>3. ledger' = ledger /\ total' = total  BY DEF userVars
<1>4. \A r \in Txs : Shape(tx[r])'  BY <1>2 DEF LedgerInv, Shape
<1>5. RowsFresh'  BY <1>2, <1>3 DEF LedgerInv, RowsFresh
<1>6. RowsApart'
  <2>1. SUFFICES ASSUME NEW a \in Txs, NEW b \in Txs, a # b, tx'[a].user = tx'[b].user
                 PROVE  tx'[a].rows \cap tx'[b].rows = {}
    BY DEF RowsApart
  <2>2. CASE a = t  BY <1>2, <2>1, <2>2
  <2>3. CASE b = t  BY <1>2, <2>1, <2>3
  <2>4. CASE a # t /\ b # t  BY <1>2, <2>1, <2>4 DEF LedgerInv, RowsApart
  <2>5. QED  BY <2>2, <2>3, <2>4
<1>7. TotalIsLedgerSum'  BY <1>3 DEF LedgerInv, TotalIsLedgerSum
<1>8. QED  BY <1>4, <1>5, <1>6, <1>7 DEF LedgerInv

(* A transaction with no rows in hand disturbs no one. *)
LEMMA NoRowsLedger ==
    ASSUME LedgerInv, TypeOK', NEW t \in Txs, NEW new,
           tx' = [tx EXCEPT ![t] = new], UNCHANGED userVars,
           Shape(new), new.rows = {}
    PROVE  LedgerInv'
BY OneTxLedger

LEMMA CommitLedger ==
    ASSUME LedgerInv, TypeOK', NEW t \in Txs, Commit(t)
    PROVE  LedgerInv'
<1> DEFINE u == tx[t].user
           rows == tx[t].rows
<1>1. tx \in [Txs -> TxType] /\ tx[t] \in TxType  BY DEF LedgerInv, TypeOK
<1>2. rows \in SUBSET Keys  BY <1>1 DEF TxType
<1>3. tx[t].pc = "commit"  BY DEF Commit
<1>4. u \in Users /\ tx[t].pay = sumAmounts(rows)
  BY <1>3 DEF LedgerInv, Shape
<1>5. ledger \in [Users -> SUBSET Keys] /\ total \in [Users -> Nat]
  BY DEF LedgerInv, TypeOK
<1>6. /\ ledger' = [ledger EXCEPT ![u] = @ \cup rows]
      /\ total' = [total EXCEPT ![u] = @ + tx[t].pay]
      /\ tx' = [tx EXCEPT ![t] = IdleTx]
  BY DEF Commit
<1>7. ledger[u] \cap rows = {}  BY DEF LedgerInv, RowsFresh
<1>8. sumAmounts(ledger[u] \cup rows) = total[u] + tx[t].pay
  <2>1. sumAmounts(ledger[u] \cup rows) = sumAmounts(ledger[u]) + sumAmounts(rows)
    BY <1>2, <1>4, <1>5, <1>7, SumOfUnion
  <2>2. QED  BY <2>1, <1>4 DEF LedgerInv, TotalIsLedgerSum
<1>9. TotalIsLedgerSum'
  <2>1. SUFFICES ASSUME NEW v \in Users PROVE total'[v] = sumAmounts(ledger'[v])
    BY DEF TotalIsLedgerSum
  <2>2. CASE v = u  BY <1>5, <1>6, <1>8, <2>2
  <2>3. CASE v # u
    <3>1. total'[v] = total[v] /\ ledger'[v] = ledger[v]  BY <1>5, <1>6, <2>3
    <3>2. QED  BY <3>1 DEF LedgerInv, TotalIsLedgerSum
  <2>4. QED  BY <2>2, <2>3
<1>10. /\ tx'[t] = IdleTx
       /\ \A r \in Txs \ {t} : tx'[r] = tx[r]
  BY <1>1, <1>6
<1>11. \A r \in Txs : Shape(tx[r])'
  BY <1>10, IdleShape DEF LedgerInv, Shape
<1>12. tx'[t].rows = {}  BY <1>10 DEF IdleTx
<1>13. RowsFresh'
  <2>1. SUFFICES ASSUME NEW r \in Txs, r # t
                 PROVE  tx[r].rows \cap ledger'[tx[r].user] = {}
    BY <1>10, <1>12 DEF RowsFresh
  <2>2. tx[r].rows \cap ledger[tx[r].user] = {}  BY DEF LedgerInv, RowsFresh
  <2>3. CASE tx[r].user = u
    <3>1. tx[r].rows \cap rows = {}  BY <2>1, <2>3 DEF LedgerInv, RowsApart
    <3>2. ledger'[u] = ledger[u] \cup rows  BY <1>4, <1>5, <1>6
    <3>3. QED  BY <2>2, <2>3, <3>1, <3>2
  <2>4. CASE tx[r].user # u
    <3>1. tx[r].user \notin Users => tx[r].rows = {}
      BY DEF LedgerInv, Shape
    <3>2. tx[r].user \in Users => ledger'[tx[r].user] = ledger[tx[r].user]
      BY <1>5, <1>6, <2>4
    <3>3. QED  BY <2>2, <3>1, <3>2
  <2>5. QED  BY <2>3, <2>4
<1>14. RowsApart'
  <2>1. SUFFICES ASSUME NEW a \in Txs, NEW b \in Txs, a # b, tx'[a].user = tx'[b].user
                 PROVE  tx'[a].rows \cap tx'[b].rows = {}
    BY DEF RowsApart
  <2>2. CASE a = t \/ b = t  BY <1>12, <2>2
  <2>3. CASE a # t /\ b # t  BY <1>10, <2>1, <2>3 DEF LedgerInv, RowsApart
  <2>4. QED  BY <2>2, <2>3
<1>15. QED  BY <1>9, <1>11, <1>13, <1>14 DEF LedgerInv

(* Rows that land are in no rival's hand once the statement has waited.    *)
LEMMA LandedApart ==
    ASSUME LedgerInv, NEW t \in Txs, Open(t), NEW keys, NotInDoubt(t, keys)
    PROVE  /\ Landed(t, keys) \cap ledger[tx[t].user] = {}
           /\ \A r \in Txs \ {t} : tx[r].user = tx[t].user =>
                                      tx[r].rows \cap Landed(t, keys) = {}
<1>1. Landed(t, keys) \cap ledger[tx[t].user] = {}  BY DEF Landed
<1>2. SUFFICES ASSUME NEW r \in Txs \ {t}, tx[r].user = tx[t].user
               PROVE  tx[r].rows \cap Landed(t, keys) = {}
  BY <1>1
<1>3. CASE Open(r)
  <2>1. r \in Rivals(t, tx[t].user)  BY <1>2, <1>3 DEF Rivals
  <2>2. tx[r].rows \cap keys = {}  BY <2>1 DEF NotInDoubt
  <2>3. QED  BY <2>2 DEF Landed
<1>4. CASE ~Open(r)
  BY <1>4 DEF Open, LedgerInv, Shape
<1>5. QED  BY <1>3, <1>4

LEMMA NextLedger == LedgerInv /\ [Next]_vars => LedgerInv'
<1> SUFFICES ASSUME LedgerInv, [Next]_vars PROVE LedgerInv'  OBVIOUS
<1> TypeOK  BY DEF LedgerInv
<1> TypeOK'  BY NextType
<1>1. ASSUME NEW t \in Txs, NEW u \in Users, NEW c \in Calls, Begin(t, u, c)
      PROVE  LedgerInv'
  <2> DEFINE new == [IdleTx EXCEPT !.pc = "read", !.user = u, !.call = c, !.at = now,
                       !.zone = timezone[u],
                       !.previousTotal = total[u], !.previousLevel = level[u],
                       !.known = IF c.step = NoStep THEN None ELSE stepAt[u][c.step]]
  <2>1. tx' = [tx EXCEPT ![t] = new] /\ UNCHANGED userVars  BY <1>1 DEF Begin
  <2>2. new.pc = "read" /\ new.user = u /\ new.rows = {} /\ new.pay = 0  BY DEF IdleTx
  <2> HIDE DEF new
  <2>3. Shape(new)  BY <2>2 DEF Shape
  <2>4. QED  BY <2>1, <2>2, <2>3, NoRowsLedger
<1>2. ASSUME NEW t \in Txs, ReadUnlocked(t) \/ SkipDay(t) \/ OpenDay(t) \/ TouchDay(t)
      PROVE  LedgerInv'
  <2>1. PICK new :
          /\ tx' = [tx EXCEPT ![t] = new] /\ UNCHANGED userVars
          /\ new.pc \in {"day", "awards"} /\ new.user = tx[t].user
          /\ new.rows = tx[t].rows /\ new.pay = tx[t].pay
    <3>1. tx[t] \in TxType  BY TxTyped
    <3>2. CASE ReadUnlocked(t)
      <4>1. WITNESS [tx[t] EXCEPT !.pc = "day", !.unlocked =
                        IF tx[t].call.awards = {} THEN {}
                        ELSE BadgesIn(ledger[tx[t].user])]
      <4>2. QED  BY <3>1, <3>2 DEF ReadUnlocked, TxType
    <3>3. CASE SkipDay(t)
      <4>1. WITNESS [tx[t] EXCEPT !.pc = "awards"]
      <4>2. QED  BY <3>1, <3>3 DEF SkipDay, TxType
    <3>4. CASE OpenDay(t)
      <4> DEFINE d == formatDayInTimeZone(tx[t].at, tx[t].zone)
      <4>1. WITNESS [tx[t] EXCEPT !.pc = "awards", !.day = d, !.isNewDay = TRUE,
                        !.streak = countCurrentStreak(d, STREAK_SCAN_DAYS,
                             ActiveDays(t))]
      <4>2. QED  BY <3>1, <3>4 DEF OpenDay, TxType
    <3>5. CASE TouchDay(t)
      <4>1. WITNESS [tx[t] EXCEPT !.pc = "awards",
                        !.day = formatDayInTimeZone(tx[t].at, tx[t].zone)]
      <4>2. QED  BY <3>1, <3>5 DEF TouchDay, TxType
    <3>6. QED  BY <1>2, <3>2, <3>3, <3>4, <3>5
  <2>2. tx[t].pc \in {"read", "day"}
    BY <1>2 DEF ReadUnlocked, SkipDay, OpenDay, TouchDay, DayFree
  <2>3. tx[t].user \in Users /\ tx[t].rows = {} /\ tx[t].pay = 0
    BY <2>2 DEF LedgerInv, Shape
  <2>4. Shape(new)  BY <2>1, <2>3 DEF Shape
  <2>5. QED  BY <2>1, <2>3, <2>4, NoRowsLedger
<1>3. ASSUME NEW t \in Txs, InsertAwards(t) PROVE LedgerInv'
  <2> DEFINE keys == tx[t].call.awards
             new == [tx[t] EXCEPT !.pc = "badges", !.rows = Landed(t, keys)]
  <2>1. tx' = [tx EXCEPT ![t] = new] /\ UNCHANGED userVars  BY <1>3 DEF InsertAwards
  <2>2. tx[t].pc = "awards" /\ NotInDoubt(t, keys)  BY <1>3 DEF InsertAwards
  <2>3. new.pc = "badges" /\ new.user = tx[t].user /\ new.rows = Landed(t, keys)
        /\ new.pay = tx[t].pay
    BY TxTyped DEF TxType
  <2> HIDE DEF new, keys
  <2>4. tx[t].user \in Users /\ tx[t].pay = 0  BY <2>2 DEF LedgerInv, Shape
  <2>5. Open(t)  BY <2>2 DEF Open
  <2>6. Shape(new)  BY <2>3, <2>4 DEF Shape
  <2>7. QED  BY <2>1, <2>2, <2>3, <2>5, <2>6, LandedApart, OneTxLedger
<1>4. ASSUME NEW t \in Txs, InsertBadges(t) PROVE LedgerInv'
  <2> DEFINE keys == EarnedKeys(t)
             new == [tx[t] EXCEPT !.pc = "update", !.rows = @ \cup Landed(t, keys)]
  <2>1. tx' = [tx EXCEPT ![t] = new] /\ UNCHANGED userVars  BY <1>4 DEF InsertBadges
  <2>2. tx[t].pc = "badges" /\ NotInDoubt(t, keys)  BY <1>4 DEF InsertBadges
  <2>3. new.pc = "update" /\ new.user = tx[t].user /\ new.pay = tx[t].pay
        /\ new.rows = tx[t].rows \cup Landed(t, keys)
    BY TxTyped DEF TxType
  <2> HIDE DEF new, keys
  <2>4. tx[t].user \in Users /\ tx[t].pay = 0  BY <2>2 DEF LedgerInv, Shape
  <2>5. Open(t)  BY <2>2 DEF Open
  <2>6. Shape(new)  BY <2>3, <2>4 DEF Shape
  <2>7. new.rows \cap ledger[new.user] = {}
    BY <2>2, <2>3, <2>5, LandedApart DEF LedgerInv, RowsFresh
  <2>8. \A r \in Txs \ {t} : tx[r].user = new.user => tx[r].rows \cap new.rows = {}
    BY <2>2, <2>3, <2>5, LandedApart DEF LedgerInv, RowsApart
  <2>9. QED  BY <2>1, <2>6, <2>7, <2>8, OneTxLedger
<1>5. ASSUME NEW t \in Txs, NoAward(t) \/ UpdateUser(t) PROVE LedgerInv'
  <2>1. tx[t].pc = "update"  BY <1>5 DEF NoAward, UpdateUser
  <2>2. PICK new :
          /\ tx' = [tx EXCEPT ![t] = new] /\ UNCHANGED userVars
          /\ new.pc = "commit" /\ new.user = tx[t].user /\ new.rows = tx[t].rows
          /\ new.pay = sumAmounts(tx[t].rows)
    <3>1. tx[t] \in TxType  BY TxTyped
    <3>2. CASE NoAward(t)
      <4>1. tx[t].pay = 0  BY <2>1 DEF LedgerInv, Shape
      <4>2. WITNESS [tx[t] EXCEPT !.pc = "commit"]
      <4>3. QED  BY <3>1, <3>2, <4>1 DEF NoAward, TxType
    <3>3. CASE UpdateUser(t)
      <4>1. WITNESS [tx[t] EXCEPT !.pc = "commit", !.pay = sumAmounts(tx[t].rows),
                       !.newLevel = levelForXp(tx[t].previousTotal + sumAmounts(tx[t].rows))]
      <4>2. QED  BY <3>1, <3>3 DEF UpdateUser, TxType
    <3>4. QED  BY <1>5, <3>2, <3>3
  <2>3. tx[t].user \in Users  BY <2>1 DEF LedgerInv, Shape
  <2>4. Shape(new)  BY <2>2, <2>3 DEF Shape
  <2>5. new.rows \cap ledger[new.user] = {}  BY <2>2 DEF LedgerInv, RowsFresh
  <2>6. \A r \in Txs \ {t} : tx[r].user = new.user => tx[r].rows \cap new.rows = {}
    BY <2>2 DEF LedgerInv, RowsApart
  <2>7. QED  BY <2>2, <2>4, <2>5, <2>6, OneTxLedger
<1>6. ASSUME NEW t \in Txs, Commit(t) PROVE LedgerInv'
  BY <1>6, CommitLedger
<1>7. ASSUME NEW t \in Txs, Rollback(t) PROVE LedgerInv'
  <2>1. tx' = [tx EXCEPT ![t] = IdleTx] /\ UNCHANGED userVars  BY <1>7 DEF Rollback
  <2>2. IdleTx.rows = {}  BY DEF IdleTx
  <2>3. QED  BY <2>1, <2>2, IdleShape, NoRowsLedger
<1>8. ASSUME UNCHANGED <<ledger, total, tx>> PROVE LedgerInv'
  BY <1>8 DEF LedgerInv, Shape, RowsFresh, RowsApart, TotalIsLedgerSum
<1>9. CASE Tick \/ UNCHANGED vars
  BY <1>8, <1>9 DEF Tick, vars, userVars
<1>10. ASSUME NEW u \in Users, LearnTimezone(u) PROVE LedgerInv'
  BY <1>8, <1>10 DEF LearnTimezone
<1>11. QED
  BY <1>1, <1>2, <1>3, <1>4, <1>5, <1>6, <1>7, <1>9, <1>10 DEF Next, Run

LEMMA InitLedger == Init => LedgerInv
<1> SUFFICES ASSUME Init PROVE LedgerInv  OBVIOUS
<1>1. TypeOK  BY InitType
<1>2. \A t \in Txs : tx[t] = IdleTx  BY DEF Init
<1>3. IdleTx.rows = {}  BY DEF IdleTx
<1>4. TotalIsLedgerSum  BY DEF Init, TotalIsLedgerSum
<1>5. QED  BY <1>1, <1>2, <1>3, <1>4, IdleShape DEF LedgerInv, RowsFresh, RowsApart

LEMMA LedgerAlways == Spec => []LedgerInv
BY InitLedger, NextLedger, PTL DEF Spec

(* The cached total never drifts from the ledger, however many students,   *)
(* transactions and calls there are and however they interleave or fail.   *)
THEOREM TotalAlwaysLedgerSum == Spec => []TotalIsLedgerSum
<1>1. LedgerInv => TotalIsLedgerSum  BY DEF LedgerInv
<1>2. QED  BY <1>1, LedgerAlways, PTL
-----------------------------------------------------------------------------
(* The hooks of the new day.                                               *)
DayShape(r) == r.pc \in {"idle", "read", "day"} => ~r.isNewDay

(* The day a transaction opened has no committed row yet ...               *)
DaysFresh == \A t \in Txs : tx[t].isNewDay => tx[t].day \notin dayRows[tx[t].user]

(* ... and no rival opened the same one.                                   *)
DaysApart ==
    \A t, r \in Txs : t # r /\ tx[t].user = tx[r].user
                      /\ tx[t].isNewDay /\ tx[r].isNewDay => tx[t].day # tx[r].day

(* The inductive invariant behind HooksOncePerDay. *)
HooksInv ==
    /\ LedgerInv
    /\ \A u \in Users : IsFiniteSet(dayRows[u])
    /\ \A t \in Txs : DayShape(tx[t])
    /\ DaysFresh
    /\ DaysApart
    /\ HooksOncePerDay

LEMMA OneTxHooks ==
    ASSUME HooksInv, LedgerInv', NEW t \in Txs, NEW new,
           tx' = [tx EXCEPT ![t] = new], UNCHANGED userVars,
           DayShape(new),
           new.isNewDay =>
              /\ new.day \notin dayRows[new.user]
              /\ \A r \in Txs \ {t} :
                    tx[r].user = new.user /\ tx[r].isNewDay => tx[r].day # new.day
    PROVE  HooksInv'
<1>1. tx \in [Txs -> TxType]  BY DEF HooksInv, LedgerInv, TypeOK
<1>2. tx'[t] = new /\ \A r \in Txs \ {t} : tx'[r] = tx[r]  BY <1>1
<1>3. dayRows' = dayRows /\ hookRuns' = hookRuns  BY DEF userVars
<1>4. \A r \in Txs : DayShape(tx[r])'  BY <1>2 DEF HooksInv, DayShape
<1>5. DaysFresh'  BY <1>2, <1>3 DEF HooksInv, DaysFresh
<1>6. DaysApart'
  <2>1. SUFFICES ASSUME NEW a \in Txs, NEW b \in Txs, a # b, tx'[a].user = tx'[b].user,
                        tx'[a].isNewDay, tx'[b].isNewDay
                 PROVE  tx'[a].day # tx'[b].day
    BY DEF DaysApart
  <2>2. CASE a = t  BY <1>2, <2>1, <2>2
  <2>3. CASE b = t  BY <1>2, <2>1, <2>3
  <2>4. CASE a # t /\ b # t  BY <1>2, <2>1, <2>4 DEF HooksInv, DaysApart
  <2>5. QED  BY <2>2, <2>3, <2>4
<1>7. /\ \A u \in Users : IsFiniteSet(dayRows'[u])
      /\ HooksOncePerDay'
  BY <1>3 DEF HooksInv, HooksOncePerDay
<1>8. QED  BY <1>4, <1>5, <1>6, <1>7 DEF HooksInv

LEMMA CommitHooks ==
    ASSUME HooksInv, LedgerInv', NEW t \in Txs, Commit(t)
    PROVE  HooksInv'
<1> DEFINE u == tx[t].user
           d == tx[t].day
           isNew == tx[t].isNewDay
<1>1. tx \in [Txs -> TxType] /\ dayRows \in [Users -> SUBSET Int]
      /\ hookRuns \in [Users -> Nat]
  BY DEF HooksInv, LedgerInv, TypeOK
<1>2. u \in Users  BY DEF Commit, HooksInv, LedgerInv, Shape
<1>3. /\ dayRows' = [dayRows EXCEPT ![u] = IF isNew THEN @ \cup {d} ELSE @]
      /\ hookRuns' = [hookRuns EXCEPT ![u] = IF isNew THEN @ + 1 ELSE @]
      /\ tx' = [tx EXCEPT ![t] = IdleTx]
  BY DEF Commit
<1>4. tx'[t] = IdleTx /\ \A r \in Txs \ {t} : tx'[r] = tx[r]  BY <1>1, <1>3
<1>5. ~IdleTx.isNewDay  BY DEF IdleTx
<1>6. isNew => d \notin dayRows[u]  BY DEF HooksInv, DaysFresh
<1>7. ASSUME NEW v \in Users
      PROVE  IsFiniteSet(dayRows'[v]) /\ hookRuns'[v] = Cardinality(dayRows'[v])
  <2>1. IsFiniteSet(dayRows[v]) /\ hookRuns[v] = Cardinality(dayRows[v])
    BY DEF HooksInv, HooksOncePerDay
  <2>2. CASE v = u /\ isNew
    <3>1. dayRows'[v] = dayRows[v] \cup {d} /\ hookRuns'[v] = hookRuns[v] + 1
      BY <1>1, <1>3, <2>2
    <3>2. IsFiniteSet(dayRows[v] \cup {d})
          /\ Cardinality(dayRows[v] \cup {d}) = Cardinality(dayRows[v]) + 1
      BY <1>6, <2>1, <2>2, FS_AddElement
    <3>3. QED  BY <2>1, <3>1, <3>2
  <2>3. CASE ~(v = u /\ isNew)
    <3>1. dayRows'[v] = dayRows[v] /\ hookRuns'[v] = hookRuns[v]
      BY <1>1, <1>3, <2>3
    <3>2. QED  BY <2>1, <3>1
  <2>4. QED  BY <2>2, <2>3
<1>8. \A r \in Txs : DayShape(tx[r])'
  BY <1>4, <1>5 DEF HooksInv, DayShape
<1>9. DaysFresh'
  <2>1. SUFFICES ASSUME NEW r \in Txs, r # t, tx[r].isNewDay
                 PROVE  tx[r].day \notin dayRows'[tx[r].user]
    BY <1>4, <1>5 DEF DaysFresh
  <2>2. tx[r].day \notin dayRows[tx[r].user]  BY <2>1 DEF HooksInv, DaysFresh
  <2>3. tx[r].user \in Users
    BY <2>1 DEF HooksInv, LedgerInv, Shape, DayShape
  <2>4. CASE tx[r].user = u /\ isNew
    <3>1. tx[r].day # d  BY <2>1, <2>4 DEF HooksInv, DaysApart
    <3>2. dayRows'[u] = dayRows[u] \cup {d}  BY <1>1, <1>2, <1>3, <2>4
    <3>3. QED  BY <2>2, <2>4, <3>1, <3>2
  <2>5. CASE ~(tx[r].user = u /\ isNew)
    <3>1. dayRows'[tx[r].user] = dayRows[tx[r].user]  BY <1>1, <1>3, <2>3, <2>5
    <3>2. QED  BY <2>2, <3>1
  <2>6. QED  BY <2>4, <2>5
<1>10. DaysApart'
  BY <1>4, <1>5 DEF HooksInv, DaysApart
<1>11. QED  BY <1>7, <1>8, <1>9, <1>10 DEF HooksInv, HooksOncePerDay

(* The steps that leave the day of their transaction alone. *)
LEMMA QuietStep ==
    ASSUME TypeOK, NEW t \in Txs,
           ReadUnlocked(t) \/ SkipDay(t) \/ InsertAwards(t) \/ InsertBadges(t)
           \/ NoAward(t) \/ UpdateUser(t)
    PROVE  \E new :
              /\ tx' = [tx EXCEPT ![t] = new] /\ UNCHANGED userVars
              /\ new.user = tx[t].user
              /\ new.day = tx[t].day /\ new.isNewDay = tx[t].isNewDay
              /\ \/ new.pc = "day" /\ tx[t].pc = "read"
                 \/ new.pc \in {"awards", "badges", "update", "commit"}
<1>1. tx[t] \in TxType  BY TxTyped
<1>2. CASE ReadUnlocked(t)
  <2>1. WITNESS [tx[t] EXCEPT !.pc = "day", !.unlocked =
                    IF tx[t].call.awards = {} THEN {} ELSE BadgesIn(ledger[tx[t].user])]
  <2>2. QED  BY <1>1, <1>2 DEF ReadUnlocked, TxType
<1>3. CASE SkipDay(t)
  <2>1. WITNESS [tx[t] EXCEPT !.pc = "awards"]
  <2>2. QED  BY <1>1, <1>3 DEF SkipDay, TxType
<1>4. CASE InsertAwards(t)
  <2>1. WITNESS [tx[t] EXCEPT !.pc = "badges", !.rows = Landed(t, tx[t].call.awards)]
  <2>2. QED  BY <1>1, <1>4 DEF InsertAwards, TxType
<1>5. CASE InsertBadges(t)
  <2>1. WITNESS [tx[t] EXCEPT !.pc = "update", !.rows = @ \cup Landed(t, EarnedKeys(t))]
  <2>2. QED  BY <1>1, <1>5 DEF InsertBadges, TxType
<1>6. CASE NoAward(t)
  <2>1. WITNESS [tx[t] EXCEPT !.pc = "commit"]
  <2>2. QED  BY <1>1, <1>6 DEF NoAward, TxType
<1>7. CASE UpdateUser(t)
  <2>1. WITNESS [tx[t] EXCEPT !.pc = "commit", !.pay = sumAmounts(tx[t].rows),
                   !.newLevel = levelForXp(tx[t].previousTotal + sumAmounts(tx[t].rows))]
  <2>2. QED  BY <1>1, <1>7, ZenonT(60) DEF UpdateUser, TxType
<1>8. QED  BY <1>2, <1>3, <1>4, <1>5, <1>6, <1>7

LEMMA NextHooks == HooksInv /\ [Next]_vars => HooksInv'
<1> SUFFICES ASSUME HooksInv, [Next]_vars PROVE HooksInv'  OBVIOUS
<1> TypeOK  BY DEF HooksInv, LedgerInv
<1> LedgerInv'  BY NextLedger DEF HooksInv
<1>1. ASSUME NEW t \in Txs, NEW u \in Users, NEW c \in Calls, Begin(t, u, c)
      PROVE  HooksInv'
  <2> DEFINE new == [IdleTx EXCEPT !.pc = "read", !.user = u, !.call = c, !.at = now,
                       !.zone = timezone[u],
                       !.previousTotal = total[u], !.previousLevel = level[u],
                       !.known = IF c.step = NoStep THEN None ELSE stepAt[u][c.step]]
  <2>1. /\ tx' = [tx EXCEPT ![t] = new] /\ UNCHANGED userVars
        /\ ~new.isNewDay
    BY <1>1 DEF Begin, IdleTx
  <2> HIDE DEF new
  <2>2. DayShape(new)  BY <2>1 DEF DayShape
  <2>3. QED  BY <2>1, <2>2, OneTxHooks
<1>2. ASSUME NEW t \in Txs,
             ReadUnlocked(t) \/ SkipDay(t) \/ InsertAwards(t) \/ InsertBadges(t)
             \/ NoAward(t) \/ UpdateUser(t)
      PROVE  HooksInv'
  <2>1. PICK new :
          /\ tx' = [tx EXCEPT ![t] = new] /\ UNCHANGED userVars
          /\ new.user = tx[t].user
          /\ new.day = tx[t].day /\ new.isNewDay = tx[t].isNewDay
          /\ \/ new.pc = "day" /\ tx[t].pc = "read"
             \/ new.pc \in {"awards", "badges", "update", "commit"}
    BY <1>2, QuietStep
  <2>2. DayShape(new)  BY <2>1 DEF HooksInv, DayShape
  <2>3. new.isNewDay => new.day \notin dayRows[new.user]
    BY <2>1 DEF HooksInv, DaysFresh
  <2>4. \A r \in Txs \ {t} :
           tx[r].user = new.user /\ tx[r].isNewDay /\ new.isNewDay => tx[r].day # new.day
    BY <2>1 DEF HooksInv, DaysApart
  <2>5. QED  BY <2>1, <2>2, <2>3, <2>4, OneTxHooks
<1>3. ASSUME NEW t \in Txs, OpenDay(t) PROVE HooksInv'
  <2> DEFINE d == formatDayInTimeZone(tx[t].at, tx[t].zone)
             s == countCurrentStreak(d, STREAK_SCAN_DAYS,
                                     ActiveDays(t))
             new == [tx[t] EXCEPT !.pc = "awards", !.day = d, !.isNewDay = TRUE,
                                  !.streak = s]
  <2>1. /\ tx' = [tx EXCEPT ![t] = new] /\ UNCHANGED userVars
        /\ DayFree(t, d) /\ d \notin dayRows[tx[t].user]
    BY <1>3 DEF OpenDay
  <2> HIDE DEF d, s
  <2>2. new.pc = "awards" /\ new.user = tx[t].user /\ new.day = d
    BY TxTyped DEF TxType
  <2> HIDE DEF new
  <2>3. DayShape(new)  BY <2>2 DEF DayShape
  <2>4. ASSUME NEW r \in Txs \ {t}, tx[r].user = new.user, tx[r].isNewDay
        PROVE  tx[r].day # new.day
    <3>1. Open(r)  BY <2>4 DEF HooksInv, DayShape, Open
    <3>2. r \in Rivals(t, tx[t].user)  BY <2>2, <2>4, <3>1 DEF Rivals
    <3>3. QED  BY <2>1, <2>2, <3>2 DEF DayFree
  <2>5. QED  BY <2>1, <2>2, <2>3, <2>4, OneTxHooks
<1>4. ASSUME NEW t \in Txs, TouchDay(t) PROVE HooksInv'
  <2> DEFINE new == [tx[t] EXCEPT !.pc = "awards",
                                  !.day = formatDayInTimeZone(tx[t].at, tx[t].zone)]
  <2>1. tx' = [tx EXCEPT ![t] = new] /\ UNCHANGED userVars /\ tx[t].pc = "day"
    BY <1>4 DEF TouchDay, DayFree
  <2>2. new.pc = "awards" /\ new.isNewDay = tx[t].isNewDay
    BY TxTyped DEF TxType
  <2> HIDE DEF new
  <2>3. DayShape(new) /\ ~new.isNewDay  BY <2>1, <2>2 DEF HooksInv, DayShape
  <2>4. QED  BY <2>1, <2>3, OneTxHooks
<1>5. ASSUME NEW t \in Txs, Commit(t) PROVE HooksInv'
  BY <1>5, CommitHooks
<1>6. ASSUME NEW t \in Txs, Rollback(t) PROVE HooksInv'
  <2>1. tx' = [tx EXCEPT ![t] = IdleTx] /\ UNCHANGED userVars  BY <1>6 DEF Rollback
  <2>2. ~IdleTx.isNewDay /\ DayShape(IdleTx)  BY DEF IdleTx, DayShape
  <2>3. QED  BY <2>1, <2>2, OneTxHooks
<1>7. ASSUME UNCHANGED <<dayRows, hookRuns, tx>> PROVE HooksInv'
  BY <1>7 DEF HooksInv, DayShape, DaysFresh, DaysApart, HooksOncePerDay
<1>8. CASE Tick \/ UNCHANGED vars
  BY <1>7, <1>8 DEF Tick, vars, userVars
<1>9. ASSUME NEW u \in Users, LearnTimezone(u) PROVE HooksInv'
  BY <1>7, <1>9 DEF LearnTimezone
<1>10. QED
  BY <1>1, <1>2, <1>3, <1>4, <1>5, <1>6, <1>8, <1>9 DEF Next, Run

LEMMA InitHooks == Init => HooksInv
<1> SUFFICES ASSUME Init PROVE HooksInv  OBVIOUS
<1>1. LedgerInv  BY InitLedger
<1>2. \A t \in Txs : tx[t] = IdleTx  BY DEF Init
<1>3. ~IdleTx.isNewDay  BY DEF IdleTx
<1>4. HooksOncePerDay  BY DEF Init, HooksOncePerDay
<1>5. \A u \in Users : IsFiniteSet(dayRows[u])  BY InitDays
<1>6. QED
  BY <1>1, <1>2, <1>3, <1>4, <1>5 DEF HooksInv, DayShape, DaysFresh, DaysApart

LEMMA HooksAlways == Spec => []HooksInv
BY InitHooks, NextHooks, PTL DEF Spec

(* The new-day hooks are committed exactly once per activity day, for any  *)
(* number of requests racing to open it.                                   *)
THEOREM HooksAlwaysOncePerDay == Spec => []HooksOncePerDay
<1>1. HooksInv => HooksOncePerDay  BY DEF HooksInv
<1>2. QED  BY <1>1, HooksAlways, PTL
-----------------------------------------------------------------------------
(* The level and the XP_500 badge are decided on a total read at Begin,    *)
(* which the committed total can only have passed since.                   *)
AwardShape(r) ==
    /\ r.pc # "idle" => r.previousTotal <= total[r.user]
    /\ r.pc = "commit" /\ r.pay > 0 => r.newLevel = levelForXp(r.previousTotal + r.pay)
    /\ r.pc = "badges" => r.rows \subseteq ActionKeys
    /\ Xp500 \in r.rows => r.previousTotal + sumAmounts(r.rows \ {Xp500}) >= 500

(* The inductive invariant behind LevelNeverAhead and Xp500Earned. *)
AwardInv ==
    /\ LedgerInv
    /\ \A t \in Txs : AwardShape(tx[t])
    /\ LevelNeverAhead
    /\ Xp500Earned

LEMMA ActionSources == \A k \in ActionKeys : k.source # "ACHIEVEMENT"
<1> SUFFICES ASSUME NEW k \in ActionKeys PROVE k.source # "ACHIEVEMENT"
  OBVIOUS
<1>1. \A l, s : stageAward(l, s).source # "ACHIEVEMENT"  BY DEF stageAward, Key
<1>2. \A x, ty : taskPassedAward(x, ty).source # "ACHIEVEMENT"  BY DEF taskPassedAward, Key
<1>3. \A x, q : trapClearedAward(x, q).source # "ACHIEVEMENT"  BY DEF trapClearedAward, Key
<1>4. \A r : wordReviewedAward(r).source # "ACHIEVEMENT"  BY DEF wordReviewedAward, Key
<1>5. \A w : wordMasteredAward(w).source # "ACHIEVEMENT"  BY DEF wordMasteredAward, Key
<1>6. \/ \E l \in Lessons, s \in {"VIDEO", "THEORY"} : k = stageAward(l, s)
      \/ \E x \in Tasks, ty \in {"QUIZ", "PRACTICE"} : k = taskPassedAward(x, ty)
      \/ \E x \in Tasks, q \in Questions : k = trapClearedAward(x, q)
      \/ \E r \in Reviews : k = wordReviewedAward(r)
      \/ \E w \in Words : k = wordMasteredAward(w)
  BY DEF ActionKeys
<1>7. QED  BY <1>1, <1>2, <1>3, <1>4, <1>5, <1>6

LEMMA Xp500IsBadge == Xp500 \in BadgeKeys /\ Xp500 \notin ActionKeys
<1>1. Xp500 \in BadgeKeys  BY DEF Xp500, BadgeKeys, Badges
<1>2. Xp500.source = "ACHIEVEMENT"  BY DEF Xp500, achievementAward, Key
<1>3. QED  BY <1>1, <1>2, ActionSources

LEMMA OneTxAward ==
    ASSUME AwardInv, LedgerInv', NEW t \in Txs, NEW new,
           tx' = [tx EXCEPT ![t] = new], UNCHANGED userVars, AwardShape(new)
    PROVE  AwardInv'
<1>1. tx \in [Txs -> TxType]  BY DEF AwardInv, LedgerInv, TypeOK
<1>2. tx'[t] = new /\ \A r \in Txs \ {t} : tx'[r] = tx[r]  BY <1>1
<1>3. ledger' = ledger /\ total' = total /\ level' = level  BY DEF userVars
<1>4. ASSUME NEW r \in Txs PROVE AwardShape(tx[r])'
  <2>1. AwardShape(tx'[r])  BY <1>2 DEF AwardInv
  <2>2. QED  BY <1>3, <2>1 DEF AwardShape
<1>5. LevelNeverAhead' /\ Xp500Earned'
  BY <1>3 DEF AwardInv, LevelNeverAhead, Xp500Earned
<1>6. QED  BY <1>4, <1>5 DEF AwardInv

LEMMA CommitAward ==
    ASSUME AwardInv, LedgerInv', NEW t \in Txs, Commit(t)
    PROVE  AwardInv'
<1> DEFINE u == tx[t].user
           rows == tx[t].rows
           prev == tx[t].previousTotal
           pay == tx[t].pay
<1>1. tx \in [Txs -> TxType] /\ tx[t] \in TxType
  BY DEF AwardInv, LedgerInv, TypeOK
<1>2. rows \in SUBSET Keys /\ prev \in Nat /\ pay \in Nat  BY <1>1 DEF TxType
<1>3. tx[t].pc = "commit"  BY DEF Commit
<1>4. u \in Users /\ pay = sumAmounts(rows)  BY <1>3 DEF AwardInv, LedgerInv, Shape
<1>5. /\ ledger \in [Users -> SUBSET Keys] /\ total \in [Users -> Nat]
      /\ level \in [Users -> Nat]
  BY DEF AwardInv, LedgerInv, TypeOK
<1>6. /\ ledger' = [ledger EXCEPT ![u] = @ \cup rows]
      /\ total' = [total EXCEPT ![u] = @ + pay]
      /\ level' = [level EXCEPT ![u] = IF pay = 0 THEN @ ELSE tx[t].newLevel]
      /\ tx' = [tx EXCEPT ![t] = IdleTx]
  BY DEF Commit
<1>7. /\ ledger'[u] = ledger[u] \cup rows
      /\ total'[u] = total[u] + pay
      /\ level'[u] = IF pay = 0 THEN level[u] ELSE tx[t].newLevel
      /\ \A v \in Users \ {u} : /\ ledger'[v] = ledger[v]
                                /\ total'[v] = total[v] /\ level'[v] = level[v]
  BY <1>4, <1>5, <1>6
<1>8. tx'[t] = IdleTx /\ \A r \in Txs \ {t} : tx'[r] = tx[r]  BY <1>1, <1>6
<1>9. prev <= total[u]  BY <1>3 DEF AwardInv, AwardShape
<1>10. LevelNeverAhead'
  <2>1. SUFFICES ASSUME NEW v \in Users PROVE level'[v] <= levelForXp(total'[v])
    BY DEF LevelNeverAhead
  <2>2. level[v] <= levelForXp(total[v])  BY DEF AwardInv, LevelNeverAhead
  <2>3. CASE v # u  BY <1>7, <2>2, <2>3
  <2>4. CASE v = u /\ pay = 0
    <3>1. total'[v] = total[v] /\ level'[v] = level[v]  BY <1>5, <1>7, <2>4
    <3>2. QED  BY <2>2, <3>1
  <2>5. CASE v = u /\ pay # 0
    <3>1. level'[v] = levelForXp(prev + pay)
      <4>1. AwardShape(tx[t])  BY DEF AwardInv
      <4>2. pay > 0  BY <1>2, <2>5
      <4>3. tx[t].newLevel = levelForXp(prev + pay)
        BY <1>3, <4>1, <4>2 DEF AwardShape
      <4>4. QED  BY <1>7, <2>5, <4>3
    <3>2. prev + pay \in Nat /\ total[u] + pay \in Nat /\ prev + pay <= total[u] + pay
      BY <1>2, <1>4, <1>5, <1>9
    <3>3. levelForXp(prev + pay) <= levelForXp(total[u] + pay)
      BY <3>2, LevelMonotone
    <3>4. QED  BY <1>7, <2>5, <3>1, <3>3
  <2>6. QED  BY <2>3, <2>4, <2>5
<1>11. Xp500Earned'
  <2>1. SUFFICES ASSUME NEW v \in Users, Xp500 \in ledger'[v]
                 PROVE  sumAmounts(ledger'[v] \ {Xp500}) >= 500
    BY DEF Xp500Earned
  <2>2. Xp500 \in ledger[v] => sumAmounts(ledger[v] \ {Xp500}) >= 500
    BY DEF AwardInv, Xp500Earned
  <2>3. CASE v # u  BY <1>7, <2>1, <2>2, <2>3
  <2>4. CASE v = u /\ Xp500 \in ledger[u]
    <3>1. ledger[u] \cup rows \in SUBSET Keys  BY <1>2, <1>4, <1>5
    <3>2. /\ (ledger[u] \cup rows) \ {Xp500} \in SUBSET Keys
          /\ ledger[u] \ {Xp500} \in SUBSET ((ledger[u] \cup rows) \ {Xp500})
          /\ ledger[u] \ {Xp500} \in SUBSET Keys
      BY <3>1
    <3>3. sumAmounts(ledger[u] \ {Xp500}) <= sumAmounts((ledger[u] \cup rows) \ {Xp500})
      BY <3>2, SumMonotone
    <3>4. /\ sumAmounts(ledger[u] \ {Xp500}) \in Nat
          /\ sumAmounts((ledger[u] \cup rows) \ {Xp500}) \in Nat
      BY <3>2, SumType
    <3>5. sumAmounts((ledger[u] \cup rows) \ {Xp500}) >= 500
      BY <2>2, <2>4, <3>3, <3>4
    <3>6. QED  BY <1>7, <2>4, <3>5
  <2>5. CASE v = u /\ Xp500 \notin ledger[u]
    <3>1. Xp500 \in rows  BY <1>7, <2>1, <2>5
    <3>2. prev + sumAmounts(rows \ {Xp500}) >= 500
      BY <3>1 DEF AwardInv, AwardShape
    <3>3. (ledger[u] \cup rows) \ {Xp500} = ledger[u] \cup (rows \ {Xp500})  BY <2>5
    <3>4. /\ ledger[u] \in SUBSET Keys /\ rows \ {Xp500} \in SUBSET Keys
          /\ ledger[u] \cap (rows \ {Xp500}) = {}
      BY <1>2, <1>4, <1>5 DEF AwardInv, LedgerInv, RowsFresh
    <3>5. sumAmounts(ledger[u] \cup (rows \ {Xp500}))
             = sumAmounts(ledger[u]) + sumAmounts(rows \ {Xp500})
      BY <3>4, SumOfUnion
    <3>6. sumAmounts(ledger[u]) = total[u]  BY <1>4 DEF AwardInv, LedgerInv, TotalIsLedgerSum
    <3>7. sumAmounts(rows \ {Xp500}) \in Nat /\ total[u] \in Nat
      BY <1>4, <1>5, <3>4, SumType
    <3>8. total[u] + sumAmounts(rows \ {Xp500}) >= 500
      BY <1>2, <1>9, <3>2, <3>7
    <3>9. ledger'[v] \ {Xp500} = ledger[u] \cup (rows \ {Xp500})
      BY <1>7, <2>5, <3>3
    <3>10. sumAmounts(ledger'[v] \ {Xp500}) = total[u] + sumAmounts(rows \ {Xp500})
      BY <3>5, <3>6, <3>9
    <3>11. QED  BY <3>8, <3>10
  <2>6. QED  BY <2>3, <2>4, <2>5
<1>12. ASSUME NEW r \in Txs PROVE AwardShape(tx[r])'
  <2>1. CASE r = t
    <3>1. tx'[r] = IdleTx  BY <1>8, <2>1
    <3>2. QED  BY <3>1 DEF AwardShape, IdleTx
  <2>2. CASE r # t
    <3>1. tx'[r] = tx[r]  BY <1>8, <2>2
    <3>2. AwardShape(tx[r]) /\ Shape(tx[r])  BY DEF AwardInv, LedgerInv
    <3>3. tx[r].pc # "idle" => tx[r].previousTotal <= total'[tx[r].user]
      <4>1. SUFFICES ASSUME tx[r].pc # "idle"
                     PROVE  tx[r].previousTotal <= total'[tx[r].user]
        OBVIOUS
      <4>2. tx[r].user \in Users /\ tx[r].previousTotal <= total[tx[r].user]
        BY <3>2, <4>1 DEF Shape, AwardShape
      <4>3. tx[r].previousTotal \in Nat  BY <1>1 DEF TxType
      <4>4. total'[tx[r].user] >= total[tx[r].user]
        <5>1. CASE tx[r].user = u  BY <1>2, <1>5, <1>7, <4>2, <5>1
        <5>2. CASE tx[r].user # u  BY <1>5, <1>7, <4>2, <5>2
        <5>3. QED  BY <5>1, <5>2
      <4>5. total[tx[r].user] \in Nat /\ total'[tx[r].user] \in Nat
        BY <4>2 DEF AwardInv, LedgerInv, TypeOK
      <4>6. QED  BY <4>2, <4>3, <4>4, <4>5
    <3>4. QED  BY <3>1, <3>2, <3>3 DEF AwardShape
  <2>3. QED  BY <2>1, <2>2
<1>13. QED  BY <1>10, <1>11, <1>12 DEF AwardInv

(* The badge is put in hand only when the rows in hand reach the 500.      *)
LEMMA EarnedXp500 ==
    ASSUME NEW t \in Txs, Xp500 \in EarnedKeys(t)
    PROVE  tx[t].previousTotal + sumAmounts(tx[t].rows) >= 500
<1> DEFINE s == Snapshot(tx[t].rows, tx[t].previousTotal + sumAmounts(tx[t].rows),
                         tx[t].streak)
<1>1. PICK b \in newlyEarnedAchievements(s, tx[t].unlocked) : Xp500 = achievementAward(b)
  BY DEF EarnedKeys
<1>2. b = "XP_500"
  <2>1. Xp500.id = "XP_500"  BY DEF Xp500, achievementAward, Key
  <2>2. achievementAward(b).id = b  BY DEF achievementAward, Key
  <2>3. QED  BY <1>1, <2>1, <2>2
<1>3. isEarned("XP_500", s)  BY <1>1, <1>2 DEF newlyEarnedAchievements
<1>4. s.totalXp >= 500
  <2> HIDE DEF s
  <2>1. QED  BY <1>3 DEF isEarned
<1>5. s.totalXp = tx[t].previousTotal + sumAmounts(tx[t].rows)  BY DEF Snapshot
<1>6. QED  BY <1>4, <1>5

LEMMA NextAward == AwardInv /\ [Next]_vars => AwardInv'
<1> SUFFICES ASSUME AwardInv, [Next]_vars PROVE AwardInv'  OBVIOUS
<1> TypeOK  BY DEF AwardInv, LedgerInv
<1> LedgerInv'  BY NextLedger DEF AwardInv
<1>1. ASSUME NEW t \in Txs, NEW u \in Users, NEW c \in Calls, Begin(t, u, c)
      PROVE  AwardInv'
  <2> DEFINE new == [IdleTx EXCEPT !.pc = "read", !.user = u, !.call = c, !.at = now,
                       !.zone = timezone[u],
                       !.previousTotal = total[u], !.previousLevel = level[u],
                       !.known = IF c.step = NoStep THEN None ELSE stepAt[u][c.step]]
  <2>1. tx' = [tx EXCEPT ![t] = new] /\ UNCHANGED userVars  BY <1>1 DEF Begin
  <2>2. new.pc = "read" /\ new.user = u /\ new.previousTotal = total[u] /\ new.rows = {}
    BY DEF IdleTx
  <2> HIDE DEF new
  <2>3. total[u] \in Nat  BY DEF TypeOK
  <2>4. AwardShape(new)  BY <2>2, <2>3 DEF AwardShape
  <2>5. QED  BY <2>1, <2>4, OneTxAward
<1>2. ASSUME NEW t \in Txs, ReadUnlocked(t) \/ SkipDay(t) \/ OpenDay(t) \/ TouchDay(t)
      PROVE  AwardInv'
  <2>1. PICK new :
          /\ tx' = [tx EXCEPT ![t] = new] /\ UNCHANGED userVars
          /\ new.pc \in {"day", "awards"} /\ new.user = tx[t].user
          /\ new.rows = tx[t].rows /\ new.previousTotal = tx[t].previousTotal
    <3>1. tx[t] \in TxType  BY TxTyped
    <3>2. CASE ReadUnlocked(t)
      <4>1. WITNESS [tx[t] EXCEPT !.pc = "day", !.unlocked =
                        IF tx[t].call.awards = {} THEN {}
                        ELSE BadgesIn(ledger[tx[t].user])]
      <4>2. QED  BY <3>1, <3>2 DEF ReadUnlocked, TxType
    <3>3. CASE SkipDay(t)
      <4>1. WITNESS [tx[t] EXCEPT !.pc = "awards"]
      <4>2. QED  BY <3>1, <3>3 DEF SkipDay, TxType
    <3>4. CASE OpenDay(t)
      <4> DEFINE d == formatDayInTimeZone(tx[t].at, tx[t].zone)
      <4>1. WITNESS [tx[t] EXCEPT !.pc = "awards", !.day = d, !.isNewDay = TRUE,
                        !.streak = countCurrentStreak(d, STREAK_SCAN_DAYS,
                             ActiveDays(t))]
      <4>2. QED  BY <3>1, <3>4, ZenonT(60) DEF OpenDay, TxType
    <3>5. CASE TouchDay(t)
      <4>1. WITNESS [tx[t] EXCEPT !.pc = "awards",
                        !.day = formatDayInTimeZone(tx[t].at, tx[t].zone)]
      <4>2. QED  BY <3>1, <3>5 DEF TouchDay, TxType
    <3>6. QED  BY <1>2, <3>2, <3>3, <3>4, <3>5
  <2>2. tx[t].pc # "idle"
    BY <1>2 DEF ReadUnlocked, SkipDay, OpenDay, TouchDay, DayFree
  <2>3. AwardShape(tx[t])  BY DEF AwardInv
  <2>4. AwardShape(new)  BY <2>1, <2>2, <2>3 DEF AwardShape
  <2>5. QED  BY <2>1, <2>4, OneTxAward
<1>3. ASSUME NEW t \in Txs, InsertAwards(t) PROVE AwardInv'
  <2> DEFINE new == [tx[t] EXCEPT !.pc = "badges", !.rows = Landed(t, tx[t].call.awards)]
  <2>1. tx' = [tx EXCEPT ![t] = new] /\ UNCHANGED userVars /\ tx[t].pc = "awards"
    BY <1>3 DEF InsertAwards
  <2>2. tx[t].call \in Calls \cup {NoCall}  BY TxTyped DEF TxType
  <2>3. Landed(t, tx[t].call.awards) \subseteq ActionKeys
    BY <2>2, CallAwards DEF Landed
  <2>4. new.pc = "badges" /\ new.user = tx[t].user
        /\ new.rows = Landed(t, tx[t].call.awards)
        /\ new.previousTotal = tx[t].previousTotal
    BY TxTyped DEF TxType
  <2> HIDE DEF new
  <2>5. Xp500 \notin new.rows  BY <2>3, <2>4, Xp500IsBadge
  <2>6. AwardShape(tx[t])  BY DEF AwardInv
  <2>7. AwardShape(new)  BY <2>1, <2>3, <2>4, <2>5, <2>6 DEF AwardShape
  <2>8. QED  BY <2>1, <2>7, OneTxAward
<1>4. ASSUME NEW t \in Txs, InsertBadges(t) PROVE AwardInv'
  <2> DEFINE new == [tx[t] EXCEPT !.pc = "update", !.rows = @ \cup Landed(t, EarnedKeys(t))]
  <2>1. tx' = [tx EXCEPT ![t] = new] /\ UNCHANGED userVars /\ tx[t].pc = "badges"
    BY <1>4 DEF InsertBadges
  <2>2. tx[t] \in TxType  BY TxTyped
  <2>3. new.pc = "update" /\ new.user = tx[t].user
        /\ new.rows = tx[t].rows \cup Landed(t, EarnedKeys(t))
        /\ new.previousTotal = tx[t].previousTotal
    BY <2>2 DEF TxType
  <2>4. new.rows \in SUBSET Keys
    BY <2>2, <2>3, EarnedAreKeys DEF TxType, Landed, Keys
  <2> HIDE DEF new
  <2>5. AwardShape(tx[t])  BY DEF AwardInv
  <2>6. Xp500 \notin tx[t].rows  BY <2>1, <2>5, Xp500IsBadge DEF AwardShape
  <2>7. ASSUME Xp500 \in new.rows
        PROVE  new.previousTotal + sumAmounts(new.rows \ {Xp500}) >= 500
    <3>1. Xp500 \in EarnedKeys(t)  BY <2>3, <2>6, <2>7 DEF Landed
    <3>2. tx[t].previousTotal + sumAmounts(tx[t].rows) >= 500  BY <3>1, EarnedXp500
    <3>3. /\ new.rows \ {Xp500} \in SUBSET Keys
          /\ tx[t].rows \in SUBSET (new.rows \ {Xp500})
          /\ tx[t].rows \in SUBSET Keys
      BY <2>3, <2>4, <2>6
    <3>4. /\ sumAmounts(tx[t].rows) <= sumAmounts(new.rows \ {Xp500})
          /\ sumAmounts(tx[t].rows) \in Nat /\ sumAmounts(new.rows \ {Xp500}) \in Nat
      BY <3>3, SumMonotone, SumType
    <3>5. tx[t].previousTotal \in Nat  BY <2>2 DEF TxType
    <3>6. QED  BY <2>3, <3>2, <3>4, <3>5
  <2>8. AwardShape(new)  BY <2>1, <2>3, <2>5, <2>7 DEF AwardShape
  <2>9. QED  BY <2>1, <2>8, OneTxAward
<1>5. ASSUME NEW t \in Txs, NoAward(t) PROVE AwardInv'
  <2> DEFINE new == [tx[t] EXCEPT !.pc = "commit"]
  <2>1. tx' = [tx EXCEPT ![t] = new] /\ UNCHANGED userVars /\ tx[t].pc = "update"
    BY <1>5 DEF NoAward
  <2>2. new.pc = "commit" /\ new.user = tx[t].user /\ new.rows = tx[t].rows
        /\ new.previousTotal = tx[t].previousTotal /\ new.pay = tx[t].pay
    BY TxTyped DEF TxType
  <2> HIDE DEF new
  <2>3. tx[t].pay = 0 /\ AwardShape(tx[t])  BY <2>1 DEF AwardInv, LedgerInv, Shape
  <2>4. AwardShape(new)  BY <2>1, <2>2, <2>3 DEF AwardShape
  <2>5. QED  BY <2>1, <2>4, OneTxAward
<1>6. ASSUME NEW t \in Txs, UpdateUser(t) PROVE AwardInv'
  <2> DEFINE xp == sumAmounts(tx[t].rows)
             new == [tx[t] EXCEPT !.pc = "commit", !.pay = xp,
                                  !.newLevel = levelForXp(tx[t].previousTotal + xp)]
  <2>1. tx' = [tx EXCEPT ![t] = new] /\ UNCHANGED userVars /\ tx[t].pc = "update"
    BY <1>6 DEF UpdateUser
  <2> HIDE DEF xp
  <2>2. new.pc = "commit" /\ new.user = tx[t].user /\ new.rows = tx[t].rows
        /\ new.previousTotal = tx[t].previousTotal /\ new.pay = xp
        /\ new.newLevel = levelForXp(tx[t].previousTotal + xp)
    BY TxTyped DEF TxType
  <2> HIDE DEF new
  <2>3. AwardShape(tx[t])  BY DEF AwardInv
  <2>4. AwardShape(new)  BY <2>1, <2>2, <2>3 DEF AwardShape
  <2>5. QED  BY <2>1, <2>4, OneTxAward
<1>7. ASSUME NEW t \in Txs, Commit(t) PROVE AwardInv'
  BY <1>7, CommitAward
<1>8. ASSUME NEW t \in Txs, Rollback(t) PROVE AwardInv'
  <2>1. tx' = [tx EXCEPT ![t] = IdleTx] /\ UNCHANGED userVars  BY <1>8 DEF Rollback
  <2>2. AwardShape(IdleTx)  BY DEF AwardShape, IdleTx
  <2>3. QED  BY <2>1, <2>2, OneTxAward
<1>9. ASSUME UNCHANGED <<ledger, total, level, tx>> PROVE AwardInv'
  BY <1>9 DEF AwardInv, AwardShape, LevelNeverAhead, Xp500Earned
<1>10. CASE Tick \/ UNCHANGED vars
  BY <1>9, <1>10 DEF Tick, vars, userVars
<1>11. ASSUME NEW u \in Users, LearnTimezone(u) PROVE AwardInv'
  BY <1>9, <1>11 DEF LearnTimezone
<1>12. QED
  BY <1>1, <1>2, <1>3, <1>4, <1>5, <1>6, <1>7, <1>8, <1>10, <1>11 DEF Next, Run

LEMMA InitAward == Init => AwardInv
<1> SUFFICES ASSUME Init PROVE AwardInv  OBVIOUS
<1>1. LedgerInv  BY InitLedger
<1>2. \A t \in Txs : AwardShape(tx[t])
  <2>1. AwardShape(IdleTx)  BY DEF AwardShape, IdleTx
  <2>2. QED  BY <2>1 DEF Init, AwardShape
<1>3. PICK past \in [Users -> Pasts] :
        /\ ledger = [u \in Users |-> past[u].rows]
        /\ total = [u \in Users |-> sumAmounts(past[u].rows)]
        /\ level = [u \in Users |-> levelForXp(sumAmounts(past[u].rows))]
  BY DEF Init
<1>4. LevelNeverAhead
  <2>1. SUFFICES ASSUME NEW u \in Users PROVE level[u] <= levelForXp(total[u])
    BY DEF LevelNeverAhead
  <2>2. level[u] = levelForXp(total[u])  BY <1>3
  <2>3. total[u] \in Nat  BY <1>1 DEF LedgerInv, TypeOK
  <2>4. levelForXp(total[u]) \in Nat  BY <2>3, LevelType
  <2>5. QED  BY <2>2, <2>4
<1>5. Xp500Earned
  <2>1. SUFFICES ASSUME NEW u \in Users, Xp500 \in ledger[u]
                 PROVE  sumAmounts(ledger[u] \ {Xp500}) >= 500
    BY DEF Xp500Earned
  <2>2. past[u] \in Pasts /\ ledger[u] = past[u].rows  BY <1>3
  <2>3. QED  BY <2>1, <2>2, PastsAssumption
<1>6. QED  BY <1>1, <1>2, <1>4, <1>5 DEF AwardInv

LEMMA AwardAlways == Spec => []AwardInv
BY InitAward, NextAward, PTL DEF Spec

(* The stored level is never above the level of the stored total, though   *)
(* it is written from a total that may be out of date.                     *)
THEOREM LevelNeverAheadAlways == Spec => []LevelNeverAhead
<1>1. AwardInv => LevelNeverAhead  BY DEF AwardInv
<1>2. QED  BY <1>1, AwardAlways, PTL

(* XP_500 is never held below 500 XP of other awards. *)
THEOREM Xp500AlwaysEarned == Spec => []Xp500Earned
<1>1. AwardInv => Xp500Earned  BY DEF AwardInv
<1>2. QED  BY <1>1, AwardAlways, PTL
-----------------------------------------------------------------------------
(* Badges.  A first badge is decided on the rows its own call inserted: it *)
(* goes in with the first row that proves it, or was in the ledger before  *)
(* (unlocked was read from a ledger that only grows).  A streak badge is   *)
(* decided on days that all hold committed activity, or this call's own,   *)
(* which commits with it.                                                  *)
ProvedBy(rows, b) == \E k \in rows : Proves(k, b)

BadgeShape(r) == r.pc # "idle" =>
    /\ r.unlocked \subseteq BadgesIn(ledger[r.user])
    /\ r.pc \in {"update", "commit"} => \A b \in FirstBadges :
          /\ achievementAward(b) \in r.rows => ProvedBy(r.rows, b)
          /\ ProvedBy(r.rows, b) => achievementAward(b) \in r.rows \cup ledger[r.user]
    /\ \A b \in DOMAIN StreakDays :
          /\ achievementAward(b) \in r.rows => r.streak >= StreakDays[b]
          /\ r.streak >= StreakDays[b] =>
                /\ r.call.countsAsActivity
                /\ ActiveFor(StreakDays[b], activeAt[r.user] \cup {r.at})

ActivityKept ==
    \A u \in Users :
        /\ logAt[u] \subseteq activeAt[u]
        /\ \A l \in Lessons : stepAt[u][l] \in activeAt[u] \cup {None}

BadgeInv ==
    /\ AwardInv
    /\ BadgesMatchHistory
    /\ ActivityKept
    /\ \A t \in Txs : BadgeShape(tx[t])

(* A badge's row proves no first badge, and no action's row is a badge's.  *)
LEMMA BadgeRows ==
    /\ \A b : achievementAward(b).source = "ACHIEVEMENT"
    /\ \A b \in FirstBadges : \A k : k.source = "ACHIEVEMENT" => ~Proves(k, b)
    /\ \A b : achievementAward(b) \notin ActionKeys
    /\ \A b, c : achievementAward(b) = achievementAward(c) => b = c
<1>1. \A b : achievementAward(b).source = "ACHIEVEMENT" /\ achievementAward(b).id = b
  BY DEF achievementAward, Key
<1>2. ASSUME NEW b \in FirstBadges, NEW k, k.source = "ACHIEVEMENT"  PROVE ~Proves(k, b)
  BY <1>2 DEF FirstBadges, Proves, isQuizPassKey
<1>3. \A b : achievementAward(b) \notin ActionKeys  BY <1>1, ActionSources
<1>4. QED  BY <1>1, <1>2, <1>3

LEMMA ActiveGrows ==
    ASSUME NEW n, NEW old, NEW new, old \subseteq new, ActiveFor(n, old)
    PROVE  ActiveFor(n, new)
<1>1. PICK zone \in Zones : \E d \in DaysOf(old, zone) :
          (d - n + 1 .. d) \subseteq DaysOf(old, zone)
  BY DEF ActiveFor
<1>2. DaysOf(old, zone) \subseteq DaysOf(new, zone)  BY DEF DaysOf
<1>3. QED  BY <1>1, <1>2 DEF ActiveFor

(* A streak of k days that ends today: the k days up to today are active.  *)
LEMMA StreakRun ==
    ASSUME NEW today \in Int, NEW n \in Nat, NEW days, today \in days, NEW k \in Nat,
           countCurrentStreak(today, n, days) >= k
    PROVE  (today - k + 1 .. today) \subseteq days
<1> DEFINE S == {d \in enumerateDays(today, n) : d <= today /\ (d .. today) \subseteq days}
           last == (today - k + 2) .. today
<1>1. countCurrentStreak(today, n, days) = Cardinality(S)
  BY DEF countCurrentStreak
<1>2. S \in SUBSET Int /\ \A d \in S : d <= today /\ (d .. today) \subseteq days
  BY DEF enumerateDays
<1> HIDE DEF S
<1>3. CASE k = 0  BY <1>3
<1>4. CASE k > 0
  <2>1. IsFiniteSet(last) /\ Cardinality(last) = k - 1
    <3>1. today - k + 2 \in Int  OBVIOUS
    <3>2. Cardinality(last) = IF today - k + 2 > today THEN 0 ELSE today - (today - k + 2) + 1
      BY <3>1, FS_Interval
    <3>3. IsFiniteSet(last)  BY <3>1, FS_Interval
    <3>4. QED  BY <1>4, <3>2, <3>3
  <2>2. ~(S \subseteq last)
    <3>1. SUFFICES ASSUME S \subseteq last  PROVE FALSE  OBVIOUS
    <3>2. Cardinality(S) <= Cardinality(last) /\ IsFiniteSet(S)
      <4> HIDE DEF last
      <4>1. QED  BY <2>1, <3>1, FS_Subset
    <3>3. Cardinality(S) \in Nat  BY <3>2, FS_CardinalityType
    <3>4. QED  BY <1>1, <2>1, <3>2, <3>3
  <2>3. PICK d \in S : d \notin last  BY <2>2
  <2>4. d \in Int /\ d <= today - k + 1  BY <1>2, <2>3
  <2>5. (today - k + 1 .. today) \subseteq (d .. today)  BY <2>4
  <2>6. QED  BY <1>2, <2>5
<1>5. QED  BY <1>3, <1>4

(* The days a call's scan sees are days of committed activity, or its own. *)
LEMMA ScanSees ==
    ASSUME BadgeInv, NEW t \in Txs, tx[t].pc = "day",
           NEW d, d = formatDayInTimeZone(tx[t].at, tx[t].zone),
           NEW b \in DOMAIN StreakDays,
           countCurrentStreak(d, STREAK_SCAN_DAYS, ActiveDays(t)) >= StreakDays[b]
    PROVE  ActiveFor(StreakDays[b], activeAt[tx[t].user] \cup {tx[t].at})
<1> DEFINE u == tx[t].user
           seen == activeAt[u] \cup {tx[t].at}
           zone == tx[t].zone
           n == StreakDays[b]
<1>1. TypeOK /\ ActivityKept  BY DEF BadgeInv, AwardInv, LedgerInv
<1>2. u \in Users  BY DEF BadgeInv, AwardInv, LedgerInv, Shape
<1>3. zone \in Zones /\ d \in Int /\ n \in Nat /\ n > 0
  BY <1>1, TxTyped, DayType DEF TxType, StreakDays
<1>4. ActiveDays(t) \subseteq DaysOf(seen, zone)
  BY <1>1, <1>2 DEF ActiveDays, ActivityKept, DaysOf
<1>5. d \in ActiveDays(t)  BY DEF ActiveDays
<1>6. STREAK_SCAN_DAYS \in Nat  BY DEF STREAK_SCAN_DAYS
<1> HIDE DEF n
<1>7. (d - n + 1 .. d) \subseteq ActiveDays(t)  BY <1>3, <1>5, <1>6, StreakRun DEF n
<1>8. ActiveFor(n, seen)  BY <1>3, <1>4, <1>5, <1>7 DEF ActiveFor
<1>9. QED  BY <1>8 DEF n

LEMMA OneTxBadges ==
    ASSUME BadgeInv, AwardInv', NEW t \in Txs, NEW new,
           tx' = [tx EXCEPT ![t] = new], UNCHANGED userVars, BadgeShape(new)
    PROVE  BadgeInv'
<1>1. tx \in [Txs -> TxType]  BY DEF BadgeInv, AwardInv, LedgerInv, TypeOK
<1>2. tx'[t] = new /\ \A r \in Txs \ {t} : tx'[r] = tx[r]  BY <1>1
<1>3. ledger' = ledger /\ activeAt' = activeAt /\ logAt' = logAt /\ stepAt' = stepAt
  BY DEF userVars
<1>4. ASSUME NEW r \in Txs PROVE BadgeShape(tx[r])'
  <2>1. BadgeShape(tx'[r])  BY <1>2 DEF BadgeInv
  <2>2. QED  BY <1>3, <2>1 DEF BadgeShape
<1>5. BadgesMatchHistory' /\ ActivityKept'
  BY <1>3 DEF BadgeInv, BadgesMatchHistory, FirstBadgesMatchLedger, StreakBadgesEarned,
              ActivityKept
<1>6. QED  BY <1>4, <1>5 DEF BadgeInv

(* The badges an insert earns, from the rows the call inserted before.     *)
LEMMA EarnedFirst ==
    ASSUME TypeOK, NEW t \in Txs, NEW b \in FirstBadges
    PROVE  achievementAward(b) \in EarnedKeys(t)
              <=> b \notin tx[t].unlocked /\ ProvedBy(tx[t].rows, b)
<1> DEFINE rows == tx[t].rows
           xp == tx[t].previousTotal + sumAmounts(rows)
           s == Snapshot(rows, xp, tx[t].streak)
           proofs == {k \in rows : Proves(k, b)}
<1>1. rows \in SUBSET Keys /\ IsFiniteSet(rows)
  BY TxTyped, KeysFinite, FS_Subset DEF TxType
<1>2. IsFiniteSet(proofs) /\ (Cardinality(proofs) >= 1 <=> proofs # {})
  <2>1. IsFiniteSet(proofs)  BY <1>1, FS_Subset
  <2> HIDE DEF proofs
  <2>2. QED  BY <2>1, FS_CardinalityType, FS_EmptySet
<1>3. isEarned(b, s) <=> Cardinality(proofs) >= 1
  <2>1. CASE b = "FIRST_STAGE"  BY <2>1 DEF isEarned, Snapshot, Proves
  <2>2. CASE b = "FIRST_QUIZ_PASS"  BY <2>2 DEF isEarned, Snapshot, Proves
  <2>3. CASE b = "FIRST_MASTERED_WORD"  BY <2>3 DEF isEarned, Snapshot, Proves
  <2>4. QED  BY <2>1, <2>2, <2>3 DEF FirstBadges
<1>4. proofs # {} <=> ProvedBy(rows, b)  BY DEF ProvedBy
<1>5. b \in Badges  BY DEF FirstBadges, Badges
<1>6. EarnedKeys(t) = {achievementAward(c) : c \in newlyEarnedAchievements(s, tx[t].unlocked)}
  BY DEF EarnedKeys
<1> HIDE DEF s, proofs
<1>7. achievementAward(b) \in EarnedKeys(t) <=> b \notin tx[t].unlocked /\ isEarned(b, s)
  BY <1>5, <1>6, BadgeRows DEF newlyEarnedAchievements
<1>8. QED  BY <1>2, <1>3, <1>4, <1>7

LEMMA EarnedStreak ==
    ASSUME NEW t \in Txs, NEW b \in DOMAIN StreakDays, achievementAward(b) \in EarnedKeys(t)
    PROVE  tx[t].streak >= StreakDays[b]
<1> DEFINE xp == tx[t].previousTotal + sumAmounts(tx[t].rows)
           s == Snapshot(tx[t].rows, xp, tx[t].streak)
<1>1. EarnedKeys(t) = {achievementAward(c) : c \in newlyEarnedAchievements(s, tx[t].unlocked)}
  BY DEF EarnedKeys
<1>2. s.currentStreakDays = tx[t].streak  BY DEF Snapshot
<1> HIDE DEF s
<1>3. isEarned(b, s)  BY <1>1, BadgeRows DEF newlyEarnedAchievements
<1>4. b = "STREAK_3" \/ b = "STREAK_7"  BY DEF StreakDays
<1>5. CASE b = "STREAK_3"  BY <1>2, <1>3, <1>5 DEF isEarned, StreakDays
<1>6. CASE b = "STREAK_7"  BY <1>2, <1>3, <1>6 DEF isEarned, StreakDays
<1>7. QED  BY <1>4, <1>5, <1>6

LEMMA InsertBadgesBadges ==
    ASSUME BadgeInv, AwardInv', NEW t \in Txs, InsertBadges(t)
    PROVE  BadgeInv'
<1> DEFINE u == tx[t].user
           old == tx[t].rows
           new == [tx[t] EXCEPT !.pc = "update", !.rows = @ \cup Landed(t, EarnedKeys(t))]
<1>1. tx' = [tx EXCEPT ![t] = new] /\ UNCHANGED userVars /\ tx[t].pc = "badges"
  BY DEF InsertBadges
<1>2. TypeOK /\ BadgeShape(tx[t]) /\ tx[t] \in TxType /\ AwardShape(tx[t])
  BY TxTyped DEF BadgeInv, AwardInv, LedgerInv
<1>3. new.pc = "update" /\ new.user = u /\ new.rows = old \cup Landed(t, EarnedKeys(t))
      /\ new.unlocked = tx[t].unlocked /\ new.streak = tx[t].streak
      /\ new.call = tx[t].call /\ new.at = tx[t].at
  BY <1>2 DEF TxType
<1> HIDE DEF new
<1>4. old \subseteq ActionKeys  BY <1>1, <1>2 DEF AwardShape
<1>5. Landed(t, EarnedKeys(t)) = EarnedKeys(t) \ (ledger[u] \cup old)  BY DEF Landed
<1>6. EarnedKeys(t) \subseteq BadgeKeys  BY EarnedAreKeys
<1>7. ASSUME NEW b \in FirstBadges
      PROVE  /\ achievementAward(b) \in new.rows => ProvedBy(new.rows, b)
             /\ ProvedBy(new.rows, b) => achievementAward(b) \in new.rows \cup ledger[u]
  <2>1. ProvedBy(new.rows, b) <=> ProvedBy(old, b)
    <3>1. \A k \in EarnedKeys(t) : ~Proves(k, b)  BY <1>6, BadgeRows DEF BadgeKeys
    <3>2. QED  BY <1>3, <1>5, <3>1 DEF ProvedBy
  <2>2. achievementAward(b) \in new.rows => ProvedBy(old, b)
    <3>1. achievementAward(b) \notin old  BY <1>4, BadgeRows
    <3>2. QED  BY <1>2, <1>3, <1>5, <3>1, EarnedFirst
  <2>3. ASSUME ProvedBy(old, b)  PROVE achievementAward(b) \in new.rows \cup ledger[u]
    <3>1. CASE b \in tx[t].unlocked
      BY <1>1, <1>2, <3>1 DEF BadgeShape, BadgesIn
    <3>2. CASE b \notin tx[t].unlocked
      BY <1>2, <1>3, <1>5, <2>3, <3>2, EarnedFirst
    <3>3. QED  BY <3>1, <3>2
  <2>4. QED  BY <2>1, <2>2, <2>3
<1>8. ASSUME NEW b \in DOMAIN StreakDays, achievementAward(b) \in new.rows
      PROVE  new.streak >= StreakDays[b]
  <2>1. achievementAward(b) \notin old  BY <1>4, BadgeRows
  <2>2. QED  BY <1>3, <1>5, <1>8, <2>1, EarnedStreak
<1>9. BadgeShape(new)  BY <1>1, <1>2, <1>3, <1>7, <1>8 DEF BadgeShape
<1>10. QED  BY <1>1, <1>9, OneTxBadges

LEMMA CommitBadges ==
    ASSUME BadgeInv, AwardInv', NEW t \in Txs, Commit(t)
    PROVE  BadgeInv'
<1> DEFINE u == tx[t].user
           c == tx[t].call
           rows == tx[t].rows
<1>1. TypeOK /\ TypeOK' /\ BadgeShape(tx[t]) /\ tx[t] \in TxType
  BY TxTyped DEF BadgeInv, AwardInv, LedgerInv
<1>2. tx[t].pc = "commit" /\ u \in Users
  BY DEF Commit, BadgeInv, AwardInv, LedgerInv, Shape
<1>3. /\ ledger' = [ledger EXCEPT ![u] = @ \cup rows]
      /\ activeAt' = IF c.countsAsActivity
                     THEN [activeAt EXCEPT ![u] = @ \cup {tx[t].at}] ELSE activeAt
      /\ stepAt' = IF c.step = NoStep THEN stepAt
                   ELSE [stepAt EXCEPT ![u][c.step] = tx[t].at]
      /\ logAt' = IF c.step = NoStep /\ c.countsAsActivity
                  THEN [logAt EXCEPT ![u] = @ \cup {tx[t].at}] ELSE logAt
      /\ tx' = [tx EXCEPT ![t] = IdleTx]
  BY DEF Commit
<1>4. /\ ledger'[u] = ledger[u] \cup rows /\ \A v \in Users \ {u} : ledger'[v] = ledger[v]
      /\ \A v \in Users : ledger[v] \subseteq ledger'[v]
  BY <1>1, <1>2, <1>3 DEF TypeOK
<1>5. /\ \A v \in Users : activeAt[v] \subseteq activeAt'[v]
      /\ c.countsAsActivity => activeAt'[u] = activeAt[u] \cup {tx[t].at}
  BY <1>1, <1>2, <1>3 DEF TypeOK
<1>6. FirstBadgesMatchLedger'
  <2> SUFFICES ASSUME NEW v \in Users, NEW b \in FirstBadges
               PROVE  achievementAward(b) \in ledger'[v] <=> ProvedBy(ledger'[v], b)
    BY DEF FirstBadgesMatchLedger, FirstsEarned, ProvedBy
  <2>1. achievementAward(b) \in ledger[v] <=> ProvedBy(ledger[v], b)
    BY DEF BadgeInv, BadgesMatchHistory, FirstBadgesMatchLedger, FirstsEarned, ProvedBy
  <2>2. CASE v # u  BY <1>4, <2>1, <2>2
  <2>3. CASE v = u
    <3>1. ProvedBy(ledger'[u], b) <=> ProvedBy(ledger[u], b) \/ ProvedBy(rows, b)
      BY <1>4 DEF ProvedBy
    <3>2. /\ achievementAward(b) \in rows => ProvedBy(rows, b)
          /\ ProvedBy(rows, b) => achievementAward(b) \in rows \cup ledger[u]
      BY <1>1, <1>2 DEF BadgeShape
    <3>3. QED  BY <1>4, <2>1, <2>3, <3>1, <3>2
  <2>4. QED  BY <2>2, <2>3
<1>7. StreakBadgesEarned'
  <2> SUFFICES ASSUME NEW v \in Users, NEW b \in DOMAIN StreakDays,
                      achievementAward(b) \in ledger'[v]
               PROVE  ActiveFor(StreakDays[b], activeAt'[v])
    BY DEF StreakBadgesEarned, StreaksEarned
  <2>1. CASE achievementAward(b) \in ledger[v]
    <3>1. ActiveFor(StreakDays[b], activeAt[v])
      BY <2>1 DEF BadgeInv, BadgesMatchHistory, StreakBadgesEarned, StreaksEarned
    <3>2. QED  BY <1>5, <3>1, ActiveGrows
  <2>2. CASE achievementAward(b) \notin ledger[v]
    <3>1. v = u /\ achievementAward(b) \in rows  BY <1>4, <2>2
    <3>2. c.countsAsActivity /\ ActiveFor(StreakDays[b], activeAt[u] \cup {tx[t].at})
      BY <1>1, <1>2, <3>1 DEF BadgeShape
    <3>3. QED  BY <1>5, <3>1, <3>2
  <2>3. QED  BY <2>1, <2>2
<1>8. ActivityKept'
  <2>1. c.step # NoStep => c.countsAsActivity /\ c.step \in Lessons
    <3>1. c \in Calls \cup {NoCall}  BY <1>1 DEF TxType
    <3>2. NoCall.step = NoStep  BY DEF NoCall
    <3>3. QED  BY <3>1, <3>2, CallStep, GamificationAssumption
  <2>2. ASSUME NEW v \in Users
        PROVE  /\ logAt'[v] \subseteq activeAt'[v]
               /\ \A l \in Lessons : stepAt'[v][l] \in activeAt'[v] \cup {None}
    <3>1. /\ logAt[v] \subseteq activeAt[v]
          /\ \A l \in Lessons : stepAt[v][l] \in activeAt[v] \cup {None}
      BY DEF BadgeInv, ActivityKept
    <3>2. logAt'[v] \subseteq activeAt'[v]
      BY <1>1, <1>2, <1>3, <1>5, <3>1 DEF TypeOK
    <3>3. ASSUME NEW l \in Lessons  PROVE stepAt'[v][l] \in activeAt'[v] \cup {None}
      <4>1. stepAt'[v][l] = stepAt[v][l] \/ (v = u /\ c.step # NoStep /\ stepAt'[v][l] = tx[t].at)
        BY <1>1, <1>2, <1>3, <2>1, ZenonT(60) DEF TypeOK
      <4>2. QED  BY <1>5, <2>1, <3>1, <4>1
    <3>4. QED  BY <3>2, <3>3
  <2>3. QED  BY <2>2 DEF ActivityKept
<1>9. ASSUME NEW r \in Txs PROVE BadgeShape(tx[r])'
  <2>1. CASE r = t
    <3>1. tx'[r] = IdleTx  BY <1>1, <1>3, <2>1 DEF TypeOK
    <3>2. QED  BY <3>1 DEF BadgeShape, IdleTx
  <2>2. CASE r # t
    <3> DEFINE x == tx[r]
    <3>1. tx'[r] = x  BY <1>1, <1>3, <2>2 DEF TypeOK
    <3>2. BadgeShape(x) /\ (x.pc = "idle" \/ x.user \in Users) /\ x \in TxType
      BY <1>1, TxTyped DEF BadgeInv, AwardInv, LedgerInv, Shape
    <3>3. CASE x.pc = "idle"
      BY <3>1, <3>3 DEF BadgeShape
    <3>4. CASE x.pc # "idle"
      <4>1. ledger[x.user] \subseteq ledger'[x.user] /\ activeAt[x.user] \subseteq activeAt'[x.user]
        BY <1>4, <1>5, <3>2, <3>4
      <4>2. BadgesIn(ledger[x.user]) \subseteq BadgesIn(ledger'[x.user])  BY <4>1 DEF BadgesIn
      <4>3. \A b \in DOMAIN StreakDays :
              ActiveFor(StreakDays[b], activeAt[x.user] \cup {x.at})
                 => ActiveFor(StreakDays[b], activeAt'[x.user] \cup {x.at})
        <5>1. activeAt[x.user] \cup {x.at} \subseteq activeAt'[x.user] \cup {x.at}  BY <4>1
        <5>2. QED  BY <5>1, ActiveGrows
      <4> HIDE DEF x
      <4>4. QED  BY <3>1, <3>2, <3>4, <4>1, <4>2, <4>3 DEF BadgeShape
    <3>5. QED  BY <3>3, <3>4
  <2>3. QED  BY <2>1, <2>2
<1>10. AwardInv'  OBVIOUS
<1>11. QED  BY <1>6, <1>7, <1>8, <1>9, <1>10 DEF BadgeInv, BadgesMatchHistory

LEMMA NextBadges == BadgeInv /\ [Next]_vars => BadgeInv'
<1> SUFFICES ASSUME BadgeInv, [Next]_vars PROVE BadgeInv'  OBVIOUS
<1>0. TypeOK /\ AwardInv' /\ \A t \in Txs : Shape(tx[t]) /\ BadgeShape(tx[t])
  BY NextAward DEF BadgeInv, AwardInv, LedgerInv
<1>1. ASSUME NEW t \in Txs, NEW u \in Users, NEW c \in Calls, Begin(t, u, c)
      PROVE  BadgeInv'
  <2> DEFINE new == [IdleTx EXCEPT !.pc = "read", !.user = u, !.call = c, !.at = now,
                       !.zone = timezone[u],
                       !.previousTotal = total[u], !.previousLevel = level[u],
                       !.known = IF c.step = NoStep THEN None ELSE stepAt[u][c.step]]
  <2>1. tx' = [tx EXCEPT ![t] = new] /\ UNCHANGED userVars  BY <1>1 DEF Begin
  <2>2. new.pc = "read" /\ new.rows = {} /\ new.unlocked = {} /\ new.streak = NoStreak
    BY DEF IdleTx
  <2> HIDE DEF new
  <2>3. BadgeShape(new)  BY <2>2 DEF BadgeShape, StreakDays, NoStreak
  <2>4. QED  BY <1>0, <2>1, <2>3, OneTxBadges
<1>2. ASSUME NEW t \in Txs, ReadUnlocked(t) \/ SkipDay(t) \/ OpenDay(t) \/ TouchDay(t)
      PROVE  BadgeInv'
  <2>1. /\ tx[t] \in TxType /\ tx[t].pc \in {"read", "day"} /\ tx[t].rows = {}
        /\ UNCHANGED userVars
    BY <1>0, <1>2, TxTyped DEF ReadUnlocked, SkipDay, OpenDay, TouchDay, DayFree, Shape
  <2>2. CASE ReadUnlocked(t)
    <3> DEFINE held == IF tx[t].call.awards = {} THEN {} ELSE BadgesIn(ledger[tx[t].user])
               new == [tx[t] EXCEPT !.pc = "day", !.unlocked = held]
    <3>1. tx' = [tx EXCEPT ![t] = new]  BY <2>2 DEF ReadUnlocked
    <3>2. /\ new.pc = "day" /\ new.user = tx[t].user /\ new.rows = {} /\ new.unlocked = held
          /\ new.streak = tx[t].streak /\ new.call = tx[t].call /\ new.at = tx[t].at
      BY <2>1 DEF TxType
    <3>3. held \subseteq BadgesIn(ledger[tx[t].user])  OBVIOUS
    <3> HIDE DEF new, held
    <3>4. BadgeShape(new)  BY <1>0, <2>1, <3>2, <3>3 DEF BadgeShape
    <3>5. QED  BY <1>0, <2>1, <3>1, <3>4, OneTxBadges
  <2>3. CASE OpenDay(t)
    <3> DEFINE d == formatDayInTimeZone(tx[t].at, tx[t].zone)
               s == countCurrentStreak(d, STREAK_SCAN_DAYS, ActiveDays(t))
               new == [tx[t] EXCEPT !.pc = "awards", !.day = d, !.isNewDay = TRUE, !.streak = s]
    <3>1. /\ tx' = [tx EXCEPT ![t] = new] /\ tx[t].pc = "day"
          /\ tx[t].call.countsAsActivity
      BY <2>3 DEF OpenDay, DayFree
    <3>2. /\ new.pc = "awards" /\ new.user = tx[t].user /\ new.rows = {}
          /\ new.unlocked = tx[t].unlocked
          /\ new.streak = s /\ new.call = tx[t].call /\ new.at = tx[t].at
      BY <2>1 DEF TxType
    <3>3. \A b \in DOMAIN StreakDays : s >= StreakDays[b] =>
             ActiveFor(StreakDays[b], activeAt[tx[t].user] \cup {tx[t].at})
      BY <3>1, ScanSees
    <3> HIDE DEF new, s
    <3>4. BadgeShape(new)  BY <1>0, <2>1, <3>1, <3>2, <3>3 DEF BadgeShape
    <3>5. QED  BY <1>0, <2>1, <3>1, <3>4, OneTxBadges
  <2>4. CASE SkipDay(t) \/ TouchDay(t)
    <3>1. PICK new :
            /\ tx' = [tx EXCEPT ![t] = new]
            /\ new.pc = "awards" /\ new.user = tx[t].user /\ new.rows = {}
            /\ new.unlocked = tx[t].unlocked
            /\ new.streak = tx[t].streak /\ new.call = tx[t].call /\ new.at = tx[t].at
      <4>1. CASE SkipDay(t)
        <5>1. WITNESS [tx[t] EXCEPT !.pc = "awards"]
        <5>2. QED  BY <2>1, <4>1 DEF SkipDay, TxType
      <4>2. CASE TouchDay(t)
        <5>1. WITNESS [tx[t] EXCEPT !.pc = "awards",
                          !.day = formatDayInTimeZone(tx[t].at, tx[t].zone)]
        <5>2. QED  BY <2>1, <4>2 DEF TouchDay, TxType
      <4>3. QED  BY <2>4, <4>1, <4>2
    <3>2. BadgeShape(new)  BY <1>0, <2>1, <3>1 DEF BadgeShape
    <3>3. QED  BY <1>0, <2>1, <3>1, <3>2, OneTxBadges
  <2>5. QED  BY <1>2, <2>2, <2>3, <2>4
<1>3. ASSUME NEW t \in Txs, InsertAwards(t) PROVE BadgeInv'
  <2> DEFINE new == [tx[t] EXCEPT !.pc = "badges", !.rows = Landed(t, tx[t].call.awards)]
  <2>1. /\ tx' = [tx EXCEPT ![t] = new] /\ UNCHANGED userVars /\ tx[t].pc = "awards"
        /\ tx[t] \in TxType
    BY <1>0, <1>3, TxTyped DEF InsertAwards
  <2>2. Landed(t, tx[t].call.awards) \subseteq ActionKeys
    BY <2>1, CallAwards DEF Landed, TxType
  <2>3. /\ new.pc = "badges" /\ new.user = tx[t].user /\ new.rows \subseteq ActionKeys
        /\ new.unlocked = tx[t].unlocked
        /\ new.streak = tx[t].streak /\ new.call = tx[t].call /\ new.at = tx[t].at
    BY <2>1, <2>2 DEF TxType
  <2> HIDE DEF new
  <2>4. \A b : achievementAward(b) \notin new.rows  BY <2>3, BadgeRows
  <2>5. BadgeShape(new)  BY <1>0, <2>1, <2>3, <2>4 DEF BadgeShape
  <2>6. QED  BY <1>0, <2>1, <2>5, OneTxBadges
<1>4. ASSUME NEW t \in Txs, InsertBadges(t) PROVE BadgeInv'
  BY <1>0, <1>4, InsertBadgesBadges
<1>5. ASSUME NEW t \in Txs, NoAward(t) \/ UpdateUser(t) PROVE BadgeInv'
  <2>1. PICK new :
          /\ tx' = [tx EXCEPT ![t] = new] /\ UNCHANGED userVars /\ tx[t].pc = "update"
          /\ new.pc = "commit" /\ new.user = tx[t].user /\ new.rows = tx[t].rows
          /\ new.unlocked = tx[t].unlocked
          /\ new.streak = tx[t].streak /\ new.call = tx[t].call /\ new.at = tx[t].at
    <3>1. CASE NoAward(t)
      <4>1. WITNESS [tx[t] EXCEPT !.pc = "commit"]
      <4>2. QED  BY <1>0, <3>1, TxTyped DEF NoAward, TxType
    <3>2. CASE UpdateUser(t)
      <4> DEFINE xp == sumAmounts(tx[t].rows)
                 lvl == levelForXp(tx[t].previousTotal + xp)
      <4>1. tx' = [tx EXCEPT ![t] = [tx[t] EXCEPT !.pc = "commit", !.pay = xp, !.newLevel = lvl]]
            /\ UNCHANGED userVars /\ tx[t].pc = "update"
        BY <3>2 DEF UpdateUser
      <4> HIDE DEF xp, lvl
      <4>2. WITNESS [tx[t] EXCEPT !.pc = "commit", !.pay = xp, !.newLevel = lvl]
      <4>3. QED  BY <1>0, <4>1, TxTyped DEF TxType
    <3>3. QED  BY <1>5, <3>1, <3>2
  <2>2. BadgeShape(new)  BY <1>0, <2>1 DEF BadgeShape
  <2>3. QED  BY <1>0, <2>1, <2>2, OneTxBadges
<1>6. ASSUME NEW t \in Txs, Commit(t) PROVE BadgeInv'
  BY <1>0, <1>6, CommitBadges
<1>7. ASSUME NEW t \in Txs, Rollback(t) PROVE BadgeInv'
  <2>1. tx' = [tx EXCEPT ![t] = IdleTx] /\ UNCHANGED userVars  BY <1>7 DEF Rollback
  <2>2. BadgeShape(IdleTx)  BY DEF BadgeShape, IdleTx
  <2>3. QED  BY <1>0, <2>1, <2>2, OneTxBadges
<1>8. ASSUME UNCHANGED <<ledger, stepAt, logAt, activeAt, tx>> PROVE BadgeInv'
  <2>1. ASSUME NEW t \in Txs PROVE BadgeShape(tx[t])'
    BY <1>0, <1>8 DEF BadgeShape
  <2>2. QED
    BY <1>0, <1>8, <2>1 DEF BadgeInv, BadgesMatchHistory, FirstBadgesMatchLedger,
                            StreakBadgesEarned, ActivityKept
<1>9. CASE Tick \/ UNCHANGED vars  BY <1>8, <1>9 DEF Tick, vars, userVars
<1>10. ASSUME NEW u \in Users, LearnTimezone(u) PROVE BadgeInv'
  BY <1>8, <1>10 DEF LearnTimezone
<1>11. QED
  BY <1>1, <1>2, <1>3, <1>4, <1>5, <1>6, <1>7, <1>9, <1>10 DEF Next, Run

LEMMA InitBadges == Init => BadgeInv
<1> SUFFICES ASSUME Init PROVE BadgeInv  OBVIOUS
<1>1. AwardInv  BY InitAward
<1>2. \A t \in Txs : BadgeShape(tx[t])  BY DEF Init, BadgeShape, IdleTx
<1>3. PICK past \in [Users -> Pasts] :
        /\ ledger = [u \in Users |-> past[u].rows]
        /\ logAt = [u \in Users |-> past[u].log]
        /\ stepAt = [u \in Users |-> [l \in Lessons |-> None]]
        /\ activeAt = logAt
  BY DEF Init
<1>4. ASSUME NEW u \in Users
      PROVE  FirstsEarned(ledger[u]) /\ StreaksEarned(ledger[u], activeAt[u])
  <2>1. past[u] \in Pasts /\ ledger[u] = past[u].rows /\ activeAt[u] = past[u].log
    BY <1>3
  <2>2. QED  BY <2>1, PastsAssumption
<1>5. ActivityKept  BY <1>3 DEF ActivityKept
<1>6. QED
  BY <1>1, <1>2, <1>4, <1>5 DEF BadgeInv, BadgesMatchHistory, FirstBadgesMatchLedger,
                                StreakBadgesEarned

LEMMA BadgesAlways == Spec => []BadgeInv
BY InitBadges, NextBadges, PTL DEF Spec

(* A first badge is held exactly when the ledger proves it, and a streak   *)
(* badge only after that many days in a row of committed activity.         *)
THEOREM BadgesAlwaysMatchHistory == Spec => []BadgesMatchHistory
<1>1. BadgeInv => BadgesMatchHistory  BY DEF BadgeInv
<1>2. QED  BY <1>1, BadgesAlways, PTL
=============================================================================
