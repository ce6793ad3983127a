------------------------------ MODULE DayWindow ------------------------------
(***************************************************************************)
(* Calendar days of src/src/analytics/day-window.ts and day-key.ts.  Time  *)
(* is counted in slots, SlotsPerDay of them to a UTC day; the user's zone  *)
(* is ZoneShift slots ahead of UTC, so a slot near midnight lies on        *)
(* different days in the two zones.  (DST is not modelled.)                *)
(***************************************************************************)
EXTENDS Integers, FiniteSets

CONSTANTS SlotsPerDay, ZoneShift

ASSUME DayWindowAssumption ==
    SlotsPerDay \in Nat \ {0} /\ ZoneShift \in Nat

Zones == {"UTC", "local"}

formatDayInTimeZone(instant, zone) ==
    (instant + (IF zone = "local" THEN ZoneShift ELSE 0)) \div SlotsPerDay

isSameActivityDay(a, b, zone) ==
    formatDayInTimeZone(a, zone) = formatDayInTimeZone(b, zone)

(* enumerateDaysInTimeZone: the `count` days that end with today. *)
enumerateDays(today, count) == (today - count + 1) .. today

(* Mutant: the active days of the window are counted, gaps or not. *)
countCurrentStreakWithGaps(today, count, activeDays) ==
    Cardinality(enumerateDays(today, count) \cap activeDays)

(* The run of active days that ends today, or yesterday when today has no *)
(* activity yet: the days of the window whose every later day, up to that *)
(* end, is active.                                                         *)
countCurrentStreak(today, count, activeDays) ==
    LET end == IF today \in activeDays THEN today ELSE today - 1
    IN  Cardinality({d \in enumerateDays(today, count) :
                        d <= end /\ (d .. end) \subseteq activeDays})
=============================================================================
