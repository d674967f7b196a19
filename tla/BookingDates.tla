---------------------------- MODULE BookingDates ----------------------------
(***************************************************************************)
(* The calendar arithmetic of the booking form                             *)
(* (lib/pages/booking_detail_page.dart).                                   *)
(*                                                                         *)
(* The form keeps both dates as "yyyy-MM-dd" text.  Formatting drops the   *)
(* time of day and DateTime.parse yields LOCAL midnight again, so a text   *)
(* is modelled by its day number and its parse by Midnight(day), an        *)
(* instant in hours.  UtcOffset[d] is the device's offset from UTC at the  *)
(* midnight that starts day d: it is constant in a zone without daylight   *)
(* saving time, and jumps in a zone with it.                               *)
(***************************************************************************)
EXTENDS Integers

CONSTANTS
    FirstDate,      \* DateTime(2000), the pickers' firstDate, as a day number
    LastDate,       \* DateTime(2101), the pickers' lastDate, as a day number
    UtcOffset       \* hours ahead of UTC at the local midnight of each day

Day == FirstDate..LastDate

ASSUME DatesAssumption ==
    /\ FirstDate \in Int
    /\ LastDate \in Int
    /\ FirstDate < LastDate
    /\ UtcOffset \in [Day -> Int]

-----------------------------------------------------------------------------
(* DateTime.parse of a date text: the instant of its local midnight.       *)
Midnight(d) == 24 * d - UtcOffset[d]

(* Instant t falls on calendar day d.                                      *)
FallsOn(t, d) ==
    /\ Midnight(d) <= t
    /\ d + 1 \in Day => t < Midnight(d + 1)

(* DateFormat("yyyy-MM-dd").format(t): the calendar day of an instant.     *)
DateOf(t) == CHOOSE d \in Day : FallsOn(t, d)

(* Duration.inDays: whole days, truncated towards zero.                    *)
InDays(hours) ==
    IF hours >= 0 THEN hours \div 24 ELSE -((-hours) \div 24)

(* checkOut.difference(checkIn).inDays, as both pickers' handlers compute   *)
(* it.                                                                     *)
Nights(checkIn, checkOut) == InDays(Midnight(checkOut) - Midnight(checkIn))

(* The device's zone moves by at most a day in all, and no day of it is       *)
(* shorter than 13 hours.                                                  *)
ASSUME ZoneAssumption ==
    \A d, e \in Day : d < e =>
        /\ UtcOffset[e] - UtcOffset[d] \in -24..24
        /\ Midnight(e) - Midnight(d) >= 13 * (e - d)

(* The dates initState writes.  DateTime.now() is read twice (lines 35 and  *)
(* 37), so the readings t1 and t2 may lie on both sides of a midnight; the  *)
(* check-out date is that of the instant 24 hours after the second reading. *)
InitialDates(t1, t2) ==
    [checkIn |-> DateOf(t1), checkOut |-> DateOf(t2 + 24), night |-> 1]

-----------------------------------------------------------------------------
(* The zone has no daylight saving time.                                   *)
FixedZone == \A d \in Day : UtcOffset[d] = UtcOffset[FirstDate]
=============================================================================
