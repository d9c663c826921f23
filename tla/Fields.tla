----------------------------------- MODULE Fields -----------------------------------
(***************************************************************************)
(* The planning fields of the full editor (item/[id].tsx): the estimate,     *)
(* typed as days and hours (EstimationInput.tsx, utils/estimation.ts), and   *)
(* the two dates, picked in a calendar (DateField.tsx, DatePickerDialog.tsx). *)
(* The races of their saves are Autosave's: here a save only replaces one    *)
(* that waits, then lands.  Estimates are in thousandths of an hour, dates in *)
(* days, instants in hours.                                                  *)
(***************************************************************************)
EXTENDS Integers

CONSTANTS
    Estimates, \* estimates an item may have been given by any client
    Typings,   \* what the user types into the estimate
    Days,      \* days there are to pick
    Zones,     \* hours the device's clock is ahead of UTC
    Null,      \* no value, no pending save
    Garbage,   \* text that is not an estimate
    MaxSaves   \* bound: saves

ASSUME FieldConstants ==
    /\ Estimates \subseteq Nat \cup {Null} /\ Days \subseteq Nat
    /\ Typings \subseteq [days : Nat, hours : Nat] \cup {Garbage}
    /\ Zones \subseteq -12..14 /\ MaxSaves \in Nat /\ Null \notin Nat
    /\ Garbage \notin [days : Nat, hours : Nat]

VARIABLES
    zone,     \* the device's
    planned,  \* the item at the server, and as the screen shows it
    opened,   \* history: the estimate the field was mounted with
    text,     \* the estimate's text: thousandths of a day and of an hour, or Garbage
    touched,  \* history: the user changed it
    picker,   \* the date whose calendar is open, or Null
    picked,   \* history: the day last picked for each date
    unsaved,  \* the patch that waits
    saves     \* saves so far

fields == <<zone, planned, opened, text, touched, picker, picked, unsaved, saves>>

Dates == {"start", "end"}
WORKDAY_HOURS == 8

BreakDownFloor(total) ==  \* mutant: the rest is cut to hundredths
    LET days == total \div (1000 * WORKDAY_HOURS) IN
    [days |-> 1000 * days,
     hours |-> 10 * ((total - 1000 * WORKDAY_HOURS * days) \div 10)]

\* Whole workdays, and the rest rounded to hundredths of an hour.
BreakDown(total) ==
    LET days == total \div (1000 * WORKDAY_HOURS) IN
    [days |-> 1000 * days,
     hours |-> 10 * ((total - 1000 * WORKDAY_HOURS * days + 5) \div 10)]

\* A half that is zero is left out, and with it both: the text is blank.
Blanked == [days |-> 0, hours |-> 0]
HoursToXdYh(total) == IF total = Null THEN Blanked ELSE BreakDown(total)

\* Blank text is no estimate; of the texts typed here "0h" is not one.
ParseEstimation(t) ==
    IF t \in {Blanked, Garbage} THEN Null ELSE WORKDAY_HOURS * t.days + t.hours

FieldsTypeOK ==
    /\ zone \in Zones /\ opened \in Nat \cup {Null} /\ touched \in BOOLEAN
    /\ planned.estimate \in Nat \cup {Null}
    /\ \A d \in Dates : planned[d] \in {24 * day : day \in Days} \cup {Null}
    /\ picker \in Dates \cup {Null}
    /\ \A d \in Dates : picked[d] \in Days \cup {Null}
    /\ unsaved # Null => DOMAIN unsaved \subseteq {"estimate"} \cup Dates
    /\ saves \in 0..MaxSaves

FieldsInit ==
    /\ zone \in Zones
    /\ \E e \in Estimates : planned = [estimate |-> e, start |-> Null, end |-> Null]
    /\ opened = planned.estimate /\ text = HoursToXdYh(opened) /\ touched = FALSE
    /\ picker = Null /\ picked = [d \in Dates |-> Null]
    /\ unsaved = Null /\ saves = 0

Save(patch) ==
    /\ saves < MaxSaves /\ saves' = saves + 1
    /\ unsaved' = patch

TypeEstimate(t) ==
    /\ text' = t /\ touched' = TRUE
    /\ UNCHANGED <<zone, planned, opened, picker, picked, unsaved, saves>>

\* Leaving the field commits what it says, changed or not, readable or not.
BlurEstimate ==
    /\ Save([estimate |-> ParseEstimation(text)])
    /\ UNCHANGED <<zone, planned, opened, text, touched, picker, picked>>

OpenCalendar(d) ==
    /\ picker = Null /\ picker' = d
    /\ UNCHANGED <<zone, planned, opened, text, touched, picked, unsaved, saves>>

\* A day is sent as "YYYY-MM-DD", which the server keeps as its midnight in UTC.
PickDay(day) ==
    /\ picker # Null
    /\ Save([d \in {picker} |-> 24 * day])
    /\ picked' = [picked EXCEPT ![picker] = day]
    /\ picker' = Null
    /\ UNCHANGED <<zone, planned, opened, text, touched>>

ClearDay ==
    /\ picker # Null
    /\ Save([d \in {picker} |-> Null])
    /\ picked' = [picked EXCEPT ![picker] = Null]
    /\ picker' = Null
    /\ UNCHANGED <<zone, planned, opened, text, touched>>

CloseCalendar ==
    /\ picker # Null /\ picker' = Null
    /\ UNCHANGED <<zone, planned, opened, text, touched, picked, unsaved, saves>>

\* The answer replaces the item, but the text of a field that is mounted stays.
SaveLands ==
    /\ unsaved # Null
    /\ planned' = [f \in DOMAIN planned |-> IF f \in DOMAIN unsaved THEN unsaved[f] ELSE planned[f]]
    /\ unsaved' = Null
    /\ UNCHANGED <<zone, opened, text, touched, picker, picked, saves>>

FieldsNext ==
    \/ \E t \in Typings : TypeEstimate(t)
    \/ \E d \in Dates : OpenCalendar(d)
    \/ \E day \in Days : PickDay(day)
    \/ BlurEstimate \/ ClearDay \/ CloseCalendar \/ SaveLands

FieldsSpec == FieldsInit /\ [][FieldsNext]_fields

-----------------------------------------------------------------------------
(* Properties *)

\* Passing through the estimate's field without typing saves the estimate it was
\* opened with, but for the rounding to hundredths of an hour; one too short for
\* a hundredth is cleared.
BlurKeepsEstimate ==
    ~touched /\ opened # Null /\ opened >= 5
        /\ unsaved # Null /\ "estimate" \in DOMAIN unsaved
    => unsaved.estimate # Null /\ unsaved.estimate - opened \in -5..5

\* DateField and the calendar read the instant in the device's zone.
ShownDay(instant) == (instant + zone) \div 24

\* "ISO YYYY-MM-DD (or a full ISO datetime: only the date part is read)": the day
\* that was picked is the day that is shown, once it is saved.
PickedDayIsShown ==
    \A d \in Dates : picked[d] # Null /\ planned[d] = 24 * picked[d] => ShownDay(planned[d]) = picked[d]
=============================================================================
