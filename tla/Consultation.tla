---------------------------- MODULE Consultation ----------------------------
(***************************************************************************)
(* The request of a consultation (features/coach): a calendar of two weeks,*)
(* the dialog with its wheel of time slots, and the banner that tells of   *)
(* the request (features/local-notifications), once when it is made and    *)
(* once more when the system delivers the notification.                    *)
(*                                                                         *)
(* A slot is its place among the slots of its day.  The availability is    *)
(* computed when the screen is mounted and kept as long as it is.          *)
(***************************************************************************)
EXTENDS Naturals, Sequences, FiniteSets

CONSTANTS
    Window,       \* AVAILABILITY_WINDOW_DAYS
    Duration,     \* ticks that a banner stays
    MaxRequests   \* bound on the requests

Times == <<"10:00", "13:00", "15:00", "19:00">>
CONSULTATION_METHODS == {"PHONE", "VIDEO"}
None == 0

VARIABLES
    weekday,      \* day of the week of the first day, 0 is Sunday
    method, date, slot,  \* selectedDate and selectedSlotId, None at first
    completed,    \* the request has been made and is shown
    dialog,       \* [open, draft] of TimeSlotPicker
    requests,     \* number of requests so far
    undelivered,  \* scheduled notifications the system has yet to deliver
    banner,       \* the request whose banner is on the screen, None without one
    timers        \* ticks that the running dismissal timers have left

screenVars == <<method, date, slot, completed, dialog>>
bannerVars == <<banner, timers>>
vars == <<weekday, screenVars, requests, undelivered, bannerVars>>

-----------------------------------------------------------------------------
(* Availability *)

\* The slots of a day, counted from 0, as their status.
isFullSlot(offset, label) == \/ offset = 2 /\ label = "15:00"
                             \/ offset = 5 /\ label = "19:00"
SlotsOf(first, offset) ==
    LET weekDay == (first + offset) % 7
        open    == IF weekDay = 0 THEN 0 ELSE IF weekDay = 6 THEN 2 ELSE 4
    IN  [i \in 1..open |-> IF isFullSlot(offset, Times[i]) THEN "FULL" ELSE "AVAILABLE"]

Days == 1..Window
slots(d) == SlotsOf(weekday, d - 1)
Available(d) == {i \in DOMAIN slots(d) : slots(d)[i] = "AVAILABLE"}
FirstAvailable(d) == CHOOSE i \in Available(d) : \A j \in Available(d) : i <= j

Distance(i, j) == IF i > j THEN i - j ELSE j - i

\* Mutant: the wheel stops where it was left.
RequestedIndex(d, i) == i

\* nearestAvailableIndex: of two as near the earlier.
nearestAvailableIndex(d, requested) ==
    CHOOSE i \in Available(d) : \A j \in Available(d) :
        \/ Distance(i, requested) < Distance(j, requested)
        \/ Distance(i, requested) = Distance(j, requested) /\ i <= j

-----------------------------------------------------------------------------

Init ==
    /\ weekday \in 0..6
    /\ method = "none" /\ date = None /\ slot = None /\ completed = FALSE
    /\ dialog = [open |-> FALSE, draft |-> None]
    /\ requests = 0 /\ undelivered = {}
    /\ banner = None /\ timers = {}

\* handleDayPress: a day without a free slot is not chosen; the effect of the
\* closed dialog follows the new slot.
PressDay(d) ==
    /\ ~completed /\ ~dialog.open
    /\ Available(d) # {}
    /\ date' = d /\ slot' = FirstAvailable(d)
    /\ dialog' = [dialog EXCEPT !.draft = slot']
    /\ UNCHANGED <<weekday, method, completed, requests, undelivered, bannerVars>>

ChooseMethod(m) ==
    /\ ~completed /\ ~dialog.open /\ slot # None
    /\ method' = m
    /\ UNCHANGED <<weekday, date, slot, completed, dialog, requests, undelivered, bannerVars>>

OpenPicker ==
    /\ ~completed /\ ~dialog.open /\ slot # None
    /\ dialog' = [open |-> TRUE, draft |-> slot]
    /\ UNCHANGED <<weekday, method, date, slot, completed, requests, undelivered, bannerVars>>

\* handleMomentumEnd: the wheel has come to rest at some place.
WheelStops(i) ==
    /\ dialog.open
    /\ dialog' = [dialog EXCEPT !.draft = nearestAvailableIndex(date, i)]
    /\ UNCHANGED <<weekday, method, date, slot, completed, requests, undelivered, bannerVars>>

\* onSelectWithScroll: a row is tapped, if it is not full.
TapRow(i) ==
    /\ dialog.open /\ slots(date)[i] # "FULL"
    /\ dialog' = [dialog EXCEPT !.draft = i]
    /\ UNCHANGED <<weekday, method, date, slot, completed, requests, undelivered, bannerVars>>

ClosePicker ==
    /\ dialog.open
    /\ dialog' = [open |-> FALSE, draft |-> slot]
    /\ UNCHANGED <<weekday, method, date, slot, completed, requests, undelivered, bannerVars>>

ConfirmPicker ==
    /\ dialog.open /\ slots(date)[dialog.draft] = "AVAILABLE"
    /\ slot' = dialog.draft
    /\ dialog' = [dialog EXCEPT !.open = FALSE]
    /\ UNCHANGED <<weekday, method, date, completed, requests, undelivered, bannerVars>>

-----------------------------------------------------------------------------
(* The banner *)

\* showBanner clears the timer of the banner before.
Armed == {Duration}

Show(n) == banner' = n /\ timers' = Armed

\* handleRequest and notify: the banner at once, and a notification that the
\* system may refuse to schedule.
Request ==
    /\ ~completed /\ ~dialog.open /\ slot # None /\ method # "none"
    /\ requests < MaxRequests
    /\ requests' = requests + 1
    /\ completed' = TRUE
    /\ Show(requests')
    /\ undelivered' \in {undelivered, undelivered \cup {requests'}}
    /\ UNCHANGED <<weekday, method, date, slot, dialog>>

\* The button that goes back to the choice; the dialog is mounted anew.
Change ==
    /\ completed
    /\ completed' = FALSE
    /\ dialog' = [open |-> FALSE, draft |-> slot]
    /\ UNCHANGED <<weekday, method, date, slot, requests, undelivered, bannerVars>>

\* The screen is left and opened again, some other day.
Reopen ==
    /\ ~dialog.open /\ date # None
    /\ weekday' = (weekday + 1) % 7
    /\ method' = "none" /\ date' = None /\ slot' = None /\ completed' = FALSE
    /\ dialog' = [open |-> FALSE, draft |-> None]
    /\ UNCHANGED <<requests, undelivered, bannerVars>>

\* addNotificationReceivedListener, in the order the system likes.
Delivered(n) ==
    /\ n \in undelivered
    /\ undelivered' = undelivered \ {n}
    /\ Show(n)
    /\ UNCHANGED <<weekday, screenVars, requests>>

\* A tick; a timer that ends dismisses the banner.
Tick ==
    /\ timers # {}
    /\ timers' = {t - 1 : t \in timers} \ {0}
    /\ IF 1 \in timers THEN banner' = None ELSE UNCHANGED banner
    /\ UNCHANGED <<weekday, screenVars, requests, undelivered>>

Next ==
    \/ \E d \in Days : PressDay(d)
    \/ \E m \in CONSULTATION_METHODS : ChooseMethod(m)
    \/ OpenPicker \/ ClosePicker \/ ConfirmPicker
    \/ \E i \in DOMAIN slots(date) : WheelStops(i) \/ TapRow(i)
    \/ Request \/ Change \/ Reopen \/ Tick
    \/ \E n \in 1..MaxRequests : Delivered(n)

Spec == Init /\ [][Next]_vars

-----------------------------------------------------------------------------
(* Properties *)

\* The button of the dialog is never one that does nothing: wherever the wheel
\* stops, the slot it proposes is free, and so is the slot that a request names.
ProposedIsFree ==
    /\ dialog.open => dialog.draft \in Available(date)
    /\ slot # None => slot \in Available(date)
=============================================================================
