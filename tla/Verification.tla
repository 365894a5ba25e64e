---------------------------- MODULE Verification ----------------------------
(***************************************************************************)
(* The forms between the first start of the app and its set-up             *)
(* (features/onboarding): the introduction, the identity form with its     *)
(* carrier and terms sheets, and the choice of a PIN on a shuffled keypad. *)
(*                                                                         *)
(* Text is what the form tells apart: a number is whole or not, a name is  *)
(* blank or not.  A sheet covers the form, but the field that has the      *)
(* focus keeps the keyboard, so that it can be edited below the sheet.     *)
(***************************************************************************)
EXTENDS Naturals, Sequences, FiniteSets

CONSTANTS
    Pages,      \* pages of the introduction
    Carriers,   \* telephone companies
    Digits,     \* the keys of the keypad, in order
    PinLength,  \* PIN_LENGTH
    MaxTaps     \* bound on the digits that are tapped before the next render

Marketing == {"marketingCollection", "marketingPush", "marketingSms", "marketingCall"}
Mandatory == {"membership", "identity"}
agreementKeys == Mandatory \cup {"marketing"} \cup Marketing

VARIABLES
    screen,     \* which of the screens is mounted
    page,       \* page of the introduction, from 1
    form,       \* phone, front, back: "partial" or "whole"; name; carrier
    focus,      \* the field with the keyboard
    focusTimer, \* the field that a timer is about to focus
    sheets,     \* the sheets that are open
    agreed,     \* agreements that are checked
    pin         \* [phase, first, typed, error, keypad]

vars == <<screen, page, form, focus, focusTimer, sheets, agreed, pin>>
formVars == <<form, focus, focusTimer, sheets, agreed>>

Nothing == "none"
Blank == [phone |-> "partial", carrier |-> Nothing, front |-> "partial",
          back |-> "partial", name |-> "partial"]

-----------------------------------------------------------------------------
(* The keypad *)

Swapped(s, i, j) == [s EXCEPT ![i] = s[j], ![j] = s[i]]

\* One turn of the loop of shuffledDigits: the place i is exchanged with one
\* at or before it.
Exchanged(keypads, i) == {Swapped(s, i, j) : s \in keypads, j \in 1..i}

\* What the loop can have made of the digits after the turn of the place i.
Shuffled[i \in 1..Len(Digits)] ==
    Exchanged(IF i = Len(Digits) THEN {Digits} ELSE Shuffled[i + 1], i)
Shuffles == Shuffled[2]

NewPin(keypad) == [phase |-> "create", first |-> <<>>, typed |-> <<>>,
                   error |-> FALSE, keypad |-> keypad]

Init ==
    /\ screen = "introduction" /\ page = 1
    /\ form = Blank /\ focus = Nothing /\ focusTimer = Nothing
    /\ sheets = {} /\ agreed = {}
    /\ pin = NewPin(Digits)

-----------------------------------------------------------------------------
(* The introduction *)

\* onScrollEnd: the nearest page; a list that is pulled past its ends stays there.
ScrollEnds(offset) ==
    /\ screen = "introduction"
    /\ page' = IF offset < 1 THEN 1 ELSE IF offset > Pages THEN Pages ELSE offset
    /\ UNCHANGED <<screen, formVars, pin>>

\* The button of every page.
StartForm ==
    /\ screen = "introduction"
    /\ screen' = "form"
    /\ UNCHANGED <<page, formVars, pin>>

-----------------------------------------------------------------------------
(* The identity form *)

ResidentComplete(f) == f.front = "whole" /\ f.back = "whole"
CanContinue == ResidentComplete(form) /\ form.name = "whole"

\* Fields appear as those before them are filled in, and go away with them.
Fields(f) == {"phone"} \cup (IF f.carrier # Nothing THEN {"front", "back"} ELSE {})
                       \cup (IF ResidentComplete(f) THEN {"name"} ELSE {})

\* A field is tapped: it must show, and no sheet may cover it.
Tap(field) ==
    /\ screen = "form" /\ sheets = {} /\ field \in Fields(form)
    /\ focus' = field
    /\ UNCHANGED <<screen, page, form, focusTimer, sheets, agreed, pin>>

\* The field with the focus is edited.  onPhoneChange opens and closes the
\* sheet of carriers; the sixth digit of the front part moves the focus.  The
\* name field is focused when it appears, and once more by a timer.
Edit(value) ==
    LET edited == [form EXCEPT ![focus] = value] IN
    /\ screen = "form" /\ focus # Nothing
    /\ form' = edited
    /\ sheets' = IF focus # "phone" THEN sheets
                 ELSE IF value = "whole" THEN sheets \cup {"carrier"}
                 ELSE sheets \ {"carrier"}
    /\ focusTimer' = IF ResidentComplete(edited)
                     THEN (IF ResidentComplete(form) THEN focusTimer ELSE "name")
                     ELSE IF focusTimer = "name" THEN Nothing ELSE focusTimer
    /\ focus' = CASE ResidentComplete(edited) /\ ~ResidentComplete(form) -> "name"
                  [] focus = "phone" /\ value = "whole" -> Nothing
                  [] focus = "front" /\ value = "whole" -> "back"
                  [] OTHER                              -> focus
    /\ UNCHANGED <<screen, page, agreed, pin>>

\* The two effects focus a field some time after a choice.
FocusFires ==
    /\ screen = "form" /\ focusTimer # Nothing
    /\ focus' = focusTimer /\ focusTimer' = Nothing
    /\ UNCHANGED <<screen, page, form, sheets, agreed, pin>>

OpenCarriers ==
    /\ screen = "form" /\ sheets = {} /\ form.phone = "whole"
    /\ sheets' = {"carrier"} /\ focus' = Nothing
    /\ UNCHANGED <<screen, page, form, focusTimer, agreed, pin>>

\* The first choice shows the resident number and focuses it; the effect runs
\* again only for another carrier.
SelectCarrier(c) ==
    /\ screen = "form" /\ "carrier" \in sheets
    /\ form' = [form EXCEPT !.carrier = c]
    /\ sheets' = sheets \ {"carrier"}
    /\ focusTimer' = IF c # form.carrier THEN "front" ELSE focusTimer
    /\ focus' = IF form.carrier = Nothing THEN "front" ELSE focus
    /\ UNCHANGED <<screen, page, agreed, pin>>

\* The back button of Android reaches the sheet that was opened last; when
\* both are open either can have been.
DismissSheet(sheet) ==
    /\ screen = "form" /\ sheet \in sheets
    /\ sheets' = sheets \ {sheet}
    /\ UNCHANGED <<screen, page, form, focus, focusTimer, agreed, pin>>

OpenTerms ==
    /\ screen = "form" /\ sheets = {} /\ CanContinue
    /\ sheets' = {"terms"}
    /\ UNCHANGED <<screen, page, form, focus, focusTimer, agreed, pin>>

-----------------------------------------------------------------------------
(* The agreements *)

Flipped(key) == IF key \in agreed THEN agreed \ {key} ELSE agreed \cup {key}

\* Mutant: a part of the marketing consent leaves the consent to all of it alone.
ToggledAlone(key) ==
    IF key # "marketing" THEN Flipped(key)
    ELSE IF key \in agreed THEN agreed \ ({key} \cup Marketing) ELSE agreed \cup {key} \cup Marketing

\* toggleAgreement: marketing takes its parts along and follows from them.
Toggled(key) ==
    CASE key = "marketing" ->
           IF key \in agreed THEN agreed \ ({key} \cup Marketing)
                             ELSE agreed \cup {key} \cup Marketing
      [] key \in Marketing ->
           IF Marketing \subseteq Flipped(key) THEN Flipped(key) \cup {"marketing"}
                                               ELSE Flipped(key) \ {"marketing"}
      [] OTHER -> Flipped(key)

Toggle(key) ==
    /\ screen = "form" /\ "terms" \in sheets
    /\ agreed' = Toggled(key)
    /\ UNCHANGED <<screen, page, form, focus, focusTimer, sheets, pin>>

ToggleAll ==
    /\ screen = "form" /\ "terms" \in sheets
    /\ agreed' = IF agreed = agreementKeys THEN {} ELSE agreementKeys
    /\ UNCHANGED <<screen, page, form, focus, focusTimer, sheets, pin>>

\* The form is not rendered again: what it holds is dropped.
Agree ==
    /\ screen = "form" /\ "terms" \in sheets
    /\ Mandatory \subseteq agreed
    /\ screen' = "pin"
    /\ \E keypad \in Shuffles : pin' = NewPin(keypad)
    /\ form' = Blank /\ focus' = Nothing /\ focusTimer' = Nothing /\ sheets' = {}
    /\ UNCHANGED <<page, agreed>>

-----------------------------------------------------------------------------
(* The PIN *)

\* What the effect makes of a state: a whole PIN is set aside, confirmed or
\* refused before the keypad is shown again.
Settled(p, keypad) ==
    CASE Len(p.typed) # PinLength -> p
      [] p.phase = "create" -> [phase |-> "confirm", first |-> p.typed, typed |-> <<>>,
                                error |-> FALSE, keypad |-> keypad]
      [] p.phase = "confirm" /\ p.typed = p.first -> p
      [] OTHER -> [p EXCEPT !.typed = <<>>, !.error = TRUE, !.keypad = keypad]

Confirmed(p) == p.phase = "confirm" /\ p.typed = p.first

\* The next render, with the effect that follows it; onComplete ends the screen.
Renders(p) ==
    /\ \E keypad \in Shuffles : pin' = Settled(p, keypad)
    /\ screen' = IF Confirmed(pin') THEN "complete" ELSE "pin"

\* The digits of the places that are tapped before the next render: each of them
\* tests the length that the last render had, so that together they can make the
\* PIN longer than it may be.  It then waits for RemoveDigit.
PressDigits(places) ==
    /\ screen = "pin" /\ Len(pin.typed) < PinLength
    /\ Renders([pin EXCEPT !.typed = @ \o [i \in DOMAIN places |-> pin.keypad[places[i]]],
                           !.error = FALSE])
    /\ UNCHANGED <<page, formVars>>

RemoveDigit ==
    /\ screen = "pin"
    /\ Renders([pin EXCEPT !.error = FALSE,
                           !.typed = SubSeq(@, 1, IF Len(@) = 0 THEN 0 ELSE Len(@) - 1)])
    /\ UNCHANGED <<page, formVars>>

Next ==
    \/ \E offset \in 0..(Pages + 1) : ScrollEnds(offset)
    \/ StartForm \/ FocusFires \/ OpenCarriers \/ OpenTerms \/ ToggleAll \/ Agree
    \/ \E field \in {"phone", "front", "back", "name"} : Tap(field)
    \/ \E value \in {"partial", "whole"} : Edit(value)
    \/ \E c \in Carriers : SelectCarrier(c)
    \/ \E sheet \in {"carrier", "terms"} : DismissSheet(sheet)
    \/ \E key \in agreementKeys : Toggle(key)
    \/ \E n \in 1..MaxTaps : \E places \in [1..n -> 1..Len(Digits)] : PressDigits(places)
    \/ RemoveDigit

Spec == Init /\ [][Next]_vars

-----------------------------------------------------------------------------
(* Properties *)

\* However the boxes were ticked, consent to marketing as a whole is consent
\* to each of its parts and the other way round, and the PIN is only reached
\* with the mandatory agreements and on a keypad that has every digit.
ConsentsAgree ==
    /\ "marketing" \in agreed <=> Marketing \subseteq agreed
    /\ screen \in {"pin", "complete"} =>
          /\ Mandatory \subseteq agreed
          /\ {pin.keypad[i] : i \in DOMAIN pin.keypad} = {Digits[i] : i \in DOMAIN Digits}
=============================================================================
