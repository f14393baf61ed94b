--------------------------- MODULE BookingWizard ---------------------------
(***************************************************************************)
(* One visit to the public booking page                                    *)
(* (frontend/src/components/public/booking/booking-wizard.tsx): service,   *)
(* then professional, then day and time.                                   *)
(*                                                                         *)
(* A click and the effects of the render it causes are one step: React     *)
(* flushes the effects of a click before the next event.  The answers of   *)
(* the API arrive in any order and as late as they like.  What leaves the  *)
(* page fades out, and until it is gone its buttons work, with the values  *)
(* of the render that drew them.  Today is fixed when the page is mounted. *)
(* The page's list of bookings is BookingTabs.                             *)
(***************************************************************************)
EXTENDS Naturals, FiniteSets

CONSTANTS
    Services,
    Professionals,
    Unsure,         \* the choice "No estoy seguro"
    None,           \* null
    Days,           \* 1..n, in calendar order
    Today,
    Weekday,        \* [Days -> weekdays]
    Catalogs,       \* the catalogs a business may answer: [weekdays, exceptions]
    Times,          \* times of a day
    MaxFetches      \* bound: queries of slots in flight

\* null is no choice, no query and no step; a day is compared with the others.
BookingWizardAssumption ==
    /\ None \notin Services \cup Professionals \cup {Unsure}
    /\ None \notin {"service", "professional", "date"}
    /\ None \notin [service : Services \cup {None}, professional : Professionals \cup {None},
                    day : Days]
    /\ Days \subseteq Nat /\ Today \in Days

VARIABLES
    loading, catalog,
    step, serviceId, professionalId, selectedDate,
    slots,          \* [for, at]: the answer shown and, as history, its query
    slotsLoading, selectedSlot, slotsOpen,
    live,           \* the query whose answer the effect still wants, or None
    stale,          \* queries in flight whose effect was cleaned up
    fading,         \* what AnimatePresence keeps of the last render, or None
    pending         \* the booking the page was left with for Google, or None

page == <<loading, catalog, step, serviceId, professionalId, selectedDate,
          slots, slotsLoading, selectedSlot, slotsOpen>>
vars == <<page, live, stale, fading, pending>>

Choices(S) == S \cup {Unsure}

\* toApiId.
ToApiId(choice) == IF choice = Unsure THEN None ELSE choice

bookingReady == serviceId # None /\ professionalId # None

-----------------------------------------------------------------------------
(* The calendar *)

\* isExceptionClosed: the business's own exceptions and those of p.
ExceptionClosed(cat, day, p) ==
    \E e \in cat.exceptions : e.day = day /\ e.professional \in {None, ToApiId(p)}

\* isClosedDay; a catalog without schedules closes no weekday.
IsClosedDay(cat, day, p) ==
    \/ ExceptionClosed(cat, day, p)
    \/ cat.weekdays # {} /\ Weekday[day] \notin cat.weekdays

\* The days the calendar offers.
Selectable(day) == day >= Today /\ ~IsClosedDay(catalog, day, professionalId)

\* The effect that leaves a closed day: the first day from today on that is open.
JumpFrom(cat, day, p) ==
    LET open == {d \in Days : d >= Today /\ ~IsClosedDay(cat, d, p)}
    IN  IF cat.weekdays # {} /\ IsClosedDay(cat, day, p) /\ open # {}
        THEN CHOOSE d \in open : \A e \in open : d <= e
        ELSE day

-----------------------------------------------------------------------------
(* The slots of the chosen day *)

Query == [service : Services \cup {None}, professional : Professionals \cup {None},
          day : Days]

CurrentQuery == [service |-> ToApiId(serviceId), professional |-> ToApiId(professionalId),
                 day |-> selectedDate]

\* normalizePortalSlots: the remaining places of each listed time; beyond one
\* the page makes no difference.
Answer == UNION {[T -> {0, 1}] : T \in SUBSET Times}

NoAnswer == [for |-> None, at |-> [t \in {} |-> 0]]

\* What the effect depends on; slug never changes in a visit.
deps == <<serviceId, professionalId, selectedDate, slotsOpen>>

Cancelled == IF live = None THEN stale ELSE stale \cup {live}

\* The effect of a render: a change of its dependencies cancels the query in
\* flight; with the overlay open it asks again.  Closing it leaves slotsLoading.
SlotsEffect ==
    IF deps' = deps
    THEN UNCHANGED <<slotsLoading, live, stale>>
    ELSE /\ stale' = Cancelled
         /\ IF slotsOpen' /\ bookingReady'
            THEN live' = CurrentQuery' /\ slotsLoading' = TRUE
            ELSE live' = None /\ UNCHANGED slotsLoading

-----------------------------------------------------------------------------
(* What is on the screen *)

\* A step that fades out keeps the next one from being mounted (mode="wait").
Mounted(s) ==
    /\ ~loading /\ catalog # None
    /\ IF fading # None /\ fading.step # None THEN fading.step = s ELSE step = s

overlayShown == Mounted("date") /\ step = "date" /\ slotsOpen

\* The grid of times is drawn once nothing is loading and the day is open.
gridShown ==
    /\ overlayShown /\ ~slotsLoading
    /\ ~IsClosedDay(catalog, selectedDate, professionalId)

\* A render that takes step s, or the overlay alone, off the page.
Snapshot(s) ==
    [step |-> s, service |-> serviceId, professional |-> professionalId, day |-> selectedDate,
     slots |-> IF gridShown THEN slots ELSE NoAnswer,
     slot |-> IF overlayShown THEN selectedSlot ELSE None]

Fade ==
    fading' =
        IF step' # step
        THEN IF fading = None THEN Snapshot(step)
             ELSE IF fading.step = None THEN [fading EXCEPT !.step = step] ELSE fading
        ELSE IF slotsOpen /\ ~slotsOpen' /\ fading = None THEN Snapshot(None)
        ELSE IF slotsOpen' /\ fading # None /\ fading.step = None THEN None
        ELSE fading

\* Every handler of the page.
Handler ==
    /\ ~loading /\ catalog # None
    /\ Cardinality(Cancelled) <= MaxFetches
    /\ SlotsEffect
    /\ Fade
    /\ UNCHANGED <<loading, catalog>>

-----------------------------------------------------------------------------
(* Steps of the visit *)

Init ==
    /\ loading = TRUE /\ catalog = None
    /\ step = "service" /\ serviceId = None /\ professionalId = None
    /\ selectedDate = Today
    /\ slots = NoAnswer /\ selectedSlot = None
    /\ slotsOpen = FALSE /\ slotsLoading = FALSE
    /\ live = None /\ stale = {} /\ fading = None
    /\ pending = None

\* The page is mounted anew: nothing is left of the visit.
Mount ==
    /\ loading' = TRUE /\ catalog' = None
    /\ step' = "service" /\ serviceId' = None /\ professionalId' = None
    /\ selectedDate' = Today
    /\ slots' = NoAnswer /\ selectedSlot' = None
    /\ slotsOpen' = FALSE /\ slotsLoading' = FALSE
    /\ live' = None /\ stale' = {} /\ fading' = None

\* portalGetCatalog answers and the effect that leaves a closed day runs.
CatalogLoaded(cat) ==
    /\ loading /\ pending = None
    /\ loading' = FALSE
    /\ catalog' = cat
    /\ selectedDate' = JumpFrom(cat, selectedDate, professionalId)
    /\ UNCHANGED <<step, serviceId, professionalId, slots, slotsLoading, selectedSlot,
                   slotsOpen, live, stale, fading, pending>>

\* Not found, or no connection: the page offers nothing.
CatalogFails ==
    /\ loading /\ pending = None
    /\ loading' = FALSE
    /\ UNCHANGED <<catalog, step, serviceId, professionalId, selectedDate, slots,
                   slotsLoading, selectedSlot, slotsOpen, live, stale, fading, pending>>

ChooseService(s) ==
    /\ Mounted("service")
    /\ serviceId' = s
    /\ professionalId' = None
    /\ step' = "professional"
    /\ selectedSlot' = None
    /\ slots' = NoAnswer
    /\ slotsOpen' = FALSE
    /\ UNCHANGED <<selectedDate, pending>>
    /\ Handler

\* Broken: the choice is cleared and the step stays.
BackToServiceStays ==
    /\ Mounted("professional")
    /\ serviceId' = None
    /\ professionalId' = None
    /\ selectedSlot' = None
    /\ slotsOpen' = FALSE
    /\ UNCHANGED <<step, selectedDate, slots, pending>>
    /\ Handler

BackToService ==
    /\ Mounted("professional")
    /\ step' = "service"
    /\ professionalId' = None
    /\ selectedSlot' = None
    /\ slotsOpen' = FALSE
    /\ UNCHANGED <<serviceId, selectedDate, slots, pending>>
    /\ Handler

ChooseProfessional(p) ==
    /\ Mounted("professional")
    /\ professionalId' = p
    /\ step' = "date"
    /\ slotsOpen' = FALSE
    /\ selectedSlot' = None
    /\ UNCHANGED <<serviceId, selectedDate, slots, pending>>
    /\ Handler

BackToProfessional ==
    /\ Mounted("date")
    /\ step' = "professional"
    /\ slotsOpen' = FALSE
    /\ selectedSlot' = None
    /\ UNCHANGED <<serviceId, professionalId, selectedDate, slots, pending>>
    /\ Handler

\* Broken: another day keeps the time chosen before.
SelectDayKeepsTime(day) ==
    /\ Mounted("date") /\ bookingReady
    /\ Selectable(day)
    /\ selectedDate' = day
    /\ slotsOpen' = TRUE
    /\ UNCHANGED <<step, serviceId, professionalId, slots, selectedSlot, pending>>
    /\ Handler

\* onSelect: also with the overlay open, since the calendar keeps the focus
\* order under it.
SelectDay(day) ==
    /\ Mounted("date") /\ bookingReady
    /\ Selectable(day)
    /\ selectedDate' = day
    /\ selectedSlot' = None
    /\ slotsOpen' = TRUE
    /\ UNCHANGED <<step, serviceId, professionalId, slots, pending>>
    /\ Handler

CloseSlots ==
    /\ Mounted("date") /\ slotsOpen
    /\ slotsOpen' = FALSE
    /\ selectedSlot' = None
    /\ UNCHANGED <<step, serviceId, professionalId, selectedDate, slots, pending>>
    /\ Handler

SelectSlot(t) ==
    /\ gridShown
    /\ t \in DOMAIN slots.at
    /\ slots.at[t] > 0
    /\ selectedSlot' = [for |-> slots.for, time |-> t]
    /\ UNCHANGED <<loading, catalog, step, serviceId, professionalId, selectedDate, slots,
                   slotsLoading, slotsOpen, live, stale, fading, pending>>

\* confirmWithGoogle: the booking goes to sessionStorage and the page is left;
\* its button is under the grid as long as the overlay is open.
ConfirmWithGoogle ==
    /\ overlayShown
    /\ bookingReady /\ selectedSlot # None
    /\ pending' = [service |-> ToApiId(serviceId), professional |-> ToApiId(professionalId),
                   startsAt |-> selectedSlot, day |-> selectedDate]
    /\ Mount

\* A time clicked in the overlay that fades out.
SelectFadingSlot(t) ==
    /\ fading # None
    /\ t \in DOMAIN fading.slots.at
    /\ fading.slots.at[t] > 0
    /\ selectedSlot' = [for |-> fading.slots.for, time |-> t]
    /\ UNCHANGED <<loading, catalog, step, serviceId, professionalId, selectedDate, slots,
                   slotsLoading, slotsOpen, live, stale, fading, pending>>

\* Its confirm button takes the booking it was drawn with.
ConfirmFading ==
    /\ fading # None
    /\ fading.slot # None
    /\ pending' = [service |-> ToApiId(fading.service),
                   professional |-> ToApiId(fading.professional), startsAt |-> fading.slot,
                   day |-> fading.day]
    /\ Mount

FadeEnds ==
    /\ fading # None
    /\ fading' = None
    /\ UNCHANGED <<page, live, stale, pending>>

-----------------------------------------------------------------------------
(* Answers of the slot queries *)

SlotsAnswered(a) ==
    /\ live # None
    /\ slots' = [for |-> live, at |-> a]
    /\ slotsLoading' = FALSE
    /\ live' = None
    /\ UNCHANGED <<loading, catalog, step, serviceId, professionalId, selectedDate,
                   selectedSlot, slotsOpen, stale, fading, pending>>

SlotsFail ==
    /\ live # None
    /\ slots' = NoAnswer
    /\ slotsLoading' = FALSE
    /\ live' = None
    /\ UNCHANGED <<loading, catalog, step, serviceId, professionalId, selectedDate,
                   selectedSlot, slotsOpen, stale, fading, pending>>

\* Broken: a cancelled query still writes its answer.
StaleApplied(q, a) ==
    /\ q \in stale
    /\ stale' = stale \ {q}
    /\ slots' = [for |-> q, at |-> a]
    /\ slotsLoading' = FALSE
    /\ UNCHANGED <<loading, catalog, step, serviceId, professionalId, selectedDate,
                   selectedSlot, slotsOpen, live, fading, pending>>

\* The answer of a cancelled query: nothing of the page changes.
StaleAnswered(q, a) ==
    /\ q \in stale
    /\ stale' = stale \ {q}
    /\ UNCHANGED <<page, live, fading, pending>>

Reload == ~loading /\ Mount /\ UNCHANGED pending

\* Back from Google; what became of the booking is the matter of BookingTabs.
Return == pending # None /\ pending' = None /\ Mount

Next ==
    \/ Reload
    \/ Return
    \/ \E cat \in Catalogs : CatalogLoaded(cat)
    \/ CatalogFails
    \/ \E s \in Choices(Services) : ChooseService(s)
    \/ \E p \in Choices(Professionals) : ChooseProfessional(p)
    \/ BackToService
    \/ BackToProfessional
    \/ \E day \in Days : SelectDay(day)
    \/ CloseSlots
    \/ \E t \in Times : SelectSlot(t)
    \/ ConfirmWithGoogle
    \/ \E t \in Times : SelectFadingSlot(t)
    \/ ConfirmFading
    \/ FadeEnds
    \/ \E a \in Answer : SlotsAnswered(a)
    \/ SlotsFail
    \/ \E q \in stale, a \in Answer : StaleAnswered(q, a)

Spec == Init /\ [][Next]_vars

-----------------------------------------------------------------------------
(* Properties *)

\* A start time, and as history the query whose answer offered it.
Slot == [for : Query, time : Times]

\* Type correctness; in particular no handler leaves a choice behind that its
\* step needs.
TypeOK ==
    /\ catalog \in Catalogs \cup {None}
    /\ loading => catalog = None
    /\ step \in {"service", "professional", "date"}
    /\ serviceId \in Choices(Services) \cup {None}
    /\ professionalId \in Choices(Professionals) \cup {None}
    /\ step = "date" => bookingReady
    /\ step # "service" => serviceId # None
    /\ selectedDate \in Days /\ selectedDate >= Today
    /\ slots = NoAnswer \/ (slots.for \in Query /\ slots.at \in Answer)
    /\ {slotsLoading, slotsOpen} \subseteq BOOLEAN
    /\ selectedSlot \in Slot \cup {None}
    /\ live \in Query \cup {None} /\ stale \subseteq Query
    /\ fading = None \/ fading.step \in {"service", "professional", "date", None}

\* The times the customer can choose are the last answer for exactly the
\* service, professional and day on the screen, whatever answers arrive late,
\* and a chosen time is one of them; the overlay says it is searching exactly
\* while a query that will end it is in flight, in whatever order it was closed
\* and opened (the effect of booking-wizard.tsx:203-235).
GridIsForTheChoice ==
    /\ gridShown =>
          /\ slots # NoAnswer => slots.for = CurrentQuery
          /\ selectedSlot # None => /\ selectedSlot.for = CurrentQuery
                                    /\ selectedSlot.time \in DOMAIN slots.at
    /\ slotsOpen => (slotsLoading <=> live # None)

\* What is taken to Google was offered with room for that very service and
\* professional and on the day the screen showed, also when the button clicked
\* was fading out (confirmWithGoogle).
ConfirmWasOffered ==
    pending # None => pending.startsAt.for = [service |-> pending.service,
                                              professional |-> pending.professional,
                                              day |-> pending.day]

=============================================================================
