-------------------------- MODULE InternalBooking --------------------------
(***************************************************************************)
(* The modal with which the staff book for a customer                      *)
(* (frontend/src/components/app/citas/internal-booking-modal.tsx): service,*)
(* professional, day and time are all on one form, and confirming makes    *)
(* the customer first and the appointment then, in two requests.           *)
(*                                                                         *)
(* The component stays mounted while it is closed: what is in flight goes  *)
(* on, and creating stays what it is.  A click and the effects of its      *)
(* render are one step.  The answer of a query whose effect was cleaned up *)
(* changes nothing, so a cancelled query is no longer kept.                *)
(***************************************************************************)
EXTENDS Naturals, FiniteSets

CONSTANTS
    Services, Professionals, None,
    Days,           \* 1..n, of which 1 is today
    Times,
    Catalogs,       \* [weekly: has schedules, closed: [Professionals + None -> sets of days]]
    MaxDrafts       \* bound: how often the modal is opened

InternalBookingAssumption == Days \subseteq Nat /\ 1 \in Days /\ MaxDrafts \in Nat

VARIABLES
    open, catalog, loadingCatalog,
    serviceId, professionalId, selectedDate,
    slots,          \* [for, free]: the times with a place, and the query they answer
    slotsLoading, slotsOpen, selectedSlot,
    named,          \* first and last name are filled in
    creating,
    catalogs,       \* catalogs asked for and not answered
    live,           \* the query of the effect, or None
    draft,          \* history: which opening of the modal this is
    call,           \* handleConfirm: [pc, draft, for, at]
    clients,        \* the server: customers made by this modal
    booked,         \* the server: the appointments of each draft
    failed,         \* history: attempts that made a customer and told of an error
    unheard         \* history: drafts with an appointment whose answer was lost

form == <<serviceId, professionalId, selectedDate, slotsOpen, selectedSlot, named>>
grid == <<slots, slotsLoading, live>>
shell == <<open, catalog, loadingCatalog, catalogs, draft>>
server == <<clients, booked, failed, unheard>>
vars == <<form, grid, shell, server, creating, call>>

NoCall == [pc |-> "idle", draft |-> 0, for |-> None, at |-> None]

NoSlots == [for |-> None, free |-> {}]

ready == serviceId # None /\ professionalId # None

CurrentQuery == <<serviceId, professionalId, selectedDate>>

\* isClosedDay: the whole business, or the one professional.
IsClosedDay(day) ==
    \/ day \in catalog.closed[None]
    \/ professionalId # None /\ day \in catalog.closed[professionalId]

-----------------------------------------------------------------------------
(* Effects *)

\* The effect on the catalog: a catalog with schedules moves the form from a
\* closed day to the first open one.
Jump(cat) ==
    LET closed == cat.closed[None] \cup
                  (IF professionalId = None THEN {} ELSE cat.closed[professionalId])
    IN  IF cat.weekly /\ selectedDate \in closed /\ Days \ closed # {}
        THEN CHOOSE d \in Days \ closed : \A e \in Days \ closed : d <= e
        ELSE selectedDate

\* The effect on the query; picked is the time the event itself chose.  A query
\* no longer wanted leaves slotsLoading as it is.
AskSlots(picked) ==
    IF <<open', slotsOpen', CurrentQuery'>> = <<open, slotsOpen, CurrentQuery>>
    THEN selectedSlot' = picked /\ UNCHANGED <<slotsLoading, live>>
    ELSE IF open' /\ slotsOpen' /\ ready'
         THEN selectedSlot' = None /\ live' = CurrentQuery' /\ slotsLoading' = TRUE
         ELSE selectedSlot' = picked /\ live' = None /\ UNCHANGED slotsLoading

-----------------------------------------------------------------------------
(* The shell *)

\* The effect on the query still sees the form as it was left; the render that clears
\* the form cancels what it asked, and slotsLoading stays.
Open ==
    /\ ~open /\ draft < MaxDrafts
    /\ open' = TRUE /\ draft' = draft + 1
    /\ loadingCatalog' = TRUE /\ catalogs' = catalogs + 1
    /\ serviceId' = None /\ professionalId' = None /\ selectedDate' = 1
    /\ slotsOpen' = FALSE /\ named' = FALSE /\ slots' = NoSlots
    /\ selectedSlot' = None /\ live' = None
    /\ slotsLoading' = (slotsLoading \/ (slotsOpen /\ ready))
    /\ UNCHANGED <<catalog, server, creating, call>>

\* The backdrop or Cerrar, whatever is under way.
Close ==
    /\ open
    /\ open' = FALSE
    /\ UNCHANGED <<serviceId, professionalId, selectedDate, slotsOpen, named, slots, catalog,
                   loadingCatalog, catalogs, draft, server, creating, call>>
    /\ AskSlots(selectedSlot)

\* No answer is cancelled: the one of an earlier opening counts as well.
CatalogLoaded ==
    /\ catalogs > 0
    /\ catalogs' = catalogs - 1
    /\ loadingCatalog' = FALSE
    /\ \E cat \in Catalogs :
          /\ catalog' = cat
          /\ selectedDate' = Jump(cat)
    /\ UNCHANGED <<open, draft, serviceId, professionalId, slotsOpen, named, slots, server,
                   creating, call>>
    /\ AskSlots(IF selectedDate' = selectedDate THEN selectedSlot ELSE None)

CatalogFails ==
    /\ catalogs > 0
    /\ catalogs' = catalogs - 1
    /\ loadingCatalog' = FALSE
    /\ catalog' = None
    /\ UNCHANGED <<open, draft, form, grid, server, creating, call>>

-----------------------------------------------------------------------------
(* The form *)

\* What every handler of the form leaves alone.
OnForm ==
    /\ open /\ ~loadingCatalog /\ catalog # None
    /\ UNCHANGED <<shell, server>>

ChooseService(s) ==
    /\ OnForm
    /\ serviceId' = s /\ professionalId' = None
    /\ slots' = NoSlots /\ slotsOpen' = FALSE
    /\ UNCHANGED <<selectedDate, named, creating, call>>
    /\ AskSlots(None)

\* Broken: the time chosen with the other professional stays.
ChooseProfessionalKeepsTime(p) ==
    /\ OnForm
    /\ serviceId # None
    /\ professionalId' = p /\ slotsOpen' = FALSE
    /\ UNCHANGED <<serviceId, selectedDate, named, slots, creating, call>>
    /\ AskSlots(selectedSlot)

ChooseProfessional(p) ==
    /\ OnForm
    /\ serviceId # None
    /\ professionalId' = p /\ slotsOpen' = FALSE
    /\ UNCHANGED <<serviceId, selectedDate, named, slots, creating, call>>
    /\ AskSlots(None)

\* The days before today and the closed ones are disabled.
SelectDay(d) ==
    /\ OnForm
    /\ ready /\ ~IsClosedDay(d)
    /\ selectedDate' = d /\ slotsOpen' = TRUE
    /\ UNCHANGED <<serviceId, professionalId, named, slots, creating, call>>
    /\ AskSlots(None)

SlotsAnswered(free) ==
    /\ live # None
    /\ slots' = [for |-> live, free |-> free]
    /\ live' = None /\ slotsLoading' = FALSE
    /\ UNCHANGED <<form, shell, server, creating, call>>

SlotsFail ==
    /\ live # None
    /\ slots' = NoSlots
    /\ live' = None /\ slotsLoading' = FALSE
    /\ UNCHANGED <<form, shell, server, creating, call>>

SelectSlot(t) ==
    /\ OnForm
    /\ slotsOpen /\ ready /\ ~slotsLoading
    /\ t \in slots.free
    /\ selectedSlot' = [for |-> slots.for, at |-> t]
    /\ UNCHANGED <<serviceId, professionalId, selectedDate, slotsOpen, named, grid, creating, call>>

FillIn ==
    /\ OnForm
    /\ named' = ~named
    /\ UNCHANGED <<serviceId, professionalId, selectedDate, slotsOpen, selectedSlot, grid,
                   creating, call>>

-----------------------------------------------------------------------------
(* handleConfirm *)

Submit ==
    /\ OnForm
    /\ ready /\ selectedSlot # None /\ named
    /\ creating' = TRUE
    /\ call' = [pc |-> "client", draft |-> draft, for |-> CurrentQuery, at |-> selectedSlot]
    /\ UNCHANGED <<form, grid>>

\* Broken: the button stays enabled while the handler runs.
ConfirmWhileCreating == Submit

\* The button is disabled while creating.
Confirm == ~creating /\ Submit

Served == UNCHANGED <<form, grid, shell, creating>>

MakeClient ==
    /\ call.pc = "client"
    /\ clients' = clients + 1
    /\ call' = [call EXCEPT !.pc = "made"]
    /\ Served /\ UNCHANGED <<booked, failed, unheard>>

\* The second request of the same handler.
MakeAppointment ==
    /\ call.pc = "made"
    /\ booked' = [booked EXCEPT ![call.draft] = @ + 1]
    /\ call' = [call EXCEPT !.pc = "booked"]
    /\ Served /\ UNCHANGED <<clients, failed, unheard>>

\* onCreated and onClose: the modal is closed, whichever draft it holds by now.
Booked ==
    /\ call.pc = "booked"
    /\ call' = NoCall /\ creating' = FALSE
    /\ open' = FALSE
    /\ UNCHANGED <<serviceId, professionalId, selectedDate, slotsOpen, named, slots, catalog,
                   loadingCatalog, catalogs, draft, server>>
    /\ AskSlots(selectedSlot)

\* Either request refused or unanswered; the form stays as it was, and the next
\* attempt makes the customer again.
ConfirmFails ==
    /\ call.pc # "idle"
    /\ failed' = IF call.pc = "client" THEN failed ELSE failed + 1
    /\ unheard' = IF call.pc = "booked" THEN unheard \cup {call.draft} ELSE unheard
    /\ call' = NoCall /\ creating' = FALSE
    /\ UNCHANGED <<form, grid, shell, clients, booked>>

Init ==
    /\ open = FALSE /\ catalog = None /\ loadingCatalog = FALSE /\ catalogs = 0
    /\ serviceId = None /\ professionalId = None /\ selectedDate = 1
    /\ slots = NoSlots /\ slotsLoading = FALSE /\ slotsOpen = FALSE /\ selectedSlot = None
    /\ named = FALSE /\ creating = FALSE /\ live = None
    /\ draft = 0 /\ call = NoCall
    /\ clients = 0 /\ booked = [d \in 1..MaxDrafts |-> 0] /\ failed = 0 /\ unheard = {}

\* Bound: attempts that failed after a customer was made.
Room == failed < MaxDrafts

Next ==
    \/ Open \/ Close \/ CatalogLoaded \/ CatalogFails
    \/ \E s \in Services : ChooseService(s)
    \/ \E p \in Professionals : ChooseProfessional(p)
    \/ \E d \in Days : SelectDay(d)
    \/ \E free \in SUBSET Times : SlotsAnswered(free)
    \/ SlotsFail
    \/ \E t \in Times : SelectSlot(t)
    \/ FillIn
    \/ Room /\ Confirm
    \/ MakeClient \/ MakeAppointment \/ Booked \/ ConfirmFails

Spec == Init /\ [][Next]_vars

-----------------------------------------------------------------------------
(* Properties *)

Queries == Services \X Professionals \X Days

\* Type correctness; creating lasts as long as the handler runs.
TypeOK ==
    /\ open \in BOOLEAN /\ loadingCatalog \in BOOLEAN /\ slotsLoading \in BOOLEAN
    /\ slotsOpen \in BOOLEAN /\ named \in BOOLEAN
    /\ catalog \in Catalogs \cup {None}
    /\ serviceId \in Services \cup {None} /\ professionalId \in Professionals \cup {None}
    /\ selectedDate \in Days
    /\ slots.for \in Queries \cup {None} /\ slots.free \subseteq Times
    /\ live \in Queries \cup {None}
    /\ booked \in [1..MaxDrafts -> Nat]
    /\ creating <=> call.pc # "idle"

\* The time in the form was offered for the service, the professional and the
\* day in the form, and so was the one that is sent, though the three can be
\* changed in any order and the catalog may move the day
\* (internal-booking-modal.tsx:132-179, 292-298, 344-348, 391-398).
TimeIsOfTheChoice ==
    /\ selectedSlot # None => selectedSlot.for = CurrentQuery
    /\ call.pc # "idle" => call.at.for = call.for

\* How many appointments a list of them by draft has.
TotalOf(b) ==
    LET total[d \in 0..MaxDrafts] == IF d = 0 THEN 0 ELSE total[d - 1] + b[d]
    IN  total[MaxDrafts]

\* One opening of the modal books once, unless the answer of an appointment that
\* was made did not arrive, however often it is closed, opened again and tried
\* again while a request is under way; and a customer nobody has an appointment
\* for was made by an attempt that failed or still runs: the two requests are not
\* one transaction (internal-booking-modal.tsx:190-229).
OneBookingPerDraft ==
    /\ \A d \in 1..MaxDrafts : booked[d] > 1 => d \in unheard
    /\ clients - TotalOf(booked) <= failed + (IF call.pc = "made" THEN 1 ELSE 0)

=============================================================================
