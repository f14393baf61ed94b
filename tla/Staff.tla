------------------------------- MODULE Staff -------------------------------
(***************************************************************************)
(* The pages of the staff's panel, as one specification: each initial state*)
(* picks a page, and only that page moves. The days of the agenda, its     *)
(* configuration, the list of appointments, the modal that books one, and  *)
(* the list of customers. A constant with the name of a page's constant is *)
(* that constant.                                                          *)
(***************************************************************************)
EXTENDS Integers, FiniteSets

CONSTANTS
    \* the days of the agenda
    Days, Appts, DayStatuses, None, Fetches, DayActs,
    \* its configuration
    Weekdays, BlockTimes, DefaultTime, Dates, Caps, PageSize, InitialHours, MaxMade,
    MaxEdits,
    \* the list of appointments
    Statuses, Requests, MaxActs,
    \* the modal
    Services, Professionals, BookingDays, Times, Catalogs, MaxDrafts,
    \* the list of customers
    Texts, Blank, Sorts, Clients, Names, Matches

VARIABLES
    part, dayOf, status, qry, list, loading, marks, fetch, month, modal, act, stale,
    acts, hours, cap, exceptions, page, save, add, drop, seen, touched, gone,
    crossed, others, fits, count, filter, shown, loads, last, marked, calls,
    excused, open, catalog, loadingCatalog, serviceId, professionalId, selectedDate,
    slots, slotsLoading, slotsOpen, selectedSlot, named, creating, catalogs, live,
    draft, call, clients, booked, failed, unheard, typed, applied, sort, timer,
    suggested, listbox, skip, wait, searches, selected, history, fetching,
    histories, asked, left, late

-----------------------------------------------------------------------------

Agenda == INSTANCE AgendaDays WITH Statuses <- DayStatuses, MaxActs <- DayActs

Config == INSTANCE AgendaConfig WITH Days <- Weekdays, Times <- BlockTimes

Citas == INSTANCE AppointmentsPage

Modal == INSTANCE InternalBooking WITH Days <- BookingDays

Clientes == INSTANCE ClientsPage

\* What the pages assume of their constants.
ASSUME StaffAssumption ==
    /\ Agenda!AgendaDaysAssumption
    /\ Config!AgendaConfigAssumption
    /\ Citas!AppointmentsPageAssumption
    /\ Modal!InternalBookingAssumption
    /\ Clientes!ClientsPageAssumption

NotAgenda ==
    <<hours, cap, exceptions, page, save, add, drop, seen, touched, gone, crossed,
      others, fits, count, filter, shown, loads, last, marked, calls, excused, open,
      catalog, loadingCatalog, serviceId, professionalId, selectedDate, slots,
      slotsLoading, slotsOpen, selectedSlot, named, creating, catalogs, live, draft,
      call, clients, booked, failed, unheard, typed, applied, sort, timer,
      suggested, listbox, skip, wait, searches, selected, history, fetching,
      histories, asked, left, late>>

NotConfig ==
    <<dayOf, status, qry, list, loading, marks, fetch, month, modal, act, stale,
      acts, filter, shown, loads, last, marked, calls, excused, open, catalog,
      loadingCatalog, serviceId, professionalId, selectedDate, slots, slotsLoading,
      slotsOpen, selectedSlot, named, creating, catalogs, live, draft, call,
      clients, booked, failed, unheard, typed, applied, sort, timer, suggested,
      listbox, skip, wait, searches, selected, history, fetching, histories, asked,
      left, late>>

NotCitas ==
    <<dayOf, qry, list, marks, fetch, month, modal, act, stale, hours, cap,
      exceptions, save, add, drop, seen, touched, gone, crossed, others, fits,
      count, open, catalog, loadingCatalog, serviceId, professionalId, selectedDate,
      slots, slotsLoading, slotsOpen, selectedSlot, named, creating, catalogs, live,
      draft, call, clients, booked, failed, unheard, typed, applied, sort, timer,
      suggested, listbox, skip, wait, searches, selected, history, fetching,
      histories, asked, left, late>>

NotModal ==
    <<dayOf, status, qry, list, loading, marks, fetch, month, modal, act, stale,
      acts, hours, cap, exceptions, page, save, add, drop, seen, touched, gone,
      crossed, others, fits, count, filter, shown, loads, last, marked, calls,
      excused, typed, applied, sort, timer, suggested, listbox, skip, wait,
      searches, selected, history, fetching, histories, asked, left, late>>

NotClientes ==
    <<dayOf, status, qry, list, marks, fetch, month, modal, act, stale, hours, cap,
      exceptions, save, add, drop, seen, touched, gone, crossed, others, fits,
      count, filter, last, marked, calls, excused, open, catalog, loadingCatalog,
      serviceId, professionalId, selectedDate, slots, slotsLoading, slotsOpen,
      selectedSlot, named, creating, catalogs, live, draft, call, clients, booked,
      failed, unheard>>

StaffVars ==
    <<part, dayOf, status, qry, list, loading, marks, fetch, month, modal, act,
      stale, acts, hours, cap, exceptions, page, save, add, drop, seen, touched,
      gone, crossed, others, fits, count, filter, shown, loads, last, marked, calls,
      excused, open, catalog, loadingCatalog, serviceId, professionalId,
      selectedDate, slots, slotsLoading, slotsOpen, selectedSlot, named, creating,
      catalogs, live, draft, call, clients, booked, failed, unheard, typed, applied,
      sort, timer, suggested, listbox, skip, wait, searches, selected, history,
      fetching, histories, asked, left, late>>

\* The variables of the parts that are not in play have no value of theirs.
StaffInit ==
    \/ /\ part = "days" /\ Agenda!Init
       /\ hours = 0 /\ cap = 0 /\ exceptions = 0 /\ page = 0 /\ save = 0 /\ add = 0
       /\ drop = 0 /\ seen = 0 /\ touched = 0 /\ gone = 0 /\ crossed = 0
       /\ others = 0 /\ fits = 0 /\ count = 0 /\ filter = 0 /\ shown = 0 /\ loads = 0
       /\ last = 0 /\ marked = 0 /\ calls = 0 /\ excused = 0 /\ open = 0
       /\ catalog = 0 /\ loadingCatalog = 0 /\ serviceId = 0 /\ professionalId = 0
       /\ selectedDate = 0 /\ slots = 0 /\ slotsLoading = 0 /\ slotsOpen = 0
       /\ selectedSlot = 0 /\ named = 0 /\ creating = 0 /\ catalogs = 0 /\ live = 0
       /\ draft = 0 /\ call = 0 /\ clients = 0 /\ booked = 0 /\ failed = 0
       /\ unheard = 0 /\ typed = 0 /\ applied = 0 /\ sort = 0 /\ timer = 0
       /\ suggested = 0 /\ listbox = 0 /\ skip = 0 /\ wait = 0 /\ searches = 0
       /\ selected = 0 /\ history = 0 /\ fetching = 0 /\ histories = 0 /\ asked = 0
       /\ left = 0 /\ late = 0
    \/ /\ part = "config" /\ Config!Init
       /\ dayOf = 0 /\ status = 0 /\ qry = 0 /\ list = 0 /\ loading = 0 /\ marks = 0
       /\ fetch = 0 /\ month = 0 /\ modal = 0 /\ act = 0 /\ stale = 0 /\ acts = 0
       /\ filter = 0 /\ shown = 0 /\ loads = 0 /\ last = 0 /\ marked = 0 /\ calls = 0
       /\ excused = 0 /\ open = 0 /\ catalog = 0 /\ loadingCatalog = 0
       /\ serviceId = 0 /\ professionalId = 0 /\ selectedDate = 0 /\ slots = 0
       /\ slotsLoading = 0 /\ slotsOpen = 0 /\ selectedSlot = 0 /\ named = 0
       /\ creating = 0 /\ catalogs = 0 /\ live = 0 /\ draft = 0 /\ call = 0
       /\ clients = 0 /\ booked = 0 /\ failed = 0 /\ unheard = 0 /\ typed = 0
       /\ applied = 0 /\ sort = 0 /\ timer = 0 /\ suggested = 0 /\ listbox = 0
       /\ skip = 0 /\ wait = 0 /\ searches = 0 /\ selected = 0 /\ history = 0
       /\ fetching = 0 /\ histories = 0 /\ asked = 0 /\ left = 0 /\ late = 0
    \/ /\ part = "appointments" /\ Citas!Init
       /\ dayOf = 0 /\ qry = 0 /\ list = 0 /\ marks = 0 /\ fetch = 0 /\ month = 0
       /\ modal = 0 /\ act = 0 /\ stale = 0 /\ hours = 0 /\ cap = 0 /\ exceptions = 0
       /\ save = 0 /\ add = 0 /\ drop = 0 /\ seen = 0 /\ touched = 0 /\ gone = 0
       /\ crossed = 0 /\ others = 0 /\ fits = 0 /\ count = 0 /\ open = 0
       /\ catalog = 0 /\ loadingCatalog = 0 /\ serviceId = 0 /\ professionalId = 0
       /\ selectedDate = 0 /\ slots = 0 /\ slotsLoading = 0 /\ slotsOpen = 0
       /\ selectedSlot = 0 /\ named = 0 /\ creating = 0 /\ catalogs = 0 /\ live = 0
       /\ draft = 0 /\ call = 0 /\ clients = 0 /\ booked = 0 /\ failed = 0
       /\ unheard = 0 /\ typed = 0 /\ applied = 0 /\ sort = 0 /\ timer = 0
       /\ suggested = 0 /\ listbox = 0 /\ skip = 0 /\ wait = 0 /\ searches = 0
       /\ selected = 0 /\ history = 0 /\ fetching = 0 /\ histories = 0 /\ asked = 0
       /\ left = 0 /\ late = 0
    \/ /\ part = "booking" /\ Modal!Init
       /\ dayOf = 0 /\ status = 0 /\ qry = 0 /\ list = 0 /\ loading = 0 /\ marks = 0
       /\ fetch = 0 /\ month = 0 /\ modal = 0 /\ act = 0 /\ stale = 0 /\ acts = 0
       /\ hours = 0 /\ cap = 0 /\ exceptions = 0 /\ page = 0 /\ save = 0 /\ add = 0
       /\ drop = 0 /\ seen = 0 /\ touched = 0 /\ gone = 0 /\ crossed = 0
       /\ others = 0 /\ fits = 0 /\ count = 0 /\ filter = 0 /\ shown = 0 /\ loads = 0
       /\ last = 0 /\ marked = 0 /\ calls = 0 /\ excused = 0 /\ typed = 0
       /\ applied = 0 /\ sort = 0 /\ timer = 0 /\ suggested = 0 /\ listbox = 0
       /\ skip = 0 /\ wait = 0 /\ searches = 0 /\ selected = 0 /\ history = 0
       /\ fetching = 0 /\ histories = 0 /\ asked = 0 /\ left = 0 /\ late = 0
    \/ /\ part = "clients" /\ Clientes!Init
       /\ dayOf = 0 /\ status = 0 /\ qry = 0 /\ list = 0 /\ marks = 0 /\ fetch = 0
       /\ month = 0 /\ modal = 0 /\ act = 0 /\ stale = 0 /\ hours = 0 /\ cap = 0
       /\ exceptions = 0 /\ save = 0 /\ add = 0 /\ drop = 0 /\ seen = 0
       /\ touched = 0 /\ gone = 0 /\ crossed = 0 /\ others = 0 /\ fits = 0
       /\ count = 0 /\ filter = 0 /\ last = 0 /\ marked = 0 /\ calls = 0
       /\ excused = 0 /\ open = 0 /\ catalog = 0 /\ loadingCatalog = 0
       /\ serviceId = 0 /\ professionalId = 0 /\ selectedDate = 0 /\ slots = 0
       /\ slotsLoading = 0 /\ slotsOpen = 0 /\ selectedSlot = 0 /\ named = 0
       /\ creating = 0 /\ catalogs = 0 /\ live = 0 /\ draft = 0 /\ call = 0
       /\ clients = 0 /\ booked = 0 /\ failed = 0 /\ unheard = 0

AgendaStep == part = "days" /\ Agenda!Next /\ UNCHANGED <<part, NotAgenda>>

ConfigStep == part = "config" /\ Config!Next /\ UNCHANGED <<part, NotConfig>>

CitasStep == part = "appointments" /\ Citas!Next /\ UNCHANGED <<part, NotCitas>>

ModalStep == part = "booking" /\ Modal!Next /\ UNCHANGED <<part, NotModal>>

ClientesStep == part = "clients" /\ Clientes!Next /\ UNCHANGED <<part, NotClientes>>

StaffNext ==
    \/ AgendaStep
    \/ ConfigStep
    \/ CitasStep
    \/ ModalStep
    \/ ClientesStep

StaffSpec == StaffInit /\ [][StaffNext]_StaffVars

-----------------------------------------------------------------------------
(* Properties *)

\* Type correctness of every part.
TypesOK ==
    /\ part = "days" => Agenda!TypeOK
    /\ part = "config" => Config!TypeOK
    /\ part = "appointments" => Citas!TypeOK
    /\ part = "booking" => Modal!TypeOK
    /\ part = "clients" => Clientes!TypeOK

\* What the agenda shows of a day is what was read for it, or what was done to
\* it since (agenda-page.tsx:290-332, 705-732).
PageIsTruthful == part = "days" => Agenda!PageIsTruthful

\* Saving the hours keeps the days that were not edited, unless the form could
\* not hold them (agenda-page.tsx:157-169, 459-492).
UntouchedDaysAreKept == part = "config" => Config!UntouchedDaysAreKept

\* The days the page shows as closed are closed, all of them if the list it read
\* had room for every exception, but for what others changed since
\* (agenda-page.tsx:260-272, 495-534).
ClosedDaysAreShown == part = "config" => Config!ClosedDaysAreShown

\* The list is the page and filter asked for, with what was done to it since
\* (citas-page.tsx:94-194).
ListIsThePageAsked == part = "appointments" => Citas!ListIsThePageAsked

\* The time in the form was offered for the service, professional and day in
\* the form (internal-booking-modal.tsx:132-179).
TimeIsOfTheChoice == part = "booking" => Modal!TimeIsOfTheChoice

\* One opening of the modal books once unless an answer was lost
\* (internal-booking-modal.tsx:190-229).
OneBookingPerDraft == part = "booking" => Modal!OneBookingPerDraft

\* The list, the suggestions and the history shown are those of what is asked
\* now (clientes-page.tsx:67-109).
ShowsWhatWasAsked == part = "clients" => Clientes!ShowsWhatWasAsked

=============================================================================
