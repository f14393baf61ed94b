-------------------------------- MODULE Site --------------------------------
(***************************************************************************)
(* The browser of a customer and the session of a member of the staff, as  *)
(* one specification: each initial state picks a part, and only that part  *)
(* moves. One visit to the booking page, the tabs of a customer with the   *)
(* cookie they share, and the tabs of the panel with their tokens. A       *)
(* constant with the name of a part's constant is that constant.           *)
(***************************************************************************)
EXTENDS Integers, FiniteSets

CONSTANTS
    \* the visit
    Services, Professionals, Unsure, None, Days, Today, Weekday, Catalogs, Times,
    MaxFetches,
    \* the tabs of the customer
    Tabs, Ids, CookieSure, Bookers, Cancellers, MaxAsks, MaxTokens, MaxRequests,
    \* the panel
    PanelTabs, Calls, Sids, MaxSignIns, MaxUnheard, Ops

VARIABLES
    part, loading, catalog, step, serviceId, professionalId, selectedDate, slots,
    slotsLoading, selectedSlot, slotsOpen, live, stale, fading, pending, appts,
    cookie, tab, confirms, cancels, used, asks, tokens, askOf, lostAsks, failedAsks,
    owned, torn, call, sessions, fresh, marks, signedOut

-----------------------------------------------------------------------------

Wizard == INSTANCE BookingWizard

Bookings == INSTANCE BookingTabs

Session == INSTANCE Panel WITH Tabs <- PanelTabs

\* What the parts assume of their constants.
ASSUME SiteAssumption ==
    /\ Wizard!BookingWizardAssumption
    /\ Session!PanelAssumption

NotWizard ==
    <<appts, cookie, tab, confirms, cancels, used, asks, tokens, askOf, lostAsks,
      failedAsks, owned, torn, call, sessions, fresh, marks, signedOut>>

NotBookings ==
    <<loading, catalog, step, serviceId, professionalId, selectedDate, slots,
      slotsLoading, selectedSlot, slotsOpen, live, stale, fading, pending, call,
      sessions, fresh, marks, signedOut>>

NotSession ==
    <<loading, catalog, step, serviceId, professionalId, selectedDate, slots,
      slotsLoading, selectedSlot, slotsOpen, live, stale, fading, pending, appts,
      confirms, cancels, used, asks, tokens, askOf, lostAsks, failedAsks, owned,
      torn>>

SiteVars ==
    <<part, loading, catalog, step, serviceId, professionalId, selectedDate, slots,
      slotsLoading, selectedSlot, slotsOpen, live, stale, fading, pending, appts,
      cookie, tab, confirms, cancels, used, asks, tokens, askOf, lostAsks,
      failedAsks, owned, torn, call, sessions, fresh, marks, signedOut>>

\* The variables of the parts that are not in play have no value of theirs.
SiteInit ==
    \/ /\ part = "wizard" /\ Wizard!Init
       /\ appts = 0 /\ cookie = 0 /\ tab = 0 /\ confirms = 0 /\ cancels = 0
       /\ used = 0 /\ asks = 0 /\ tokens = 0 /\ askOf = 0 /\ lostAsks = 0
       /\ failedAsks = 0 /\ owned = 0 /\ torn = 0 /\ call = 0 /\ sessions = 0
       /\ fresh = 0 /\ marks = 0 /\ signedOut = 0
    \/ /\ part = "tabs" /\ Bookings!Init
       /\ loading = 0 /\ catalog = 0 /\ step = 0 /\ serviceId = 0
       /\ professionalId = 0 /\ selectedDate = 0 /\ slots = 0 /\ slotsLoading = 0
       /\ selectedSlot = 0 /\ slotsOpen = 0 /\ live = 0 /\ stale = 0 /\ fading = 0
       /\ pending = 0 /\ call = 0 /\ sessions = 0 /\ fresh = 0 /\ marks = 0
       /\ signedOut = 0
    \/ /\ part = "panel" /\ Session!Init
       /\ loading = 0 /\ catalog = 0 /\ step = 0 /\ serviceId = 0
       /\ professionalId = 0 /\ selectedDate = 0 /\ slots = 0 /\ slotsLoading = 0
       /\ selectedSlot = 0 /\ slotsOpen = 0 /\ live = 0 /\ stale = 0 /\ fading = 0
       /\ pending = 0 /\ appts = 0 /\ confirms = 0 /\ cancels = 0 /\ used = 0
       /\ asks = 0 /\ tokens = 0 /\ askOf = 0 /\ lostAsks = 0 /\ failedAsks = 0
       /\ owned = 0 /\ torn = 0

WizardStep == part = "wizard" /\ Wizard!Next /\ UNCHANGED <<part, NotWizard>>

BookingsStep == part = "tabs" /\ Bookings!Next /\ UNCHANGED <<part, NotBookings>>

SessionStep == part = "panel" /\ Session!Next /\ UNCHANGED <<part, NotSession>>

SiteNext ==
    \/ WizardStep
    \/ BookingsStep
    \/ SessionStep

SiteSpec == SiteInit /\ [][SiteNext]_SiteVars

-----------------------------------------------------------------------------
(* Properties *)

\* Type correctness of every part.
TypesOK ==
    /\ part = "wizard" => Wizard!TypeOK
    /\ part = "tabs" => Bookings!TypeOK
    /\ part = "panel" => Session!TypeOK

\* The times shown are those of the choice on the screen, and the page only
\* searches while a query that ends it is in flight
\* (booking-wizard.tsx:203-235).
GridIsForTheChoice == part = "wizard" => Wizard!GridIsForTheChoice

\* What is taken to Google was offered for that service, professional and day
\* (booking-wizard.tsx:237-248).
ConfirmWasOffered == part = "wizard" => Wizard!ConfirmWasOffered

\* The cookie keeps every booking that is live and that it had room for, unless
\* another tab wrote back what it had read before (cookie.ts:71-88,
\* booking-wizard.tsx:106-133).
LiveBookingKept == part = "tabs" => Bookings!LiveBookingKept

\* One click books once unless its answer was lost or was an error after the
\* appointment was made (booking-callback.tsx:18-56).
BookedOncePerAsk == part = "tabs" => Bookings!BookedOncePerAsk

\* A refresh is refused only after a race, a lost answer or a closing of the
\* sessions (client.ts:25-28).
RefusedForCause == part = "panel" => Session!RefusedForCause

\* After a logout that no refresh crossed nothing of its sign-in lives
\* (auth-provider.tsx:47-61).
LogoutEndsTheSignIn == part = "panel" => Session!LogoutEndsTheSignIn

=============================================================================
