---------------------------- MODULE BookingTabs ----------------------------
(***************************************************************************)
(* The bookings one browser knows: the cookie aos_booking that its tabs    *)
(* share (frontend/src/lib/booking/cookie.ts), the booking each tab takes  *)
(* to Google in its sessionStorage, the page that confirms it on return    *)
(* (booking-callback.tsx) and the list of the wizard, which is corrected   *)
(* by the API after it was read.                                           *)
(*                                                                         *)
(* The script of a tab is not interrupted by its own clicks and answers,   *)
(* but the cookie has no lock: between a get and the set that follows      *)
(* other tabs run, requests travel, and the staff works on the same        *)
(* appointments.  One business; the 30 days the cookie lives are not over. *)
(***************************************************************************)
EXTENDS Naturals, FiniteSets

CONSTANTS
    Tabs,
    Ids,            \* appointments
    None,
    CookieSure,     \* so many bookings always fit in the 4096 bytes of a cookie
    Bookers,        \* bound: the tabs that take bookings to Google
    Cancellers,     \* bound: the tabs that cancel and dismiss bookings
    MaxAsks,        \* bound: bookings taken to Google
    MaxTokens,      \* bound: sign-ins at Google
    MaxRequests     \* bound: requests in flight and scripts that run

VARIABLES
    appts,          \* the server: Ids -> free, active or cancelled
    cookie,         \* set of [id, status]
    tab,            \* the state of each tab
    confirms,       \* POST /confirm in flight
    cancels,        \* POST /cancel in flight
    used,           \* booking sessions consumed
    asks, tokens,   \* how many were taken to Google, how many sign-ins
    askOf,          \* history: the ask an appointment was made from, 0 if none
    lostAsks,       \* history: asks whose confirmation nobody waited for
    failedAsks,     \* history: asks refused after their appointment was made
    owned,          \* history: never cancelled, and the cookie was given their entry
    torn            \* history: owned, but not put back since a write without them,
                    \* because they came after its read

server == <<appts, used, askOf>>
vars ==
    <<server, cookie, tab, confirms, cancels, asks, tokens, lostAsks, failedAsks, owned, torn>>

\* Active stands for every status but cancelled (isActiveBooking).
Statuses == {"active", "cancelled"}
Summary == [id : Ids, status : Statuses]

NoSync == [pc |-> "none", asked |-> {}, seen |-> {}]

\* A request that is answered.
Answered == {"done", "refused"}

\* What a script still has to write: entries to put, or to take out (gone).
Edit == [id : Ids, status : Statuses \cup {"gone"}]

NoTask == [pc |-> "free", edits |-> {}, got |-> {}, then |-> "list"]

IdsOf(items) == {b.id : b \in items}

\* A tab on the wizard that just read its bookings off the cookie.
OnWizard(t, items) ==
    [page |-> "wizard", list |-> items, cancelling |-> None, saved |-> tab[t].saved,
     token |-> tab[t].token, task |-> NoTask,
     sync |-> IF items = {} THEN NoSync ELSE [pc |-> "sent", asked |-> IdsOf(items), seen |-> {}]]

-----------------------------------------------------------------------------
(* The cookie *)

\* writeAllBookings: a browser ignores a cookie that has grown too large.
Written(items) ==
    {items} \cup IF Cardinality(items) > CookieSure THEN {cookie} ELSE {}

\* setBookingCookie and removeBookingCookie: the entry of that appointment is
\* replaced, added or taken out.
Edited(items, e) == {c \in items : c.id # e.id} \cup ({e} \cap Summary)

\* No script of the tab is running.
Free(t) == tab[t].task.pc = "free"

\* A script that has read the cookie for the first of its edits.
Task(edits, then) == [pc |-> "set", edits |-> edits, got |-> cookie, then |-> then]

\* Cookies.set: what other tabs wrote since the get is overwritten.  After the last
\* edit the script of a list reads it again; that of a confirmation has only to
\* forget the booking (clearPendingBooking) and to go to the wizard (OpenWizard).
WriteCookie(t) ==
    LET task == tab[t].task
    IN  /\ task.pc = "set"
        /\ \E e \in task.edits : \E new \in Written(Edited(task.got, e)) :
              /\ cookie' = new
              /\ owned' = IF e \in new /\ e.status = "active" /\ appts[e.id] = "active"
                          THEN owned \cup {e.id} ELSE owned
              /\ torn' = (torn \cup ((owned \cap IdsOf(cookie)) \ IdsOf(task.got))) \ IdsOf(new)
              /\ tab' = IF task.then = "list"
                        THEN [tab EXCEPT ![t].task = [task EXCEPT !.pc = "get", !.edits = @ \ {e}, !.got = {}]]
                        ELSE [tab EXCEPT ![t].task = NoTask, ![t].saved = 0]
        /\ UNCHANGED <<server, confirms, cancels, asks, tokens, lostAsks, failedAsks>>

\* Cookies.get for the next edit, or for the list when none is left.
ReadCookie(t) ==
    LET task == tab[t].task
    IN  /\ task.pc = "get"
        /\ tab' = IF task.edits = {}
                  THEN [tab EXCEPT ![t].task = NoTask, ![t].list = cookie]
                  ELSE [tab EXCEPT ![t].task = Task(task.edits, "list")]
        /\ UNCHANGED <<server, cookie, confirms, cancels, asks, tokens, lostAsks, failedAsks, owned, torn>>

\* Leaving or reloading the page: what the server still does goes unheard, and what
\* it has answered is lost.
Unheard(reqs, t) ==
    {r \in reqs : r.tab # t}
        \cup {[r EXCEPT !.heard = FALSE] : r \in {q \in reqs : q.tab = t /\ q.pc \notin Answered}}

Room ==
    Cardinality(confirms) + Cardinality(cancels)
        + Cardinality({t \in Tabs : tab[t].sync.pc # "none"})
        + Cardinality({t \in Tabs : ~Free(t)}) < MaxRequests

\* Leaving while a confirmation is on its way.
LostBy(t) == {r.ask : r \in {q \in confirms : q.tab = t /\ q.heard}}

-----------------------------------------------------------------------------
(* The wizard *)

\* The wizard is opened or reloaded.
OpenWizard(t) ==
    /\ Free(t) /\ Room
    /\ tab' = [tab EXCEPT ![t] = OnWizard(t, cookie)]
    /\ confirms' = Unheard(confirms, t)
    /\ cancels' = Unheard(cancels, t)
    /\ lostAsks' = lostAsks \cup LostBy(t)
    /\ UNCHANGED <<server, cookie, asks, tokens, failedAsks, owned, torn>>

\* portalMyAppointments at the server.
SyncAtServer(t) ==
    /\ tab[t].sync.pc = "sent"
    /\ tab' = [tab EXCEPT ![t].sync =
                  [pc |-> "back", asked |-> {},
                   seen |-> {[id |-> i, status |-> appts[i]] : i \in tab[t].sync.asked}]]
    /\ UNCHANGED <<server, cookie, confirms, cancels, asks, tokens, lostAsks, failedAsks, owned, torn>>

\* Broken: the list read before the request is written back as a whole.
SyncAppliedWhole(t) ==
    /\ tab[t].sync.pc = "back" /\ Free(t)
    /\ \E new \in Written(tab[t].sync.seen) :
          /\ cookie' = new
          /\ tab' = [tab EXCEPT ![t].list = new, ![t].sync = NoSync]
    /\ UNCHANGED <<server, confirms, cancels, asks, tokens, lostAsks, failedAsks, owned, torn>>

\* Every entry answered for is put back, one setBookingCookie after the other.
SyncApplied(t) ==
    /\ tab[t].sync.pc = "back" /\ Free(t)
    /\ tab' = [tab EXCEPT ![t].task = Task(tab[t].sync.seen, "list"), ![t].sync = NoSync]
    /\ UNCHANGED <<server, cookie, confirms, cancels, asks, tokens, lostAsks, failedAsks, owned, torn>>

\* No answer or an error: the cookie stays as the local copy.
SyncFails(t) ==
    /\ tab[t].sync.pc = "sent"
    /\ tab' = [tab EXCEPT ![t].sync = NoSync]
    /\ UNCHANGED <<server, cookie, confirms, cancels, asks, tokens, lostAsks, failedAsks, owned, torn>>

\* Two cancellations of one booking by one tab are told apart by a number.
Another(t, i) ==
    LET mine == {r \in cancels : r.tab = t /\ r.id = i}
    IN  {[tab |-> t, id |-> i, no |-> no, pc |-> "sent", heard |-> TRUE] :
            no \in {n \in 1..MaxRequests : /\ \A r \in mine : r.no # n
                                         /\ \A m \in 1..(n - 1) : \E r \in mine : r.no = m}}

\* cancelBooking: the button of the booking cancelled last is disabled; a cancel of
\* another one, or the first answer, enables it again.
ClickCancel(t, b) ==
    /\ t \in Cancellers
    /\ tab[t].page = "wizard"
    /\ b \in tab[t].list /\ b.status # "cancelled"
    /\ tab[t].cancelling # b.id
    /\ Free(t) /\ Room
    /\ \E r \in Another(t, b.id) : cancels' = cancels \cup {r}
    /\ tab' = [tab EXCEPT ![t].cancelling = b.id]
    /\ UNCHANGED <<server, cookie, confirms, asks, tokens, lostAsks, failedAsks, owned, torn>>

\* cancelByToken; Booking has its statements apart.  Nobody waits for the answer
\* once the page is gone.
CancelAtServer(r) ==
    /\ r.pc = "sent"
    /\ cancels' = (cancels \ {r}) \cup
                     IF r.heard
                     THEN {[r EXCEPT !.pc = IF appts[r.id] = "cancelled" THEN "refused" ELSE "done"]}
                     ELSE {}
    /\ appts' = [appts EXCEPT ![r.id] = "cancelled"]
    /\ owned' = owned \ {r.id} /\ torn' = torn \ {r.id}
    /\ UNCHANGED <<used, askOf, cookie, tab, confirms, asks, tokens, lostAsks, failedAsks>>

\* Cancelled: out of the cookie.  A refusal leaves it.
CancelAnswered(r) ==
    /\ r.pc \in Answered /\ Free(r.tab)
    /\ cancels' = cancels \ {r}
    /\ tab' = [tab EXCEPT ![r.tab].cancelling = None,
                          ![r.tab].task = IF r.pc = "done"
                                          THEN Task({[id |-> r.id, status |-> "gone"]}, "list")
                                          ELSE NoTask]
    /\ UNCHANGED <<server, cookie, confirms, asks, tokens, lostAsks, failedAsks, owned, torn>>

\* The connection is lost: the request too, or only its answer.
CancelUnanswered(r) ==
    /\ r.pc = "sent" /\ r.heard /\ Free(r.tab)
    /\ \E left \in {{}, {[r EXCEPT !.heard = FALSE]}} : cancels' = (cancels \ {r}) \cup left
    /\ tab' = [tab EXCEPT ![r.tab].cancelling = None]
    /\ UNCHANGED <<server, cookie, confirms, asks, tokens, lostAsks, failedAsks, owned, torn>>

\* dismissBooking: "Quitar" is there for what this tab shows as cancelled.
Dismiss(t, b) ==
    /\ t \in Cancellers
    /\ tab[t].page = "wizard" /\ Free(t)
    /\ b \in tab[t].list /\ b.status = "cancelled"
    /\ tab' = [tab EXCEPT ![t].task = Task({[id |-> b.id, status |-> "gone"]}, "list")]
    /\ UNCHANGED <<server, cookie, confirms, cancels, asks, tokens, lostAsks, failedAsks, owned, torn>>

\* confirmWithGoogle, see BookingWizard.
TakeToGoogle(t) ==
    /\ t \in Bookers
    /\ tab[t].page = "wizard" /\ Free(t)
    /\ asks < MaxAsks
    /\ asks' = asks + 1
    /\ tab' = [tab EXCEPT ![t] = [@ EXCEPT !.page = "google", !.saved = asks + 1,
                                          !.list = {}, !.sync = NoSync, !.cancelling = None]]
    /\ cancels' = Unheard(cancels, t)
    /\ UNCHANGED <<server, cookie, confirms, tokens, lostAsks, failedAsks, owned, torn>>

-----------------------------------------------------------------------------
(* Google and the confirmation *)

\* Back, in the history of the tab, to the page of Google.
BackToGoogle(t) ==
    /\ tab[t].page # "google" /\ tab[t].token # None /\ Free(t)
    /\ tokens < MaxTokens
    /\ tab' = [tab EXCEPT ![t] = [@ EXCEPT !.page = "google", !.list = {}, !.sync = NoSync,
                                          !.cancelling = None]]
    /\ confirms' = Unheard(confirms, t)
    /\ cancels' = Unheard(cancels, t)
    /\ lostAsks' = lostAsks \cup LostBy(t)
    /\ UNCHANGED <<server, cookie, asks, tokens, failedAsks, owned, torn>>

Request(t, token) ==
    [tab |-> t, ask |-> tab[t].saved, token |-> token, pc |-> "sent", id |-> None,
     heard |-> TRUE]

\* The effect of the callback page, once per mount: without a booking in
\* sessionStorage it only says so.
Confirming(t, token) ==
    /\ confirms' = Unheard(confirms, t) \cup
                     IF tab[t].saved = 0 THEN {} ELSE {Request(t, token)}
    /\ lostAsks' = lostAsks \cup LostBy(t)
    /\ tab' = [tab EXCEPT ![t].page = "callback", ![t].token = token]

\* Google signs the customer in and the server issues a booking session.
GoogleReturns(t) ==
    /\ tab[t].page = "google"
    /\ tokens < MaxTokens
    /\ Free(t) /\ Room
    /\ tokens' = tokens + 1
    /\ Confirming(t, tokens + 1)
    /\ UNCHANGED <<server, cookie, cancels, asks, failedAsks, owned, torn>>

\* The callback page is loaded again with the token of its address.
ReloadCallback(t) ==
    /\ tab[t].page = "callback"
    /\ Free(t) /\ Room
    /\ Confirming(t, tab[t].token)
    /\ UNCHANGED <<server, cookie, cancels, asks, tokens, failedAsks, owned, torn>>

\* confirmPortal: the session is valid, the appointment is made, the session is
\* consumed.  The check comes first, so two requests can pass it (see Booking).
AcceptConfirm(r) ==
    /\ r.pc = "sent" /\ r.token \notin used
    /\ confirms' = (confirms \ {r}) \cup {[r EXCEPT !.pc = "valid"]}
    /\ UNCHANGED <<server, cookie, tab, cancels, asks, tokens, lostAsks, failedAsks, owned, torn>>

\* The transaction of confirmPortal commits.
Book(r, i) ==
    /\ r.pc = "valid"
    /\ appts[i] = "free"
    /\ appts' = [appts EXCEPT ![i] = "active"]
    /\ askOf' = [askOf EXCEPT ![i] = r.ask]
    /\ confirms' = (confirms \ {r}) \cup {[r EXCEPT !.pc = "booked", !.id = i]}
    /\ UNCHANGED <<used, cookie, tab, cancels, asks, tokens, lostAsks, failedAsks, owned, torn>>

\* BookingSessionService.consume; the appointment is read and answered, to a page
\* that is still there.
Consume(r) ==
    /\ r.pc = "booked" /\ r.token \notin used
    /\ used' = used \cup {r.token}
    /\ confirms' = (confirms \ {r}) \cup IF r.heard THEN {[r EXCEPT !.pc = "done"]} ELSE {}
    /\ UNCHANGED <<appts, askOf, cookie, tab, cancels, asks, tokens, lostAsks, failedAsks, owned, torn>>

\* The session is used, the slot is gone, or any other error before the commit.  An
\* error is shown, or not, and the booking stays in sessionStorage.
RefuseConfirm(r) ==
    /\ r.pc \in {"sent", "valid"}
    /\ confirms' = confirms \ {r}
    /\ UNCHANGED <<server, cookie, tab, cancels, asks, tokens, lostAsks, failedAsks, owned, torn>>

\* After the commit the session cannot be consumed, because Redis fails or another
\* request with it was first, or the appointment cannot be read: an error all the
\* same.
FailAfterCommit(r) ==
    /\ r.pc \in {"booked", "done"}
    /\ confirms' = confirms \ {r}
    /\ failedAsks' = failedAsks \cup {r.ask}
    /\ UNCHANGED <<server, cookie, tab, cancels, asks, tokens, lostAsks, owned, torn>>

\* Broken: the booking stays in sessionStorage after it was made.
ConfirmedKeepsPending(r) ==
    /\ r.pc = "done" /\ Free(r.tab)
    /\ tab' = [tab EXCEPT ![r.tab].task = Task({[id |-> r.id, status |-> "active"]}, "list")]
    /\ confirms' = confirms \ {r}
    /\ UNCHANGED <<server, cookie, cancels, asks, tokens, lostAsks, failedAsks, owned, torn>>

\* The answer: into the cookie, out of sessionStorage, to the wizard.
Confirmed(r) ==
    /\ r.pc = "done" /\ Free(r.tab)
    /\ tab' = [tab EXCEPT ![r.tab].task = Task({[id |-> r.id, status |-> "active"]}, "forget")]
    /\ confirms' = confirms \ {r}
    /\ UNCHANGED <<server, cookie, cancels, asks, tokens, lostAsks, failedAsks, owned, torn>>

\* The connection is lost under a confirmation, and with it the request or the
\* answer: the page shows an error.
ConfirmUnanswered(r) ==
    /\ r.heard /\ r.pc # "done"
    /\ confirms' = (confirms \ {r}) \cup {[r EXCEPT !.heard = FALSE]}
    /\ lostAsks' = lostAsks \cup {r.ask}
    /\ UNCHANGED <<server, cookie, tab, cancels, asks, tokens, failedAsks, owned, torn>>

-----------------------------------------------------------------------------
(* The staff *)

\* Reject or cancel.  That the staff may reopen what is cancelled is left out:
\* such a booking is not owned any more.
StaffCancels(i) ==
    /\ appts[i] = "active"
    /\ appts' = [appts EXCEPT ![i] = "cancelled"]
    /\ owned' = owned \ {i} /\ torn' = torn \ {i}
    /\ UNCHANGED <<used, askOf, cookie, tab, confirms, cancels, asks, tokens, lostAsks, failedAsks>>

\* Every tab is on the wizard; one earlier booking may be in the cookie.
Init ==
    /\ \E booked \in {{}} \cup {{i} : i \in Ids} :
          /\ appts = [i \in Ids |-> IF i \in booked THEN "active" ELSE "free"]
          /\ cookie = {[id |-> i, status |-> "active"] : i \in booked}
          /\ owned = booked
    /\ tab = [t \in Tabs |-> [page |-> "wizard", list |-> cookie, cancelling |-> None,
                              saved |-> 0, token |-> None, task |-> NoTask, sync |-> NoSync]]
    /\ confirms = {} /\ cancels = {}
    /\ used = {} /\ asks = 0 /\ tokens = 0
    /\ askOf = [i \in Ids |-> 0]
    /\ lostAsks = {} /\ failedAsks = {} /\ torn = {}

Next ==
    \/ \E t \in Tabs :
          \/ ReadCookie(t) \/ WriteCookie(t)
          \/ OpenWizard(t)
          \/ SyncAtServer(t) \/ SyncApplied(t) \/ SyncFails(t)
          \/ \E b \in tab[t].list : ClickCancel(t, b) \/ Dismiss(t, b)
          \/ TakeToGoogle(t) \/ BackToGoogle(t)
          \/ GoogleReturns(t) \/ ReloadCallback(t)
    \/ \E r \in cancels : CancelAtServer(r) \/ CancelAnswered(r) \/ CancelUnanswered(r)
    \/ \E r \in confirms :
          \/ AcceptConfirm(r) \/ RefuseConfirm(r)
          \/ \E i \in Ids : Book(r, i)
          \/ Consume(r) \/ FailAfterCommit(r)
          \/ Confirmed(r) \/ ConfirmUnanswered(r)
    \/ \E i \in Ids : StaffCancels(i)

Spec == Init /\ [][Next]_vars

-----------------------------------------------------------------------------
(* Properties *)

\* Type correctness; the cookie holds one entry per appointment.
TypeOK ==
    /\ appts \in [Ids -> Statuses \cup {"free"}]
    /\ cookie \subseteq Summary
    /\ \A b, c \in cookie : b.id = c.id => b = c
    /\ \A t \in Tabs :
          /\ tab[t].page \in {"wizard", "google", "callback"}
          /\ tab[t].list \subseteq Summary
          /\ tab[t].cancelling \in Ids \cup {None}
          /\ tab[t].saved \in 0..asks
          /\ tab[t].token \in 1..tokens \cup {None}
          /\ tab[t].sync.pc \in {"none", "sent", "back"}
          /\ tab[t].page # "wizard" => tab[t].sync = NoSync
          /\ tab[t].task.edits \subseteq Edit /\ tab[t].task.got \subseteq Summary
    /\ used \subseteq 1..tokens
    /\ askOf \in [Ids -> 0..asks]

\* An appointment that was never cancelled stays in the cookie once it is there,
\* with the token to cancel it, unless another tab wrote back what it had read
\* before the appointment was there: no late answer, refused cancellation or cookie
\* that has grown too large takes it out (cookie.ts:49-88,
\* booking-wizard.tsx:107-132, 253-273).
LiveBookingKept == owned \subseteq IdsOf(cookie) \cup torn

\* One booking taken to Google becomes more than one appointment only when the
\* answer to its confirmation was not waited for or did not arrive, or was an error
\* although the appointment had been made (booking-callback.tsx:20-56,
\* appointments.service.ts:557-559).
BookedOncePerAsk ==
    \A i, j \in Ids :
        askOf[i] # 0 /\ askOf[i] = askOf[j] => i = j \/ askOf[i] \in lostAsks \cup failedAsks

=============================================================================
