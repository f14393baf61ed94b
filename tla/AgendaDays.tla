----------------------------- MODULE AgendaDays -----------------------------
(***************************************************************************)
(* The calendar of the staff (components/app/agenda/agenda-page.tsx): the  *)
(* days picked with a click or a drag, the list of their appointments, the *)
(* marks every day of the month has, and the modal that changes the status *)
(* of one (agenda-appointment-modal.tsx).                                  *)
(*                                                                         *)
(* The list and the marks are read with requests of their own and are then *)
(* corrected by the answer of each change.  An answer for the month is     *)
(* dropped when a newer one was asked for; an answer for the list is not.  *)
(* The other pages and people work on the same appointments.  Days are the *)
(* days of one month from today on; confirmed stands for attended as well. *)
(***************************************************************************)
EXTENDS Naturals, FiniteSets

CONSTANTS
    Days,           \* a set of consecutive numbers
    Appts,
    Statuses,       \* of a request or an agreed appointment
    None,
    Fetches,        \* bound: requests for the list in flight
    MaxActs         \* bound: what is asked of the page, and changed behind it

AgendaDaysAssumption ==
    /\ Days \subseteq Nat /\ \E first, last \in Days : Days = first..last
    /\ Statuses # {}

VARIABLES
    dayOf,          \* the day each appointment is on
    status,         \* the server: its status
    qry,            \* rangeBounds, the range asked for
    list,           \* dayAppointments: id -> status, for the ids it holds
    loading,        \* loadingDay
    marks,          \* monthMarkers
    fetch,          \* the requests for the list
    month,          \* the request for the marks
    modal,          \* detailOpen, selectedAppointment and busy
    act,            \* the change of status in flight
    stale,          \* history: what the page shows that the server has not
    acts            \* how often

server == <<dayOf, status>>
page == <<list, loading, marks>>
vars == <<server, qry, page, fetch, month, modal, act, stale, acts>>

Fresh == CHOOSE s \in Statuses : TRUE

\* resolveRangeBounds orders the two ends.
Ranges == {r \in Days \X Days : r[1] <= r[2]}

DaysIn(r) == {d \in Days : r[1] <= d /\ d <= r[2]}

\* listAppointments of a range; 200 are enough.
Items(r) == [i \in {j \in Appts : dayOf[j] \in DaysIn(r)} |-> status[i]]

\* markersFromAppointments: which of the three marks each day has.
Marks(items) ==
    [d \in Days |-> {items[i] : i \in {j \in DOMAIN items : dayOf[j] = d}}]

Whole == Items(<<CHOOSE d \in Days : \A e \in Days : d <= e,
                 CHOOSE d \in Days : \A e \in Days : d >= e>>)

Nothing == [i \in {} |-> Fresh]

Act == acts < MaxActs /\ acts' = acts + 1

NoFetch == [pc |-> "idle", range |-> None, items |-> Nothing]
NoMonth == [pc |-> "idle", items |-> Nothing]
NoAct == [pc |-> "idle", id |-> None, to |-> Fresh]

-----------------------------------------------------------------------------
(* Reading *)

\* The effect on rangeBounds: every commit is a new object, so it always runs.
Ask(r) ==
    /\ \E f \in Fetches :
          /\ fetch[f].pc = "idle"
          /\ fetch' = [fetch EXCEPT ![f] = [NoFetch EXCEPT !.pc = "sent", !.range = r]]
    /\ loading' = TRUE

ReadList(f) ==
    /\ fetch[f].pc = "sent"
    /\ fetch' = [fetch EXCEPT ![f].pc = "read", ![f].items = Items(fetch[f].range)]
    /\ UNCHANGED <<server, qry, page, month, modal, act, stale, acts>>

Outdated(part, wrong) == IF wrong THEN stale \cup {part} ELSE stale \ {part}

\* Whichever answer comes last is shown.
ListAnswered(f) ==
    /\ fetch[f].pc = "read"
    /\ list' = fetch[f].items
    /\ loading' = FALSE
    /\ fetch' = [fetch EXCEPT ![f] = NoFetch]
    /\ stale' = Outdated("list", fetch[f].items # Items(qry))
    /\ UNCHANGED <<server, qry, marks, month, modal, act, acts>>

ListFails(f) ==
    /\ fetch[f].pc # "idle"
    /\ list' = Nothing
    /\ loading' = FALSE
    /\ fetch' = [fetch EXCEPT ![f] = NoFetch]
    /\ stale' = stale \cup {"list"}
    /\ UNCHANGED <<server, qry, marks, month, modal, act, acts>>

ReadMonth ==
    /\ month.pc = "sent"
    /\ month' = [pc |-> "read", items |-> Whole]
    /\ UNCHANGED <<server, qry, page, fetch, modal, act, stale, acts>>

MonthAnswered ==
    /\ month.pc = "read"
    /\ marks' = Marks(month.items)
    /\ month' = NoMonth
    /\ stale' = Outdated("month", month.items # Whole)
    /\ UNCHANGED <<server, qry, list, loading, fetch, modal, act, acts>>

MonthFails ==
    /\ month.pc # "idle"
    /\ marks' = Marks(Nothing)
    /\ month' = NoMonth
    /\ stale' = stale \cup {"month"}
    /\ UNCHANGED <<server, qry, list, loading, fetch, modal, act, acts>>

\* Another month and back, or the configuration saved: the request that was
\* under way is cancelled.
AskMonth ==
    /\ Act
    /\ month' = [NoMonth EXCEPT !.pc = "sent"]
    /\ UNCHANGED <<server, qry, page, fetch, modal, act, stale>>

-----------------------------------------------------------------------------
(* Picking days *)

\* The modal covers the calendar.
Free == ~modal.open

\* commitRange and endDrag: a click, the keyboard or a drag that ends.  Which
\* range the calendar makes of it is up to its library; one that is dragged is
\* shown before it is asked for.
Commit(r) ==
    /\ Free
    /\ Act
    /\ qry' = r
    /\ Ask(r)
    /\ UNCHANGED <<server, list, marks, month, modal, act, stale>>

-----------------------------------------------------------------------------
(* The modal *)

OpenAppointment(i) ==
    /\ Free
    /\ ~loading
    /\ i \in DOMAIN list
    /\ modal' = [modal EXCEPT !.open = TRUE, !.id = i, !.st = list[i]]
    /\ UNCHANGED <<server, qry, page, fetch, month, act, stale, acts>>

\* busy stays what it is: the component is not unmounted.
CloseModal ==
    /\ modal.open
    /\ modal' = [modal EXCEPT !.open = FALSE, !.id = None, !.st = Fresh]
    /\ UNCHANGED <<server, qry, page, fetch, month, act, stale, acts>>

\* The status list, Aceptar, Rechazar and Cancelar cita.
Change(to) ==
    /\ modal.open /\ ~modal.busy
    /\ to # modal.st
    /\ Act
    /\ modal' = [modal EXCEPT !.busy = TRUE]
    /\ act' = [pc |-> "sent", id |-> modal.id, to |-> to]
    /\ UNCHANGED <<server, qry, page, fetch, month, stale>>

ServeChange ==
    /\ act.pc = "sent"
    /\ status' = [status EXCEPT ![act.id] = act.to]
    /\ act' = [act EXCEPT !.pc = "done"]
    /\ UNCHANGED <<dayOf, qry, page, fetch, month, modal, stale, acts>>

RefuseChange ==
    /\ act.pc = "sent"
    /\ act' = [act EXCEPT !.pc = "refused"]
    /\ UNCHANGED <<server, qry, page, fetch, month, modal, stale, acts>>

\* Another change overtook this one, or its day is no longer the list's.
Doubted ==
    IF status[act.id] # act.to THEN {"list", "month"}
    ELSE IF "list" \in stale \/ act.id \notin DOMAIN list THEN stale \cup {"month"}
    ELSE stale

\* Broken: the marks of the day are those of the appointment that changed.
ChangedAlone ==
    /\ act.pc = "done"
    /\ list' = IF act.id \in DOMAIN list THEN [list EXCEPT ![act.id] = act.to] ELSE list
    /\ marks' = [marks EXCEPT ![dayOf[act.id]] = {act.to}]
    /\ stale' = Doubted
    /\ modal' = [modal EXCEPT !.busy = FALSE, !.id = act.id, !.st = act.to]
    /\ act' = NoAct
    /\ UNCHANGED <<server, qry, loading, fetch, month, acts>>

\* onChanged: its entry in the list, the marks of its day as that list has them
\* now, and the appointment the modal shows.
Changed ==
    /\ act.pc = "done"
    /\ LET next == IF act.id \in DOMAIN list THEN [list EXCEPT ![act.id] = act.to] ELSE list
       IN  /\ list' = next
           /\ marks' = [marks EXCEPT ![dayOf[act.id]] = Marks(next)[dayOf[act.id]]]
    /\ stale' = Doubted
    /\ modal' = [modal EXCEPT !.busy = FALSE, !.id = act.id, !.st = act.to]
    /\ act' = NoAct
    /\ UNCHANGED <<server, qry, loading, fetch, month, acts>>

\* Broken: the catch leaves the modal busy.
ChangeFailsBusy ==
    /\ act.pc # "idle"
    /\ act' = NoAct
    /\ stale' = IF act.pc = "done" THEN {"list", "month"} ELSE stale
    /\ UNCHANGED <<server, qry, page, fetch, month, modal, acts>>

\* A refusal, or no answer: the change may have been made.
ChangeFails ==
    /\ act.pc # "idle"
    /\ modal' = [modal EXCEPT !.busy = FALSE]
    /\ act' = NoAct
    /\ stale' = IF act.pc = "done" THEN {"list", "month"} ELSE stale
    /\ UNCHANGED <<server, qry, page, fetch, month, acts>>

\* Another page, another person, a customer.
OthersChange(i, to) ==
    /\ Act
    /\ status' = [status EXCEPT ![i] = to]
    /\ stale' = {"list", "month"}
    /\ UNCHANGED <<dayOf, qry, page, fetch, month, modal, act>>

-----------------------------------------------------------------------------
(* The specification *)

\* The business is known: both requests are sent, today is selected.
Init ==
    /\ dayOf \in [Appts -> Days]
    /\ status \in [Appts -> Statuses]
    /\ acts = 0
    /\ \E today \in Days :
          /\ \A d \in Days : today <= d
          /\ qry = <<today, today>>
          /\ \E f \in Fetches :
                fetch = [g \in Fetches |-> IF g = f
                            THEN [NoFetch EXCEPT !.pc = "sent", !.range = <<today, today>>]
                            ELSE NoFetch]
    /\ list = Nothing /\ loading = TRUE
    /\ marks = Marks(Nothing)
    /\ month = [NoMonth EXCEPT !.pc = "sent"]
    /\ modal = [open |-> FALSE, id |-> None, st |-> Fresh, busy |-> FALSE]
    /\ act = NoAct
    /\ stale = {"list", "month"}

Next ==
    \/ \E f \in Fetches : ReadList(f) \/ ListAnswered(f) \/ ListFails(f)
    \/ ReadMonth \/ MonthAnswered \/ MonthFails \/ AskMonth
    \/ \E r \in Ranges : Commit(r)
    \/ \E i \in Appts : OpenAppointment(i)
    \/ CloseModal
    \/ \E to \in Statuses : Change(to)
    \/ ServeChange \/ RefuseChange \/ Changed \/ ChangeFails
    \/ \E i \in Appts, to \in Statuses : OthersChange(i, to)

Spec == Init /\ [][Next]_vars

-----------------------------------------------------------------------------
(* Properties *)

\* Type correctness; busy lasts as long as the change.
TypeOK ==
    /\ dayOf \in [Appts -> Days]
    /\ status \in [Appts -> Statuses]
    /\ qry \in Ranges
    /\ DOMAIN list \subseteq Appts /\ \A i \in DOMAIN list : list[i] \in Statuses
    /\ marks \in [Days -> SUBSET Statuses]
    /\ modal.id \in Appts \cup {None} /\ modal.st \in Statuses
    /\ modal.busy <=> act.pc # "idle"
    /\ stale \subseteq {"list", "month"}

Quiet == act.pc = "idle" /\ month.pc = "idle" /\ \A f \in Fetches : fetch[f].pc = "idle"

\* With nothing in flight the page shows what the server has: the list that of
\* the range asked for, the marks those of the month, however many changes were
\* made from it.  What makes it wrong is another person, an answer that failed or
\* came out of order, and for the marks a change answered after the days it
\* belongs to were left (agenda-page.tsx:290-332, 712-732).
PageIsTruthful ==
    Quiet => /\ "list" \notin stale => list = Items(qry)
             /\ "month" \notin stale => marks = Marks(Whole)

=============================================================================
