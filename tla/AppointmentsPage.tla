-------------------------- MODULE AppointmentsPage --------------------------
(***************************************************************************)
(* The list of appointments of the staff                                   *)
(* (frontend/src/components/app/citas/citas-page.tsx): filters, pages, and *)
(* the changes made on its rows.                                           *)
(*                                                                         *)
(* Every change of a filter asks for the list again, no request is ever    *)
(* cancelled and whichever answer comes last is shown.  What a row's       *)
(* button starts ends with a load() of the render it was pressed in: with  *)
(* the filters of then.  One filter stands for the six, and a page holds   *)
(* one row.  The modal that makes an appointment is InternalBooking.       *)
(***************************************************************************)
EXTENDS Naturals, FiniteSets

CONSTANTS
    Appts,          \* 1..n, in the order of the list
    Statuses,
    None,           \* the filter "Todos", and the status before it is made
    Requests,       \* names of requests in flight
    MaxActs         \* bound: what the user and the others do

AppointmentsPageAssumption == IsFiniteSet(Appts) /\ "confirmed" \in Statuses

VARIABLES
    status,         \* the server: status of each appointment, or None
    filter, page,
    shown,          \* items and total
    loading,
    loads,          \* name -> a request for the list
    last,           \* history: the request asked for last
    marked,         \* cancellingId, statusUpdatingId, reviewingId, and what is being made
    calls,          \* name -> a change in flight
    excused,        \* history: why shown may be wrong: "order", "unheard"
    acts

ui == <<filter, page, marked>>
view == <<shown, loading>>
vars == <<status, ui, view, loads, last, calls, excused, acts>>

Kinds == {"cancel", "status", "review", "create"}

Matching(f) == {a \in Appts : status[a] # None /\ f \in {None, status[a]}}

\* LIMIT and OFFSET of a page of one row.
Result(q) ==
    LET all == Matching(q[1])
        row == {a \in all : Cardinality({b \in all : b <= a}) = q[2]}
    IN  [rows |-> [a \in row |-> status[a]], total |-> Cardinality(all)]

Empty == [rows |-> [a \in {} |-> None], total |-> 0]

NoLoad == [pc |-> "idle", q |-> None, old |-> FALSE, res |-> Empty]
NoCall == [pc |-> "idle", kind |-> "status", id |-> None, to |-> None, q |-> None]

totalPages == IF shown.total = 0 THEN 1 ELSE shown.total

Act == acts < MaxActs /\ acts' = acts + 1

-----------------------------------------------------------------------------
(* load *)

\* load() of a render with the query q; now is the query of the page.
Load(f, q, now) ==
    /\ loads[f].pc = "idle"
    /\ loads' = [loads EXCEPT ![f] = [NoLoad EXCEPT !.pc = "sent", !.q = q, !.old = q # now]]
    /\ last' = f
    /\ loading' = TRUE

\* The effect on [load]: it runs when the query is another one.
LoadIfNew(q) ==
    IF q = <<filter, page>>
    THEN UNCHANGED <<loads, last, loading>>
    ELSE \E f \in Requests : Load(f, q, q)

ReadList(f) ==
    /\ loads[f].pc = "sent"
    /\ loads' = [loads EXCEPT ![f].pc = "read", ![f].res = Result(loads[f].q)]
    /\ UNCHANGED <<status, ui, view, last, calls, excused, acts>>

ListAnswered(f) ==
    /\ loads[f].pc = "read"
    /\ shown' = loads[f].res
    /\ loading' = FALSE
    /\ loads' = [loads EXCEPT ![f] = NoLoad]
    /\ excused' = IF f = last /\ ~loads[f].old THEN {} ELSE excused \cup {"order"}
    /\ UNCHANGED <<status, ui, last, calls, acts>>

\* What was shown stays.
ListFails(f) ==
    /\ loads[f].pc # "idle"
    /\ loading' = FALSE
    /\ loads' = [loads EXCEPT ![f] = NoLoad]
    /\ excused' = excused \cup {"unheard"}
    /\ UNCHANGED <<status, ui, shown, last, calls, acts>>

-----------------------------------------------------------------------------
(* Filters and pages *)

\* Any of the six, the page size, or all of them cleared.
Filter(f) ==
    /\ Act
    /\ filter' = f /\ page' = 1
    /\ LoadIfNew(<<f, 1>>)
    /\ UNCHANGED <<status, shown, marked, calls, excused>>

\* Anterior and Siguiente.
GoTo(p) ==
    /\ Act
    /\ ~loading
    /\ \/ p = page - 1 /\ p >= 1
       \/ p = page + 1 /\ page < totalPages
    /\ page' = p
    /\ LoadIfNew(<<filter, p>>)
    /\ UNCHANGED <<status, filter, shown, marked, calls, excused>>

-----------------------------------------------------------------------------
(* Changes *)

\* The buttons of a row: which there are depends on the status it is shown with,
\* and one is disabled while its row is the one marked.
Offered(kind, a, to) ==
    CASE kind = "cancel" -> to = "cancelled" /\ shown.rows[a] # "cancelled"
      [] kind = "review" -> to \in {"confirmed", "cancelled"} /\ shown.rows[a] # to
      [] kind = "status" -> to # shown.rows[a]

Send(kind, a, to) ==
    /\ Act
    /\ marked' = [marked EXCEPT ![kind] = a]
    /\ \E c \in Requests :
          /\ calls[c].pc = "idle"
          /\ calls' = [calls EXCEPT ![c] = [pc |-> "sent", kind |-> kind, id |-> a, to |-> to,
                                            q |-> <<filter, page>>]]
    /\ UNCHANGED <<status, filter, page, view, loads, last, excused>>

Change(kind, a, to) ==
    /\ ~loading /\ a \in DOMAIN shown.rows
    /\ Offered(kind, a, to) /\ marked[kind] # a
    /\ Send(kind, a, to)

\* The modal makes one at a time; the page can be used again before it answers.
Create(a) ==
    /\ status[a] = None /\ marked["create"] = None
    /\ Send("create", a, "confirmed")

ServeChange(c) ==
    /\ calls[c].pc = "sent"
    /\ status' = [status EXCEPT ![calls[c].id] = calls[c].to]
    /\ calls' = [calls EXCEPT ![c].pc = "done"]
    /\ UNCHANGED <<ui, view, loads, last, excused, acts>>

\* Broken: the list is not asked for again.
ChangedUnseen(c) ==
    /\ calls[c].pc = "done" /\ calls[c].kind # "create"
    /\ marked' = [marked EXCEPT ![calls[c].kind] = None]
    /\ calls' = [calls EXCEPT ![c] = NoCall]
    /\ UNCHANGED <<status, filter, page, view, loads, last, excused, acts>>

\* load() of the render the button was pressed in; finally unmarks whatever row
\* is marked by now.
Changed(c) ==
    /\ calls[c].pc = "done" /\ calls[c].kind # "create"
    /\ \E f \in Requests : Load(f, calls[c].q, <<filter, page>>)
    /\ marked' = [marked EXCEPT ![calls[c].kind] = None]
    /\ calls' = [calls EXCEPT ![c] = NoCall]
    /\ UNCHANGED <<status, filter, page, shown, excused, acts>>

\* onCreated: the same, and back to the first page, which the effect on load
\* asks for if another one was shown.
Created(c) ==
    /\ calls[c].pc = "done" /\ calls[c].kind = "create"
    /\ page' = 1
    /\ IF page = 1
       THEN \E f \in Requests : Load(f, calls[c].q, <<filter, 1>>)
       ELSE \E f, g \in Requests :
               /\ f # g /\ loads[f].pc = "idle" /\ loads[g].pc = "idle"
               /\ loads' = [loads EXCEPT
                     ![f] = [NoLoad EXCEPT !.pc = "sent", !.q = calls[c].q, !.old = TRUE],
                     ![g] = [NoLoad EXCEPT !.pc = "sent", !.q = <<filter, 1>>]]
               /\ last' = g /\ loading' = TRUE
    /\ marked' = [marked EXCEPT !["create"] = None]
    /\ calls' = [calls EXCEPT ![c] = NoCall]
    /\ UNCHANGED <<status, filter, shown, excused, acts>>

\* Refused, or the answer is lost.
ChangeFails(c) ==
    /\ calls[c].pc # "idle"
    /\ marked' = [marked EXCEPT ![calls[c].kind] = None]
    /\ calls' = [calls EXCEPT ![c] = NoCall]
    /\ IF calls[c].pc = "done"
       THEN /\ excused' = excused \cup {"unheard"}
            /\ loads' = [f \in Requests |-> [loads[f] EXCEPT !.old = @ \/ loads[f].pc # "idle"]]
       ELSE UNCHANGED <<excused, loads>>
    /\ UNCHANGED <<status, filter, page, view, last, acts>>

\* Customers and other pages.
OthersChange(a, to) ==
    /\ Act
    /\ status[a] # None /\ status[a] # to
    /\ status' = [status EXCEPT ![a] = to]
    /\ excused' = excused \cup {"unheard"}
    /\ loads' = [f \in Requests |-> [loads[f] EXCEPT !.old = @ \/ loads[f].pc # "idle"]]
    /\ UNCHANGED <<ui, view, last, calls>>

-----------------------------------------------------------------------------
(* The specification *)

\* The business is known, and with it the first list is asked for.
Init ==
    /\ status \in [Appts -> Statuses \cup {None}]
    /\ filter = None /\ page = 1
    /\ shown = Empty /\ loading = TRUE
    /\ \E f \in Requests :
          /\ last = f
          /\ loads = [g \in Requests |-> IF g = f
                        THEN [NoLoad EXCEPT !.pc = "sent", !.q = <<None, 1>>] ELSE NoLoad]
    /\ marked = [k \in Kinds |-> None]
    /\ calls = [c \in Requests |-> NoCall]
    /\ excused = {} /\ acts = 0

Next ==
    \/ \E f \in Requests : ReadList(f) \/ ListAnswered(f) \/ ListFails(f)
    \/ \E f \in Statuses \cup {None} : Filter(f)
    \/ \E p \in Appts : GoTo(p)
    \/ \E a \in Appts : Create(a)
    \/ \E k \in Kinds \ {"create"}, a \in Appts, to \in Statuses : Change(k, a, to)
    \/ \E c \in Requests : ServeChange(c) \/ Changed(c) \/ Created(c) \/ ChangeFails(c)
    \/ \E a \in Appts, to \in Statuses : OthersChange(a, to)

Spec == Init /\ [][Next]_vars

-----------------------------------------------------------------------------
(* Properties *)

\* Type correctness; a marked row has its change in flight.
TypeOK ==
    /\ status \in [Appts -> Statuses \cup {None}]
    /\ filter \in Statuses \cup {None} /\ page \in Nat \ {0}
    /\ DOMAIN shown.rows \subseteq Appts /\ shown.total <= Cardinality(Appts)
    /\ excused \subseteq {"order", "unheard"}
    /\ \A k \in Kinds : marked[k] # None =>
          \E c \in Requests : calls[c].pc # "idle" /\ calls[c].kind = k /\ calls[c].id = marked[k]

Quiet == \A f \in Requests : loads[f].pc = "idle" /\ calls[f].pc = "idle"

\* When nothing is in flight the list is the page asked for, with the filters
\* shown and the statuses of the server.  The excuses are the only ones: the
\* answer shown was not that of the request made last, that request was made with
\* the filters of an earlier render, or a change or a list was not heard of
\* (citas-page.tsx:94-137, 143-204, 245-251).
ListIsThePageAsked ==
    Quiet /\ excused = {} => shown = Result(<<filter, page>>)

=============================================================================
