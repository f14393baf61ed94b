----------------------------- MODULE SlotQuery -----------------------------
(***************************************************************************)
(* The read side of the agenda: the portal asks for the slots of a day     *)
(* (POST /portal/appointments/slots) against whatever agenda, schedules    *)
(* and exceptions the tables hold.  The module exists to check the slot    *)
(* engine of Slots against declarative readings of what it should answer.  *)
(***************************************************************************)
EXTENDS Slots

CONSTANTS
    Professionals,
    Capacity,       \* businesses.max_bookings_per_slot
    RowSets,        \* the agendas explored
    HourSets,       \* the schedules and exceptions explored
    Queries         \* the questions asked: [date, pro, service]

\* Schedules and exceptions keep the times of one day; minutes are not negative.
SlotQueryAssumption ==
    /\ Capacity \in Nat \ {0}
    /\ NoPro \notin Professionals
    /\ \A S \in RowSets :
        IsFiniteSet(S) /\ \A r \in S : r.starts \in Int /\ r.ends \in Int
    /\ \A h \in HourSets :
        /\ \A r \in h.business \cup UNION {h.pros[p] : p \in Professionals} :
            r.starts \in 0 .. DayLength /\ r.ends \in 0 .. DayLength
        /\ \A e \in h.exceptions :
            e.closed \/ (e.starts \in 0 .. DayLength /\ e.ends \in 0 .. DayLength)
    /\ \A q \in Queries :
        /\ q.date \in Nat /\ q.pro \in Professionals \cup {NoPro}
        /\ q.service.duration \in Nat /\ q.service.prep \in Nat /\ q.service.buffer \in Nat

VARIABLES
    rows,       \* the appointments table
    hours,      \* business and professional schedules, exceptions
    query,      \* the last question, [date, pro, service]
    offered     \* the last answer: slots with their occupancy

vars == <<rows, hours, query, offered>>

NoQuery == [date |-> 0, pro |-> NoPro, service |-> NoTiming]

Init ==
    /\ rows \in RowSets
    /\ hours \in HourSets
    /\ query = NoQuery
    /\ offered = {}

ProRows(pro) == IF pro = NoPro THEN {} ELSE hours.pros[pro]

GetPortalSlots(q) ==
    /\ query' = q
    /\ offered' \in PortalSlots(hours, rows, q.date, q.pro, ProRows(q.pro), q.service)
    /\ UNCHANGED <<rows, hours>>

Next == \E q \in Queries : GetPortalSlots(q)

Spec == Init /\ [][Next]_vars

-----------------------------------------------------------------------------
(* Properties *)

TypeOK ==
    /\ rows \in RowSets
    /\ hours \in HourSets
    /\ query \in Queries \cup {NoQuery}
    /\ \A s \in offered : s.starts \in Int /\ s.booked \in Nat

OpenSlots == {s \in offered : s.booked < Capacity}

SlotInterval(s) ==
    [starts |-> s.starts, ends |-> s.starts + ServiceDuration(query.service)]

\* A slot shown as open is one the booking transaction accepts: the rows that
\* SQL_LOCK_OVERLAPPING_APPOINTMENTS would count are fewer than the capacity,
\* also those of the neighbouring days that the engine never looks at.
OpenSlotPassesTheLock ==
    \A s \in OpenSlots :
        Cardinality({r \in rows : LockMatches(r, SlotInterval(s), query.pro)}) < Capacity

\* With one place per slot an open slot keeps prep + buffer of the asked
\* service free on both sides, against every counted appointment of that day.
OpenSlotKeepsTheGap ==
    Capacity = 1 =>
        \A s \in OpenSlots, r \in BusyRows(rows, query.date, query.pro) :
            LET gap == query.service.prep + query.service.buffer
            IN  \/ r.ends + gap <= s.starts
                \/ SlotInterval(s).ends + gap <= r.starts

\* When a tick is open, read as the documentation reads it: the exception of
\* the professional beats the one of the business, which beats the weekly
\* schedule of the professional, which beats the one of the business.
TickIsOpen(tick, pro) ==
    LET date  == DayOf(tick)
        time  == tick % DayLength
        Of(p) == {e \in hours.exceptions : e.date = date /\ e.pro = p}
        Inside(r)  == r.starts <= time /\ time < r.ends
        Weekly(S)  == \E r \in S : r.weekday = date % 7 /\ Inside(r)
        Special(S) == \E e \in S : ~e.closed /\ Inside(e)
    IN  CASE pro # NoPro /\ Of(pro) # {} -> Special(Of(pro))
          [] OTHER -> IF Of(NoPro) # {} THEN Special(Of(NoPro))
                      ELSE IF ProRows(pro) # {} THEN Weekly(ProRows(pro))
                      ELSE Weekly(hours.business)

\* Every tick of an offered slot is inside opening hours, so an appointment
\* booked in it never runs past closing time, into a break or a closed day.
OfferedSlotIsInsideHours ==
    \A s \in offered :
        \A tick \in s.starts .. SlotInterval(s).ends - 1 : TickIsOpen(tick, query.pro)

=============================================================================
