------------------------------- MODULE Slots -------------------------------
(***************************************************************************)
(* The slot engine of the agenda, as pure operators: which start times a   *)
(* day offers and how full each one is.                                    *)
(*                                                                         *)
(*   backend/src/availability/compute-slots.ts      computeSlotOccupancy   *)
(*   backend/src/appointments/appointments.service.ts  getPortalSlots,     *)
(*                                             assertStartsInOpenWindow    *)
(*   backend/src/appointments/queries/appointments.queries.ts  the busy    *)
(*                                     and the locking overlap queries     *)
(*                                                                         *)
(* Instants are integers (one tick is a fixed number of minutes), day d is *)
(* the half-open range d*DayLength .. (d+1)*DayLength - 1 and schedules    *)
(* hold times of day.  The business time zone has no DST transition here:  *)
(* zonedLocalToUtc is the affine map DayStart(date) + time.                *)
(***************************************************************************)
EXTENDS Integers, FiniteSets

CONSTANTS
    SlotStep,       \* ticks between two candidate starts (15 minutes)
    DayLength,      \* ticks in a day
    DefaultDuration,\* ticks of an appointment whose service has no duration
    NoPro           \* the NULL professional: the business-wide agenda

ASSUME SlotsAssumption ==
    /\ SlotStep \in Nat \ {0}
    /\ DayLength \in Nat \ {0}
    /\ DefaultDuration \in Nat \ {0}

-----------------------------------------------------------------------------
(* Intervals and statuses *)

Statuses == {"pending", "confirmed", "attended", "cancelled", "no_show"}

Occupying == {"pending", "confirmed", "attended"}

\* starts_at < $3 AND ends_at > $2: half-open intervals, touching is allowed.
Overlaps(a, b) == a.starts < b.ends /\ a.ends > b.starts

Expand(interval, prep, buffer) ==
    [starts |-> interval.starts - prep, ends |-> interval.ends + buffer]

\* The scope of a query: with a professional only their rows, without one
\* every row of the business.
InScope(row, pro) == pro = NoPro \/ row.pro = pro

\* A service row is [duration, prep, buffer]; duration 0 stands for NULL, and a
\* query without a service uses the defaults.
NoTiming == [duration |-> 0, prep |-> 0, buffer |-> 0]

\* Broken: a NULL duration is taken as it is.
ServiceDurationNoDefault(service) == service.duration

ServiceDuration(service) ==
    IF service.duration > 0 THEN service.duration ELSE DefaultDuration

-----------------------------------------------------------------------------
(* The opening windows of a day *)

DayStart(date) == date * DayLength

DayOf(t) == t \div DayLength

Weekday(date) == date % 7

\* Professional rows replace the business rows as soon as there is one.
SchedulesFor(businessRows, proRows) ==
    IF proRows # {} THEN proRows ELSE businessRows

WeeklyWindows(date, schedules) ==
    {[starts |-> DayStart(date) + s.starts, ends |-> DayStart(date) + s.ends] :
        s \in {r \in schedules : r.weekday = Weekday(date) /\ r.ends > r.starts}}

ExceptionRows(exceptions, date, pro) ==
    {e \in exceptions : e.date = date /\ (e.pro = NoPro \/ e.pro = pro)}

PickDayExceptions(rows) ==
    LET specific == {e \in rows : e.pro # NoPro}
    IN  IF specific # {} THEN specific ELSE rows

ExceptionWindows(e) ==
    IF e.closed THEN {}
    ELSE {[starts |-> DayStart(e.date) + e.starts,
           ends   |-> DayStart(e.date) + e.ends]}

\* The window sets a query may work with: one per exception row that the
\* unordered query can return first, or the weekly schedule if there is none.
ResolveWindows(date, schedules, exceptions) ==
    IF exceptions = {} THEN {WeeklyWindows(date, schedules)}
    ELSE {ExceptionWindows(e) : e \in exceptions}

-----------------------------------------------------------------------------
(* Occupancy of the candidate starts *)

\* Broken: the busy query forgets the attended appointments.
BusyRowsUnattended(rows, date, pro) ==
    {r \in rows : /\ r.status \in Occupying \ {"attended"}
                  /\ InScope(r, pro)
                  /\ r.starts < DayStart(date + 1)
                  /\ r.ends > DayStart(date)}

\* The rows getPortalSlots counts: occupying, in scope, touching the day.
BusyRows(rows, date, pro) ==
    {r \in rows : /\ r.status \in Occupying
                  /\ InScope(r, pro)
                  /\ r.starts < DayStart(date + 1)
                  /\ r.ends > DayStart(date)}

\* Broken: only the start has to be before closing time.
CursorsPastClosing(window, duration) ==
    {t \in window.starts .. window.ends - 1 : (t - window.starts) % SlotStep = 0}

Cursors(window, duration) ==
    {t \in window.starts .. window.ends :
        /\ (t - window.starts) % SlotStep = 0
        /\ t + duration <= window.ends}

\* Broken: the busy intervals are not expanded by prep and buffer.
BookedRowsBare(busy, t, service) ==
    {r \in busy : Overlaps(Expand([starts |-> t, ends |-> t + ServiceDuration(service)],
                                  service.prep, service.buffer), r)}

BookedRows(busy, t, service) ==
    LET candidate == Expand([starts |-> t, ends |-> t + ServiceDuration(service)],
                            service.prep, service.buffer)
    IN  {r \in busy : Overlaps(candidate, Expand(r, service.prep, service.buffer))}

\* Broken: the place asked for is discounted from the booked ones.
SlotOccupancyDiscounted(windows, busy, service) ==
    {[starts |-> t, booked |-> Cardinality(BookedRows(busy, t, service)) - 1] :
        t \in UNION {Cursors(w, ServiceDuration(service)) : w \in windows}}

SlotOccupancy(windows, busy, service) ==
    {[starts |-> t, booked |-> Cardinality(BookedRows(busy, t, service))] :
        t \in UNION {Cursors(w, ServiceDuration(service)) : w \in windows}}

\* getPortalSlots, from the committed tables to the answer.  The answer is a
\* set: it depends on the exception row the database returns first.
PortalSlots(hours, rows, date, pro, proRows, service) ==
    LET exceptions == PickDayExceptions(ExceptionRows(hours.exceptions, date, pro))
        schedules  == SchedulesFor(hours.business, proRows)
        busy       == BusyRows(rows, date, pro)
    IN  {SlotOccupancy(windows, busy, service) :
            windows \in ResolveWindows(date, schedules, exceptions)}

\* assertStartsInOpenWindow: the engine lists t and it has remaining places.
StartsInOpenWindow(slots, t, capacity) ==
    \E s \in slots : s.starts = t /\ s.booked < capacity

-----------------------------------------------------------------------------
(* The transactional check *)

\* What SQL_LOCK_OVERLAPPING_APPOINTMENTS asks of a row (its id is compared
\* with the excluded one by the caller): occupying, overlapping the bare
\* interval, in scope.
LockMatches(row, interval, pro) ==
    /\ row.status \in Occupying
    /\ Overlaps(row, interval)
    /\ InScope(row, pro)

=============================================================================
