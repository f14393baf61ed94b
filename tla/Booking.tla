------------------------------ MODULE Booking ------------------------------
(***************************************************************************)
(* The booking core of the backend: the appointments table of one          *)
(* business and the requests that read and write it concurrently           *)
(* (backend/src/appointments/appointments.service.ts), over PostgreSQL in  *)
(* READ COMMITTED (common/database/database.service.ts) and the one-shot   *)
(* booking sessions in Redis (auth/booking/booking-session.service.ts).    *)
(*                                                                         *)
(* A worker is one HTTP request in flight.  It advances one awaited        *)
(* statement at a time, so requests interleave at every await:             *)
(*                                                                         *)
(*   create         window -> begin -> lock* -> write                      *)
(*   confirmPortal  session -> window -> begin -> lock* -> write           *)
(*                          -> consume -> mark                             *)
(*   reschedule     load -> window -> begin -> lock* -> write              *)
(*   changeStatus   load -> (begin -> lock* -> write | update)             *)
(*   accept, reject read -> load -> as changeStatus                        *)
(*   cancel, cancelByToken   load -> update                                *)
(*                                                                         *)
(* "lock" is SELECT ... FOR UPDATE: its snapshot is taken by BeginTx, then *)
(* the rows are locked one at a time, each re-checked against its newest   *)
(* version.  "write" is the INSERT or UPDATE and the COMMIT after it: until*)
(* the commit nobody else can observe anything but the row lock.           *)
(* The e-mails sent after the commit change no state and are left out; a   *)
(* request they make fail has already committed, like one that ends here.  *)
(***************************************************************************)
EXTENDS Slots

CONSTANTS
    Workers, NoWorker,
    Ids, NoId,              \* appointment ids, as many as the table may hold
    Professionals,
    Services, NoService,
    Catalog,                \* [Services -> [duration, prep, buffer]]
    Offers,                 \* [Professionals -> SUBSET Services]
    Hours,                  \* schedules and exceptions of the business
    Capacity,               \* max(1, businesses.max_bookings_per_slot)
    Tokens, NoToken,        \* booking sessions (jti)
    Requests                \* the requests the outside may send

Pros == Professionals \cup {NoPro}

Ops == {"create", "confirmPortal", "changeStatus", "accept", "reject",
        "reschedule", "cancel", "cancelByToken"}

Request ==
    [op : Ops, id : Ids \cup {NoId}, pro : Pros, svc : Services \cup {NoService},
     starts : Int, status : Statuses, token : Tokens \cup {NoToken}]

\* A row of the table; "free" marks an id that has not been inserted yet.
\* via is an auxiliary field: the booking session the row was created with.
Row ==
    [id : Ids \cup {NoId}, status : Statuses \cup {"free"},
     cancelledBy : {"none", "client", "staff"},
     pro : Pros, svc : Services \cup {NoService}, starts : Int, ends : Int,
     via : Tokens \cup {NoToken}]

\* CHECK (ends_at > starts_at); an id still free holds an hour nobody reads.
StoredRow == {r \in Row : r.starts < r.ends}

ASSUME BookingAssumption ==
    /\ IsFiniteSet(Ids)
    /\ NoId \notin Ids
    /\ NoWorker \notin Workers
    /\ NoPro \notin Professionals
    /\ NoService \notin Services
    /\ NoToken \notin Tokens
    /\ Capacity \in Nat \ {0}
    /\ Catalog \in [Services -> [duration : Nat, prep : Nat, buffer : Nat]]
    /\ Requests \subseteq Request
    /\ \A r \in Requests : r.op \notin {"create", "confirmPortal"} => r.id \in Ids
    /\ \A r \in Requests : r.op = "confirmPortal" => r.token \in Tokens

VARIABLES
    appts,      \* the committed appointments table, [Ids -> Row]
    rowLock,    \* the transaction holding each row lock
    sessions,   \* the Redis record of each booking session
    work,       \* the request each worker is serving and how far it got
    serial      \* history: no occupying write so far was made by a stale worker

vars == <<appts, rowLock, sessions, work, serial>>

-----------------------------------------------------------------------------
(* What a request in flight knows *)

FreeRow(i) ==
    [id |-> i, status |-> "free", cancelledBy |-> "none", pro |-> NoPro,
     svc |-> NoService, starts |-> 0, ends |-> 1, via |-> NoToken]

NoRequest ==
    [op |-> "create", id |-> NoId, pro |-> NoPro, svc |-> NoService,
     starts |-> 0, status |-> "confirmed", token |-> NoToken]

Idle == [pc |-> "idle", req |-> NoRequest, cur |-> FreeRow(NoId),
         snap |-> {}, counted |-> {}, stale |-> FALSE]

Req(w) == work[w].req
Cur(w) == work[w].cur

Inserts(w) == Req(w).op \in {"create", "confirmPortal"}

ChangesStatus(w) == Req(w).op \in {"changeStatus", "accept", "reject"}

\* The status the request writes.
Target(w) ==
    CASE Req(w).op = "confirmPortal" -> "pending"
      [] Req(w).op = "accept" -> "confirmed"
      [] Req(w).op \in {"reject", "cancel", "cancelByToken"} -> "cancelled"
      [] OTHER -> Req(w).status

\* professionalId and serviceId handed to the checks.
ScopeOf(w) == IF Inserts(w) THEN Req(w).pro ELSE Cur(w).pro

ServiceOf(w) == IF Inserts(w) THEN Req(w).svc ELSE Cur(w).svc

TimingOf(svc) == IF svc = NoService THEN NoTiming ELSE Catalog[svc]

\* The interval handed to assertSlotCapacity: a status change uses the one it
\* loaded, the others start where the request says.
IntervalOf(w) ==
    IF ChangesStatus(w)
    THEN [starts |-> Cur(w).starts, ends |-> Cur(w).ends]
    ELSE [starts |-> Req(w).starts,
          ends |-> Req(w).starts + ServiceDuration(TimingOf(ServiceOf(w)))]

\* excludeId: an existing appointment does not count against itself.
MatchesLock(w, i) ==
    /\ i # Req(w).id \/ Inserts(w)
    /\ LockMatches(appts[i], IntervalOf(w), ScopeOf(w))

Matching(w) == {i \in Ids : MatchesLock(w, i)}

-----------------------------------------------------------------------------
(* Steps shared by the actions *)

Go(w, pc) == work' = [work EXCEPT ![w].pc = pc]

ReleaseLocks(w) ==
    rowLock' = [i \in Ids |-> IF rowLock[i] = w THEN NoWorker ELSE rowLock[i]]

\* The request ends, with an answer or an exception: ROLLBACK if a transaction
\* was open, connection released.
Answer(w) ==
    /\ work' = [work EXCEPT ![w] = Idle]
    /\ ReleaseLocks(w)

\* Whether the write of w can leave its row occupying a place.
WritesOccupying(w) == Req(w).op = "reschedule" \/ Target(w) \in Occupying

\* COMMIT, after which w is at next.  History: a worker between the read its
\* write relies on and that write becomes stale, by a commit that may take a
\* place or, if it changes a status, by any commit.
CheckPhases == {"begin", "lock", "write", "update"}

MakesStale(w, v) ==
    work[v].pc \in CheckPhases /\ (WritesOccupying(w) \/ ChangesStatus(v))

Commit(w, next) ==
    /\ work' = [v \in Workers |->
                  IF v = w THEN next
                  ELSE [work[v] EXCEPT !.stale = @ \/ MakesStale(w, v)]]
    /\ ReleaseLocks(w)
    /\ serial' = (serial /\ ~(work[w].stale /\ WritesOccupying(w)))
    /\ UNCHANGED sessions

\* An UPDATE of row i waits for the transaction that holds its lock.
RowAvailable(w, i) == rowLock[i] \in {NoWorker, w}

-----------------------------------------------------------------------------
(* Requests arrive *)

FirstStep(op) ==
    CASE op \in {"accept", "reject"} -> "read"
      [] op = "confirmPortal" -> "session"
      [] op = "create" -> "window"
      [] OTHER -> "load"

\* The table is bounded by Ids: a booking is received only while an id is left
\* for every booking in flight.
IdLeft(op) ==
    op \in {"create", "confirmPortal"} =>
        Cardinality({v \in Workers : work[v].pc \in {"session", "window", "begin", "lock", "write"}
                                     /\ Inserts(v)})
          < Cardinality({i \in Ids : appts[i].status = "free"})

Receive(w, r) ==
    /\ work[w].pc = "idle"
    /\ IdLeft(r.op)
    /\ work' = [work EXCEPT ![w] = [Idle EXCEPT !.pc = FirstStep(r.op), !.req = r]]
    /\ UNCHANGED <<appts, rowLock, sessions, serial>>

-----------------------------------------------------------------------------
(* Reading the appointment *)

Exists(i) == appts[i].status # "free"

\* accept and reject look at the appointment first and do nothing when it is
\* already confirmed / cancelled; otherwise changeStatus loads it again.
ReadFirst(w) ==
    /\ work[w].pc = "read"
    /\ IF Exists(Req(w).id) /\ appts[Req(w).id].status # Target(w)
       THEN Go(w, "load") /\ UNCHANGED rowLock
       ELSE Answer(w)
    /\ UNCHANGED <<appts, sessions, serial>>

\* Broken: a status that takes a seat back is written without a check.
AfterLoadUnchecked(w, row) ==
    IF ChangesStatus(w) THEN "update"
    ELSE IF row.status = "cancelled" THEN "idle"
    ELSE IF Req(w).op = "reschedule" THEN "window" ELSE "update"

\* Broken: cancelled appointments are rescheduled and cancelled like the others.
AfterLoadRevives(w, row) ==
    IF ChangesStatus(w)
    THEN IF row.status \notin Occupying /\ Target(w) \in Occupying
         THEN "begin" ELSE "update"
    ELSE IF Req(w).op = "reschedule" THEN "window" ELSE "update"

\* What the handler does with the row it loaded.  wasOccupying is decided here
\* and never looked at again.
AfterLoad(w, row) ==
    LET wasOccupying == row.status \in Occupying
        willOccupy   == Target(w) \in Occupying
    IN  IF ChangesStatus(w)
        THEN IF ~wasOccupying /\ willOccupy THEN "begin" ELSE "update"
        ELSE IF row.status = "cancelled" THEN "idle"
        ELSE IF Req(w).op = "reschedule" THEN "window" ELSE "update"

Load(w) ==
    /\ work[w].pc = "load"
    /\ LET row  == appts[Req(w).id]
           next == IF Exists(Req(w).id) THEN AfterLoad(w, row) ELSE "idle"
       IN  IF next = "idle"
           THEN Answer(w)
           ELSE /\ work' = [work EXCEPT ![w].pc = next, ![w].cur = row]
                /\ UNCHANGED rowLock
    /\ UNCHANGED <<appts, sessions, serial>>

-----------------------------------------------------------------------------
(* Checking the window: getPortalSlots outside any transaction *)

ProRows(pro) == IF pro = NoPro THEN {} ELSE Hours.pros[pro]

OffersService(pro, svc) ==
    pro # NoPro /\ svc # NoService => svc \in Offers[pro]

InOpenWindow(w) ==
    LET start == Req(w).starts
        pro   == ScopeOf(w)
        rows  == {appts[i] : i \in Ids}
    IN  \E slots \in PortalSlots(Hours, rows, DayOf(start), pro, ProRows(pro),
                                 TimingOf(ServiceOf(w))) :
            StartsInOpenWindow(slots, start, Capacity)

Window(w) ==
    /\ work[w].pc = "window"
    /\ IF OffersService(ScopeOf(w), ServiceOf(w)) /\ InOpenWindow(w)
       THEN Go(w, "begin") /\ UNCHANGED rowLock
       ELSE Answer(w)
    /\ UNCHANGED <<appts, sessions, serial>>

-----------------------------------------------------------------------------
(* The transaction: lock and count, then write and commit *)

\* BEGIN and the snapshot of the locking query, with the status each row was
\* joined with.  Only a status change still trusts something older, its Load.
BeginTx(w) ==
    /\ work[w].pc = "begin"
    /\ work' = [work EXCEPT ![w].pc = "lock",
                            ![w].snap = {<<i, appts[i].status>> : i \in Matching(w)},
                            ![w].stale = @ /\ ChangesStatus(w)]
    /\ UNCHANGED <<appts, rowLock, sessions, serial>>

\* Lock the next row of the snapshot, waiting for its holder.  A row changed in
\* between is re-checked on its newest version, but joined with the old status
\* row: it still counts only if its status is the same and it still matches.
LockRow(w) ==
    /\ work[w].pc = "lock"
    /\ \E s \in work[w].snap :
        LET i == s[1]
            stillCounts == appts[i].status = s[2] /\ MatchesLock(w, i)
        IN  /\ RowAvailable(w, i)
            /\ rowLock' = [rowLock EXCEPT ![i] = w]
            /\ work' = [work EXCEPT ![w].snap = @ \ {s},
                                    ![w].counted = IF stillCounts THEN @ \cup {i} ELSE @]
    /\ UNCHANGED <<appts, sessions, serial>>

\* Broken: rows.length > maxConcurrent.
CountRowsOffByOne(w) ==
    /\ work[w].pc = "lock"
    /\ work[w].snap = {}
    /\ IF Cardinality(work[w].counted) <= Capacity
       THEN Go(w, "write") /\ UNCHANGED rowLock
       ELSE Answer(w)
    /\ UNCHANGED <<appts, sessions, serial>>

\* rows.length >= maxConcurrent throws HorarioNoDisponible and rolls back.
CountRows(w) ==
    /\ work[w].pc = "lock"
    /\ work[w].snap = {}
    /\ IF Cardinality(work[w].counted) < Capacity
       THEN Go(w, "write") /\ UNCHANGED rowLock
       ELSE Answer(w)
    /\ UNCHANGED <<appts, sessions, serial>>

NewRow(w, i) ==
    [id |-> i, status |-> Target(w), cancelledBy |-> "none",
     pro |-> Req(w).pro, svc |-> Req(w).svc,
     starts |-> IntervalOf(w).starts, ends |-> IntervalOf(w).ends,
     via |-> IF Req(w).op = "confirmPortal" THEN Req(w).token ELSE NoToken]

InsertAppointment(w) ==
    /\ work[w].pc = "write"
    /\ Inserts(w)
    /\ \E i \in Ids :
        /\ appts[i].status = "free"
        /\ appts' = [appts EXCEPT ![i] = NewRow(w, i)]
    /\ Commit(w, IF Req(w).op = "confirmPortal"
                 THEN [Idle EXCEPT !.pc = "consume", !.req = Req(w)]
                 ELSE Idle)

\* SQL_UPDATE_SCHEDULE or SQL_UPDATE_STATUS on the appointment itself.
UpdateInTx(w) ==
    /\ work[w].pc = "write"
    /\ ~Inserts(w)
    /\ RowAvailable(w, Req(w).id)
    /\ appts' = [appts EXCEPT ![Req(w).id] =
                    IF Req(w).op = "reschedule"
                    THEN [@ EXCEPT !.starts = IntervalOf(w).starts,
                                   !.ends = IntervalOf(w).ends]
                    ELSE [@ EXCEPT !.status = Target(w), !.cancelledBy = "none"]]
    /\ Commit(w, Idle)

\* Broken: SQL_UPDATE_STATUS leaves cancelled_by alone.
UpdateStatusKeepsAuthor(w) ==
    /\ work[w].pc = "update"
    /\ RowAvailable(w, Req(w).id)
    /\ appts' = [appts EXCEPT ![Req(w).id].status = Target(w),
                              ![Req(w).id].cancelledBy =
                    IF Target(w) # "cancelled" THEN @
                    ELSE IF Req(w).op = "cancelByToken" THEN "client" ELSE "staff"]
    /\ Commit(w, Idle)

\* The status updates outside any transaction; SQL_UPDATE_STATUS clears
\* cancelled_by, SQL_UPDATE_STATUS_WITH_CANCELLED_BY sets it.
UpdateStatus(w) ==
    LET canceller == IF Target(w) # "cancelled" THEN "none"
                     ELSE IF Req(w).op = "cancelByToken" THEN "client" ELSE "staff"
    IN  /\ work[w].pc = "update"
        /\ RowAvailable(w, Req(w).id)
        /\ appts' = [appts EXCEPT ![Req(w).id].status = Target(w),
                                  ![Req(w).id].cancelledBy = canceller]
        /\ Commit(w, Idle)

-----------------------------------------------------------------------------
(* The one-shot booking session *)

\* Broken: the session is consumed before the appointment is made.
CheckSessionConsuming(w) ==
    /\ work[w].pc = "session"
    /\ IF sessions[Req(w).token] = "fresh"
       THEN /\ Go(w, "window") /\ UNCHANGED rowLock
            /\ sessions' = [sessions EXCEPT ![Req(w).token] = "used"]
       ELSE Answer(w) /\ UNCHANGED sessions
    /\ UNCHANGED <<appts, serial>>

\* assertValid at the start of confirmPortal.
CheckSession(w) ==
    /\ work[w].pc = "session"
    /\ IF sessions[Req(w).token] = "fresh"
       THEN Go(w, "window") /\ UNCHANGED rowLock
       ELSE Answer(w)
    /\ UNCHANGED <<appts, sessions, serial>>

\* consume, after the commit: assertValid again ...
ConsumeSession(w) ==
    /\ work[w].pc = "consume"
    /\ IF sessions[Req(w).token] = "fresh"
       THEN Go(w, "mark") /\ UNCHANGED rowLock
       ELSE Answer(w)
    /\ UNCHANGED <<appts, sessions, serial>>

\* ... then the record is written back with used = true and a full TTL.
MarkUsed(w) ==
    /\ work[w].pc = "mark"
    /\ sessions' = [sessions EXCEPT ![Req(w).token] = "used"]
    /\ Answer(w)
    /\ UNCHANGED <<appts, serial>>

\* Google login issues a session; Redis drops it when its TTL elapses.
IssueSession(t) ==
    /\ sessions[t] = "none"
    /\ sessions' = [sessions EXCEPT ![t] = "fresh"]
    /\ UNCHANGED <<appts, rowLock, work, serial>>

ExpireSession(t) ==
    /\ sessions[t] = "fresh"
    /\ sessions' = [sessions EXCEPT ![t] = "gone"]
    /\ UNCHANGED <<appts, rowLock, work, serial>>

-----------------------------------------------------------------------------
(* Failures and deadlocks *)

\* A query, Redis or a required entity fails, or the process dies with the
\* request in flight: what was not committed is rolled back.
Fail(w) ==
    /\ work[w].pc # "idle"
    /\ Answer(w)
    /\ UNCHANGED <<appts, sessions, serial>>

Wanted(w) ==
    CASE work[w].pc = "lock" -> {s[1] : s \in work[w].snap}
      [] work[w].pc = "update" \/ (work[w].pc = "write" /\ ~Inserts(w)) -> {Req(w).id}
      [] OTHER -> {}

Blocked(w) == Wanted(w) # {} /\ \A i \in Wanted(w) : ~RowAvailable(w, i)

Deadlocked(w) ==
    \E S \in SUBSET Workers :
        /\ w \in S
        /\ \A v \in S : Blocked(v) /\ \A i \in Wanted(v) : rowLock[i] \in S

\* Broken: nobody detects deadlocks.
NeverBreakDeadlock(w) == FALSE

\* PostgreSQL aborts a transaction of the cycle after deadlock_timeout.
BreakDeadlock(w) ==
    /\ Deadlocked(w)
    /\ Answer(w)
    /\ UNCHANGED <<appts, sessions, serial>>

-----------------------------------------------------------------------------
(* The specification *)

Init ==
    /\ appts = [i \in Ids |-> FreeRow(i)]
    /\ rowLock = [i \in Ids |-> NoWorker]
    /\ sessions = [t \in Tokens |-> "none"]
    /\ work = [w \in Workers |-> Idle]
    /\ serial = TRUE

\* The statements of a request already received.
Step(w) ==
    \/ ReadFirst(w) \/ Load(w) \/ Window(w)
    \/ BeginTx(w) \/ LockRow(w) \/ CountRows(w)
    \/ InsertAppointment(w) \/ UpdateInTx(w) \/ UpdateStatus(w)
    \/ CheckSession(w) \/ ConsumeSession(w) \/ MarkUsed(w)

Next ==
    \/ \E w \in Workers : \E r \in Requests : Receive(w, r)
    \/ \E w \in Workers : Step(w) \/ Fail(w) \/ BreakDeadlock(w)
    \/ \E t \in Tokens : IssueSession(t) \/ ExpireSession(t)

Spec == Init /\ [][Next]_vars

\* Node keeps running the continuations of a request, PostgreSQL serves row
\* locks in arrival order (so a waiter is not overtaken for ever) and breaks
\* every deadlock.  Nothing forces requests to arrive or to fail.
Fairness ==
    \A w \in Workers : SF_vars(Step(w)) /\ WF_vars(BreakDeadlock(w))

FairSpec == Spec /\ Fairness

-----------------------------------------------------------------------------
(* Properties *)

Pcs == {"idle", "read", "load", "session", "window", "begin", "lock", "write",
        "update", "consume", "mark"}

Work == [pc : Pcs, req : Request, cur : Row,
         snap : SUBSET (Ids \X (Statuses \cup {"free"})), counted : SUBSET Ids, stale : BOOLEAN]

TypeOK ==
    /\ appts \in [Ids -> StoredRow]
    /\ rowLock \in [Ids -> Workers \cup {NoWorker}]
    /\ sessions \in [Tokens -> {"none", "fresh", "used", "gone"}]
    /\ work \in [Workers -> Work]
    /\ serial \in BOOLEAN

\* The appointments of scope p that occupy the instant t.  Those without a
\* professional are a scope of their own: no check of a professional sees them.
Occupants(p, t) ==
    {i \in Ids : /\ appts[i].status \in Occupying
                 /\ appts[i].pro = p
                 /\ appts[i].starts <= t /\ t < appts[i].ends}

\* "Maximo de clientes que pueden agendar el mismo horario": no instant of any
\* professional's agenda holds more occupying appointments than the capacity.
CapacityRespected ==
    \A p \in Pros : \A t \in {appts[i].starts : i \in Ids} :
        Cardinality(Occupants(p, t)) <= Capacity

\* The check-then-write of a booking, a status change or a rescheduling keeps
\* the capacity as long as the read each of those writes relies on is not
\* overtaken: only an occupying write whose check overlapped another commit can
\* exceed it.
SerialCapacity == serial => CapacityRespected

\* cancelled_by says who cancelled and is never left on a live appointment,
\* whatever cancellations, status changes and re-acceptances race.
AttributionOnlyOnCancelled ==
    \A i \in Ids : appts[i].cancelledBy # "none" => appts[i].status = "cancelled"

\* A customer whose booking session is used up has an appointment made with it.
UsedSessionHasBooking ==
    \A t \in Tokens : sessions[t] = "used" => \E i \in Ids : appts[i].via = t

\* "Un solo uso": a booking session makes at most one appointment.
SessionIsOneShot ==
    \A i, j \in Ids : appts[i].via = appts[j].via /\ appts[i].via # NoToken => i = j

\* The abstract agenda is the table without what only the code needs.
AbstractAgenda ==
    [i \in Ids |-> [status |-> appts[i].status, pro |-> appts[i].pro,
                    starts |-> appts[i].starts, ends |-> appts[i].ends]]

Atomic == INSTANCE Agenda WITH agenda <- AbstractAgenda

\* While requests are served one at a time every handler behaves as a single
\* atomic operation of the agenda: it books, moves or re-labels one appointment
\* and leaves nobody without the seat it was promised.
ImplementsAgenda == Atomic!Spec

\* Every request received is eventually answered: lock waits and deadlocks
\* between rescheduling transactions always resolve.
EveryRequestAnswered ==
    \A w \in Workers : work[w].pc # "idle" ~> work[w].pc = "idle"

=============================================================================
