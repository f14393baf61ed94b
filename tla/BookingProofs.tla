---------------------------- MODULE BookingProofs ----------------------------
(***************************************************************************)
(* Theorems about Booking for every number of requests, appointments,      *)
(* professionals and sessions and every capacity:                          *)
(*   TypeCorrect     the table and the requests keep their types           *)
(*   SerialCorrect   the capacity survives every interleaving in which no  *)
(*                   occupying write relies on an overtaken read           *)
(*   AttributionCorrect, UsedSessionCorrect                                *)
(*                   what rows and booking sessions keep to in every       *)
(*                   interleaving                                          *)
(*   AloneCorrect    the capacity, with one request in flight              *)
(*   SerialStepsAreAtomic, AloneImplementsAgenda                           *)
(*                   the refinement of Agenda, step by step and as a whole *)
(***************************************************************************)
EXTENDS Booking, FiniteSetTheorems, TLAPS

-----------------------------------------------------------------------------
(* Type correctness *)

\* What the phase of a request says about the request: rows are only loaded by
\* requests that name one, sessions only used by confirmPortal.
PhaseOK(w) ==
    /\ work[w].pc # "idle" => Req(w) \in Requests
    /\ work[w].pc \in {"read", "load", "update"} => ~Inserts(w)
    /\ work[w].pc \in {"session", "consume", "mark"} => Req(w).op = "confirmPortal"

TypeInv == TypeOK /\ \A w \in Workers : PhaseOK(w)

LEMMA RequestTypes ==
    /\ NoRequest \in Request
    /\ \A i \in Ids \cup {NoId} : FreeRow(i) \in StoredRow
    /\ Idle \in Work
    /\ \A r \in Requests : r \in Request
    /\ \A r \in Requests : r.op \notin {"create", "confirmPortal"} => r.id \in Ids
    /\ \A r \in Requests : r.op = "confirmPortal" => r.token \in Tokens
  <1>1. NoRequest \in Request
    BY DEF NoRequest, Request, Ops, Pros, Statuses
  <1>2. \A i \in Ids \cup {NoId} : FreeRow(i) \in Row /\ FreeRow(i) \in StoredRow
    BY DEF FreeRow, StoredRow, Row, Pros
  <1>3. Idle \in Work
    BY <1>1, <1>2 DEF Idle, Work, Pcs
  <1> QED
    BY <1>1, <1>2, <1>3, BookingAssumption

LEMMA DurationType ==
    ASSUME NEW svc \in Services \cup {NoService}
    PROVE  ServiceDuration(TimingOf(svc)) \in Nat \ {0}
  <1>1. TimingOf(svc).duration \in Nat
    BY BookingAssumption DEF TimingOf, NoTiming
  <1> QED
    BY <1>1, SlotsAssumption DEF ServiceDuration

LEMMA TargetType ==
    ASSUME TypeOK, NEW w \in Workers
    PROVE  Target(w) \in Statuses
  BY DEF TypeOK, Work, Request, Target, Req, Statuses

LEMMA IntervalType ==
    ASSUME TypeOK, NEW w \in Workers
    PROVE  /\ IntervalOf(w).starts \in Int /\ IntervalOf(w).ends \in Int
           /\ ~ChangesStatus(w) => IntervalOf(w).starts < IntervalOf(w).ends
  <1>1. /\ Req(w) \in Request
        /\ Cur(w) \in Row
    BY DEF TypeOK, Work, Req, Cur
  <1>2. ServiceOf(w) \in Services \cup {NoService}
    BY <1>1 DEF ServiceOf, Request, Row
  <1>3. ServiceDuration(TimingOf(ServiceOf(w))) \in Nat \ {0}
    BY <1>2, DurationType
  <1> QED
    BY <1>1, <1>3 DEF IntervalOf, Request, Row

LEMMA NewRowType ==
    ASSUME TypeInv, NEW w \in Workers, work[w].pc = "write", NEW i \in Ids
    PROVE  Inserts(w) => NewRow(w, i) \in StoredRow
  <1>1. Req(w) \in Request /\ (Req(w).op = "confirmPortal" => Req(w).token \in Tokens)
    BY RequestTypes DEF TypeInv, TypeOK, Work, PhaseOK, Req
  <1>2. Target(w) \in Statuses
    BY TargetType DEF TypeInv
  <1>3. /\ IntervalOf(w).starts \in Int /\ IntervalOf(w).ends \in Int
        /\ Inserts(w) => IntervalOf(w).starts < IntervalOf(w).ends
    BY IntervalType DEF TypeInv, Inserts, ChangesStatus
  <1> QED
    BY <1>1, <1>2, <1>3 DEF NewRow, StoredRow, Row, Request

\* A request that does not insert and has begun names an appointment.
LEMMA NamedId ==
    ASSUME TypeInv, NEW w \in Workers, work[w].pc # "idle", ~Inserts(w)
    PROVE  Req(w).id \in Ids
  BY RequestTypes DEF TypeInv, PhaseOK, Inserts

LEMMA TypeInit == Init => TypeInv
  <1> SUFFICES ASSUME Init PROVE TypeInv
    OBVIOUS
  <1>1. TypeOK
    BY RequestTypes DEF Init, TypeOK
  <1>2. \A w \in Workers : PhaseOK(w)
    BY DEF Init, PhaseOK, Idle
  <1> QED
    BY <1>1, <1>2 DEF TypeInv

\* Most steps move one worker on and leave the table and the sessions alone.
LEMMA LocalStepType ==
    ASSUME TypeInv, NEW w \in Workers, NEW next \in Work,
           work' = [work EXCEPT ![w] = next],
           rowLock' \in [Ids -> Workers \cup {NoWorker}],
           appts' = appts, serial' = serial,
           sessions' \in [Tokens -> {"none", "fresh", "used", "gone"}],
           next.pc # "idle" => next.req \in Requests,
           next.pc \in {"read", "load", "update"}
               => next.req.op \notin {"create", "confirmPortal"},
           next.pc \in {"session", "consume", "mark"} => next.req.op = "confirmPortal"
    PROVE  TypeInv'
  <1>1. TypeOK'
    BY DEF TypeInv, TypeOK
  <1>2. ASSUME NEW v \in Workers PROVE PhaseOK(v)'
    <2>1. CASE v = w
      BY <2>1 DEF TypeInv, TypeOK, PhaseOK, Req, Inserts
    <2>2. CASE v # w
      <3>1. work'[v] = work[v]
        BY <2>2 DEF TypeInv, TypeOK
      <3> QED
        BY <3>1 DEF TypeInv, PhaseOK, Req, Inserts
    <2> QED
      BY <2>1, <2>2
  <1> QED
    BY <1>1, <1>2 DEF TypeInv

LEMMA AnswerType ==
    ASSUME TypeInv, NEW w \in Workers, Answer(w), appts' = appts, serial' = serial,
           sessions' \in [Tokens -> {"none", "fresh", "used", "gone"}]
    PROVE  TypeInv'
  <1>1. rowLock' \in [Ids -> Workers \cup {NoWorker}]
    BY DEF Answer, ReleaseLocks, TypeInv, TypeOK
  <1>2. work' = [work EXCEPT ![w] = Idle]
    BY DEF Answer
  <1> QED
    BY <1>1, <1>2, RequestTypes, LocalStepType, Idle.pc = "idle" DEF Idle

\* A commit moves its worker to a given record and marks others stale.
LEMMA CommitType ==
    ASSUME TypeInv, NEW w \in Workers, NEW next \in Work, Commit(w, next),
           appts' \in [Ids -> StoredRow],
           next.pc # "idle" => next.req \in Requests,
           next.pc \in {"idle", "consume"},
           next.pc = "consume" => next.req.op = "confirmPortal"
    PROVE  TypeInv'
  <1>1. \A v \in Workers \ {w} : [work[v] EXCEPT !.stale = @ \/ MakesStale(w, v)] \in Work
    BY DEF TypeInv, TypeOK, Work, MakesStale
  <1>2. work' \in [Workers -> Work]
    BY <1>1 DEF Commit
  <1>3. TypeOK'
    BY <1>2 DEF Commit, ReleaseLocks, TypeInv, TypeOK
  <1>4. ASSUME NEW v \in Workers PROVE PhaseOK(v)'
    <2>1. CASE v = w
      BY <2>1 DEF Commit, PhaseOK, Req, Inserts
    <2>2. CASE v # w
      <3>1. work'[v].pc = work[v].pc /\ work'[v].req = work[v].req
        BY <2>2 DEF Commit, TypeInv, TypeOK, Work
      <3> QED
        BY <3>1 DEF TypeInv, PhaseOK, Req, Inserts
    <2> QED
      BY <2>1, <2>2
  <1> QED
    BY <1>3, <1>4 DEF TypeInv

LEMMA TypeNext == TypeInv /\ [Next]_vars => TypeInv'
  <1> SUFFICES ASSUME TypeInv, [Next]_vars PROVE TypeInv'
    OBVIOUS
  <1> USE DEF Go
  <1>1. ASSUME NEW w \in Workers, NEW r \in Requests, Receive(w, r)
        PROVE  TypeInv'
    <2> DEFINE next == [Idle EXCEPT !.pc = FirstStep(r.op), !.req = r]
    <2>1. r \in Request
      BY RequestTypes
    <2>2. /\ FirstStep(r.op) \in Pcs
          /\ FirstStep(r.op) \in {"read", "load", "update"}
                => r.op \notin {"create", "confirmPortal"}
          /\ FirstStep(r.op) \in {"session", "consume", "mark"} => r.op = "confirmPortal"
      BY DEF FirstStep, Pcs
    <2>3. next \in Work /\ next.pc = FirstStep(r.op) /\ next.req = r
      BY <2>1, <2>2, RequestTypes DEF Work, Idle
    <2> QED
      BY <1>1, <2>2, <2>3, LocalStepType DEF Receive, TypeInv, TypeOK
  <1>2. ASSUME NEW w \in Workers, ReadFirst(w) PROVE TypeInv'
    <2>1. CASE Answer(w)
      BY <1>2, <2>1, AnswerType DEF ReadFirst, TypeInv, TypeOK
    <2>2. CASE Go(w, "load") /\ UNCHANGED rowLock
      <3> DEFINE next == [work[w] EXCEPT !.pc = "load"]
      <3>1. next \in Work /\ next.pc = "load" /\ next.req = work[w].req
        BY DEF TypeInv, TypeOK, Work, Pcs
      <3>2. next.req \in Requests /\ next.req.op \notin {"create", "confirmPortal"}
        BY <1>2, <3>1 DEF ReadFirst, TypeInv, PhaseOK, Req, Inserts
      <3>3. work' = [work EXCEPT ![w] = next]
        BY <2>2 DEF TypeInv, TypeOK, Work
      <3> QED
        BY <1>2, <2>2, <3>1, <3>2, <3>3, LocalStepType DEF ReadFirst, TypeInv, TypeOK
    <2> QED
      BY <1>2, <2>1, <2>2 DEF ReadFirst
  <1>3. ASSUME NEW w \in Workers, Load(w) PROVE TypeInv'
    <2> DEFINE row == appts[Req(w).id]
               goal == IF Exists(Req(w).id) THEN AfterLoad(w, row) ELSE "idle"
    <2>1. CASE Answer(w)
      BY <1>3, <2>1, AnswerType DEF Load, TypeInv, TypeOK
    <2>2. CASE /\ work' = [work EXCEPT ![w].pc = goal, ![w].cur = row]
               /\ UNCHANGED rowLock
      <3> DEFINE next == [work[w] EXCEPT !.pc = goal, !.cur = row]
      <3>1. goal \in {"idle", "begin", "update", "window"}
        BY DEF AfterLoad
      <3>2. Req(w) \in Requests /\ ~Inserts(w)
        BY <1>3 DEF Load, TypeInv, PhaseOK
      <3>3. row \in Row
        <4>1. work[w].pc # "idle"
          BY <1>3 DEF Load
        <4> QED
          BY <3>2, <4>1, NamedId DEF TypeInv, TypeOK, StoredRow
      <3>4. next \in Work /\ next.pc = goal /\ next.req = Req(w)
        BY <3>1, <3>3 DEF TypeInv, TypeOK, Work, Pcs, Req
      <3>5. work' = [work EXCEPT ![w] = next]
        BY <2>2 DEF TypeInv, TypeOK, Work
      <3>6. /\ UNCHANGED <<appts, sessions, serial, rowLock>>
            /\ Req(w).op \notin {"create", "confirmPortal"}
        BY <1>3, <2>2, <3>2 DEF Load, Inserts
      <3>7. next.pc \notin {"read", "load", "session", "consume", "mark"}
        BY <3>1, <3>4
      <3> HIDE DEF goal, next
      <3> QED
        BY <3>2, <3>4, <3>5, <3>6, <3>7, LocalStepType DEF TypeInv, TypeOK
    <2> QED
      BY <1>3, <2>1, <2>2 DEF Load
  <1>4. ASSUME NEW w \in Workers, NEW from \in {"window", "lock", "session", "consume"},
               NEW to \in {"begin", "write", "window", "mark"},
               work[w].pc = from, to = "mark" => from = "consume",
               Go(w, to), UNCHANGED <<appts, rowLock, sessions, serial>>
        PROVE  TypeInv'
    <2> DEFINE next == [work[w] EXCEPT !.pc = to]
    <2>1. next \in Work /\ next.pc = to /\ next.req = Req(w)
      BY DEF TypeInv, TypeOK, Work, Pcs, Req
    <2>2. Req(w) \in Requests /\ (to = "mark" => Req(w).op = "confirmPortal")
      BY <1>4 DEF TypeInv, PhaseOK
    <2>3. work' = [work EXCEPT ![w] = next]
      BY <1>4 DEF TypeInv, TypeOK, Work
    <2>4. /\ next.pc \notin {"read", "load", "update", "session", "consume"}
          /\ next.pc = "mark" => next.req.op = "confirmPortal"
      BY <2>1, <2>2
    <2>5. UNCHANGED <<appts, rowLock, sessions, serial>>
      BY <1>4
    <2> HIDE DEF next
    <2> QED
      BY <2>1, <2>2, <2>3, <2>4, <2>5, LocalStepType DEF TypeInv, TypeOK
  <1>5. ASSUME NEW w \in Workers, Window(w) \/ CountRows(w) \/ CheckSession(w) \/ ConsumeSession(w)
        PROVE  TypeInv'
    <2>1. CASE Answer(w)
      BY <1>5, <2>1, AnswerType
      DEF Window, CountRows, CheckSession, ConsumeSession, TypeInv, TypeOK
    <2>2. CASE ~Answer(w)
      BY <1>4, <1>5, <2>2 DEF Window, CountRows, CheckSession, ConsumeSession
    <2> QED
      BY <2>1, <2>2
  <1>6. ASSUME NEW w \in Workers, BeginTx(w) PROVE TypeInv'
    <2> DEFINE S == {<<i, appts[i].status>> : i \in Matching(w)}
               next == [work[w] EXCEPT !.pc = "lock", !.snap = S,
                                       !.stale = @ /\ ChangesStatus(w)]
    <2>1. S \in SUBSET (Ids \X (Statuses \cup {"free"}))
      BY DEF Matching, TypeInv, TypeOK, StoredRow, Row
    <2>2. (work[w].stale /\ ChangesStatus(w)) \in BOOLEAN
      BY DEF TypeInv, TypeOK, Work, ChangesStatus
    <2>3. next \in Work /\ next.pc = "lock" /\ next.req = Req(w)
      BY <2>1, <2>2 DEF TypeInv, TypeOK, Work, Pcs, Req
    <2>4. Req(w) \in Requests
      BY <1>6 DEF BeginTx, TypeInv, PhaseOK
    <2>5. work' = [work EXCEPT ![w] = next]
      BY <1>6 DEF BeginTx, TypeInv, TypeOK, Work
    <2>6. UNCHANGED <<appts, rowLock, sessions, serial>>
      BY <1>6 DEF BeginTx
    <2> HIDE DEF next
    <2> QED
      BY <2>3, <2>4, <2>5, <2>6, LocalStepType DEF TypeInv, TypeOK
  <1>7. ASSUME NEW w \in Workers, LockRow(w) PROVE TypeInv'
    <2>1. PICK s \in work[w].snap :
            /\ rowLock' = [rowLock EXCEPT ![s[1]] = w]
            /\ \E C \in {work[w].counted, work[w].counted \cup {s[1]}} :
                 work' = [work EXCEPT ![w].snap = work[w].snap \ {s}, ![w].counted = C]
      BY <1>7 DEF LockRow
    <2>2. PICK C \in {work[w].counted, work[w].counted \cup {s[1]}} :
            work' = [work EXCEPT ![w].snap = work[w].snap \ {s}, ![w].counted = C]
      BY <2>1
    <2> DEFINE next == [work[w] EXCEPT !.snap = work[w].snap \ {s}, !.counted = C]
    <2>3. work[w] \in Work /\ s[1] \in Ids /\ C \in SUBSET Ids
      BY DEF TypeInv, TypeOK, Work
    <2>4. next \in Work /\ next.pc = "lock" /\ next.req = Req(w)
      BY <1>7, <2>3 DEF LockRow, Work, Req
    <2>5. Req(w) \in Requests
      BY <1>7 DEF LockRow, TypeInv, PhaseOK
    <2>6. work' = [work EXCEPT ![w] = next]
      BY <2>2 DEF TypeInv, TypeOK, Work
    <2>7. rowLock' \in [Ids -> Workers \cup {NoWorker}]
      BY <2>1, <2>3 DEF TypeInv, TypeOK
    <2> HIDE DEF next
    <2> QED
      BY <1>7, <2>4, <2>5, <2>6, <2>7, LocalStepType DEF LockRow, TypeInv, TypeOK
  <1>8. ASSUME NEW w \in Workers, InsertAppointment(w) PROVE TypeInv'
    <2> DEFINE next == IF Req(w).op = "confirmPortal"
                       THEN [Idle EXCEPT !.pc = "consume", !.req = Req(w)]
                       ELSE Idle
    <2>1. Req(w) \in Requests /\ Req(w) \in Request
      BY <1>8 DEF InsertAppointment, TypeInv, PhaseOK, TypeOK, Work, Req
    <2>2. /\ next \in Work
          /\ next.pc \in {"idle", "consume"}
          /\ next.pc = "consume" => next.req = Req(w) /\ Req(w).op = "confirmPortal"
      BY <2>1, RequestTypes DEF Idle, Work, Pcs
    <2>3. appts' \in [Ids -> StoredRow]
      BY <1>8, NewRowType DEF InsertAppointment, TypeInv, TypeOK
    <2>4. Commit(w, next)
      BY <1>8 DEF InsertAppointment
    <2> HIDE DEF next
    <2> QED
      BY <2>1, <2>2, <2>3, <2>4, CommitType
  <1>9. ASSUME NEW w \in Workers, UpdateInTx(w) \/ UpdateStatus(w) PROVE TypeInv'
    <2>1. Req(w).id \in Ids
      BY <1>9, NamedId DEF UpdateInTx, UpdateStatus, TypeInv, PhaseOK
    <2>2. /\ Target(w) \in Statuses
          /\ IntervalOf(w).starts \in Int /\ IntervalOf(w).ends \in Int
          /\ ~ChangesStatus(w) => IntervalOf(w).starts < IntervalOf(w).ends
      BY TargetType, IntervalType DEF TypeInv
    <2> DEFINE canceller == IF Target(w) # "cancelled" THEN "none"
                            ELSE IF Req(w).op = "cancelByToken" THEN "client" ELSE "staff"
    <2> DEFINE old == appts[Req(w).id]
               moved == [old EXCEPT !.starts = IntervalOf(w).starts, !.ends = IntervalOf(w).ends]
    <2>3. appts' \in [Ids -> StoredRow]
      <3>1. old \in Row /\ old.starts < old.ends
        BY <2>1 DEF TypeInv, TypeOK, StoredRow
      <3>2. \A author \in {"none", "client", "staff"} :
              [old EXCEPT !.status = Target(w), !.cancelledBy = author] \in StoredRow
        BY <2>2, <3>1 DEF StoredRow, Row
      <3>3. Req(w).op = "reschedule" => moved \in StoredRow
        BY <2>2, <3>1 DEF StoredRow, Row, ChangesStatus
      <3>4. appts \in [Ids -> StoredRow]
        BY DEF TypeInv, TypeOK
      <3>5. CASE UpdateInTx(w)
        BY <2>1, <3>2, <3>3, <3>4, <3>5 DEF UpdateInTx
      <3>6. CASE UpdateStatus(w)
        <4>1. canceller \in {"none", "client", "staff"}
          OBVIOUS
        <4>2. appts' = [appts EXCEPT ![Req(w).id] = [old EXCEPT !.status = Target(w),
                                                               !.cancelledBy = canceller]]
          BY <2>1, <3>1, <3>4, <3>6 DEF UpdateStatus, StoredRow, Row
        <4> HIDE DEF canceller
        <4> QED
          BY <2>1, <3>2, <3>4, <4>1, <4>2
      <3> QED
        BY <1>9, <3>5, <3>6
    <2>4. Commit(w, Idle)
      BY <1>9 DEF UpdateInTx, UpdateStatus
    <2>5. Idle.pc = "idle"
      BY DEF Idle
    <2> QED
      BY <2>3, <2>4, <2>5, RequestTypes, CommitType
  <1>10. ASSUME NEW w \in Workers, MarkUsed(w) PROVE TypeInv'
    BY <1>10, AnswerType DEF MarkUsed, TypeInv, TypeOK
  <1>11. ASSUME NEW w \in Workers, Fail(w) \/ BreakDeadlock(w) PROVE TypeInv'
    BY <1>11, AnswerType DEF Fail, BreakDeadlock, TypeInv, TypeOK
  <1>12. ASSUME NEW t \in Tokens, IssueSession(t) \/ ExpireSession(t) PROVE TypeInv'
    BY <1>12 DEF IssueSession, ExpireSession, TypeInv, TypeOK, PhaseOK, Req, Inserts
  <1>13. CASE UNCHANGED vars
    BY <1>13 DEF vars, TypeInv, TypeOK, PhaseOK, Req, Inserts
  <1> QED
    BY <1>1, <1>2, <1>3, <1>5, <1>6, <1>7, <1>8, <1>9, <1>10, <1>11, <1>12, <1>13
    DEF Next, Step

\* In every reachable state the appointments table, the row locks, the booking
\* sessions and the requests in flight have their types: in particular a request
\* that updates names an existing id, and every row keeps a legal status.
THEOREM TypeCorrect == Spec => []TypeOK
  <1>1. Init => TypeInv
    BY TypeInit
  <1>2. TypeInv /\ [Next]_vars => TypeInv'
    BY TypeNext
  <1>3. TypeInv => TypeOK
    BY DEF TypeInv
  <1> QED
    BY <1>1, <1>2, <1>3, PTL DEF Spec

-----------------------------------------------------------------------------
(* The capacity *)

FullCapacity ==
    \A p \in Pros : \A t \in Int : Cardinality(Occupants(p, t)) <= Capacity

\* The row a request works on exists and keeps its professional; a status
\* written without a check belongs to a request that saw the seat occupied.
KnownRow(w) ==
    /\ ~Inserts(w) /\ work[w].pc \in {"window", "begin", "lock", "write", "update"}
          => appts[Req(w).id].status # "free" /\ appts[Req(w).id].pro = Cur(w).pro
    /\ work[w].pc = "update" /\ WritesOccupying(w)
          => ChangesStatus(w) /\ Cur(w).status \in Occupying
    /\ work[w].pc \in {"window", "session"} => ~ChangesStatus(w)

\* What a worker that is not stale may rely on: the row it loaded is the row of
\* the table, every row that matches its check is counted or still to be
\* locked with its present status, and once it may write there is room.
Trusted(w) ==
    ~work[w].stale =>
        /\ ChangesStatus(w) /\ work[w].pc \in CheckPhases => appts[Req(w).id] = Cur(w)
        /\ work[w].pc = "lock" =>
              \A i \in Matching(w) :
                  i \in work[w].counted \/ <<i, appts[i].status>> \in work[w].snap
        /\ work[w].pc = "write" => Cardinality(Matching(w)) < Capacity

SeatInv ==
    /\ TypeInv
    /\ \A w \in Workers : KnownRow(w) /\ Trusted(w)
    /\ serial => FullCapacity

LEMMA IdSets ==
    ASSUME NEW S \in SUBSET Ids
    PROVE  IsFiniteSet(S) /\ Cardinality(S) \in Nat
  BY FS_Subset, FS_CardinalityType, BookingAssumption

\* Writing one row keeps the capacity at (p, t) if the row does not come to
\* cover it, covered it already, or finds room among the others.
LEMMA OneWrite ==
    ASSUME TypeOK, NEW j \in Ids, NEW row \in Row, appts' = [appts EXCEPT ![j] = row],
           NEW p \in Pros, NEW t \in Int, Cardinality(Occupants(p, t)) <= Capacity,
           row.status \in Occupying /\ row.pro = p /\ row.starts <= t /\ t < row.ends
               => \/ j \in Occupants(p, t)
                  \/ Cardinality(Occupants(p, t) \ {j}) < Capacity
    PROVE  Cardinality(Occupants(p, t)') <= Capacity
  <1> DEFINE Old == Occupants(p, t)
             New == Occupants(p, t)'
  <1>1. Old \in SUBSET Ids /\ New \in SUBSET Ids
    BY DEF Occupants
  <1>2. \A i \in Ids \ {j} : appts'[i] = appts[i]
    BY DEF TypeOK
  <1>3. New \ {j} \subseteq Old \ {j}
    BY <1>2 DEF Occupants
  <1>4. Capacity \in Nat
    BY BookingAssumption
  <1>5. CASE New \subseteq Old
    <2>1. Cardinality(New) <= Cardinality(Old)
      BY <1>1, <1>5, IdSets, FS_Subset
    <2> QED
      BY <1>1, <1>4, <2>1, IdSets
  <1>6. CASE ~(New \subseteq Old)
    <2>1. j \in New /\ j \notin Old
      BY <1>3, <1>6
    <2>2. Cardinality(Old \ {j}) < Capacity
      BY <2>1 DEF Occupants, TypeOK
    <2>3. New \subseteq (Old \ {j}) \cup {j}
      BY <1>3
    <2> DEFINE Rest == Old \ {j}
    <2>4. IsFiniteSet(Rest) /\ Cardinality(Rest) \in Nat
      BY <1>1, IdSets
    <2>5. Cardinality(Rest \cup {j}) = Cardinality(Rest) + 1 /\ IsFiniteSet(Rest \cup {j})
      BY <2>4, FS_AddElement
    <2>6. Cardinality(New) <= Cardinality(Rest \cup {j})
      BY <2>3, <2>5, FS_Subset
    <2>7. Cardinality(New) \in Nat
      BY <1>1, IdSets
    <2> QED
      BY <1>4, <2>2, <2>4, <2>5, <2>6, <2>7
  <1> QED
    BY <1>5, <1>6

\* The rows the check looks at include every other occupant of every instant of
\* the interval it checks.
LEMMA CheckCovers ==
    ASSUME TypeOK, NEW w \in Workers, NEW j \in Ids, ~Inserts(w) => j = Req(w).id,
           NEW t \in Int, IntervalOf(w).starts <= t, t < IntervalOf(w).ends
    PROVE  Occupants(ScopeOf(w), t) \ {j} \subseteq Matching(w)
  <1> SUFFICES ASSUME NEW i \in Ids, i # j, i \in Occupants(ScopeOf(w), t)
               PROVE  MatchesLock(w, i)
    BY DEF Occupants, Matching
  <1>1. appts[i].starts \in Int /\ appts[i].ends \in Int
    BY DEF TypeOK, StoredRow, Row
  <1>2. IntervalOf(w).starts \in Int /\ IntervalOf(w).ends \in Int
    BY IntervalType
  <1>3. Overlaps(appts[i], IntervalOf(w))
    BY <1>1, <1>2 DEF Overlaps, Occupants
  <1>4. appts[i].status \in Occupying /\ appts[i].pro = ScopeOf(w)
    BY DEF Occupants
  <1> QED
    BY <1>3, <1>4 DEF MatchesLock, LockMatches, InScope

\* A request whose request record and loaded row are the same asks the same.
LEMMA SameQuestion ==
    ASSUME NEW v \in Workers, work'[v].req = work[v].req, work'[v].cur = work[v].cur
    PROVE  /\ Req(v)' = Req(v) /\ Cur(v)' = Cur(v)
           /\ Inserts(v)' = Inserts(v)
           /\ ChangesStatus(v)' = ChangesStatus(v)
           /\ WritesOccupying(v)' = WritesOccupying(v)
           /\ IntervalOf(v)' = IntervalOf(v)
           /\ ScopeOf(v)' = ScopeOf(v)
  <1>1. Req(v)' = Req(v) /\ Cur(v)' = Cur(v)
    BY DEF Req, Cur
  <1>2. Inserts(v)' = Inserts(v) /\ ChangesStatus(v)' = ChangesStatus(v)
    BY <1>1 DEF Inserts, ChangesStatus
  <1>3. Target(v)' = Target(v)
    BY <1>1 DEF Target
  <1>4. ScopeOf(v)' = ScopeOf(v) /\ ServiceOf(v)' = ServiceOf(v)
    BY <1>1, <1>2 DEF ScopeOf, ServiceOf
  <1> QED
    BY <1>1, <1>2, <1>3, <1>4 DEF WritesOccupying, IntervalOf

\* A step of one worker that leaves the table alone disturbs nobody else.
LEMMA LocalStep ==
    ASSUME SeatInv, TypeInv', NEW w \in Workers, appts' = appts, serial' = serial,
           \A v \in Workers \ {w} : work'[v] = work[v],
           KnownRow(w)', Trusted(w)'
    PROVE  SeatInv'
  <1>1. ASSUME NEW v \in Workers, v # w
        PROVE  KnownRow(v)' /\ Trusted(v)'
    <2>1. work'[v] = work[v]
      BY <1>1
    <2>2. /\ Req(v)' = Req(v) /\ Cur(v)' = Cur(v) /\ Inserts(v)' = Inserts(v)
          /\ ChangesStatus(v)' = ChangesStatus(v)
          /\ WritesOccupying(v)' = WritesOccupying(v)
          /\ IntervalOf(v)' = IntervalOf(v) /\ ScopeOf(v)' = ScopeOf(v)
      BY <2>1, SameQuestion
    <2>3. Matching(v)' = Matching(v)
      BY <2>2 DEF Matching, MatchesLock
    <2>4. KnownRow(v) /\ Trusted(v)
      BY DEF SeatInv
    <2>5. KnownRow(v)'
      BY <2>1, <2>2, <2>4 DEF KnownRow
    <2>6. Trusted(v)'
      BY <2>1, <2>2, <2>3, <2>4 DEF Trusted
    <2> QED
      BY <2>5, <2>6
  <1>2. FullCapacity' = FullCapacity
    BY DEF FullCapacity, Occupants
  <1> QED
    BY <1>1, <1>2 DEF SeatInv

LEMMA IdleTrusted ==
    ASSUME NEW w \in Workers, work'[w] = Idle
    PROVE  KnownRow(w)' /\ Trusted(w)'
  BY DEF KnownRow, Trusted, Idle, CheckPhases

LEMMA AnswerStep ==
    ASSUME SeatInv, TypeInv', NEW w \in Workers, Answer(w), appts' = appts, serial' = serial
    PROVE  SeatInv'
  <1>1. work'[w] = Idle /\ \A v \in Workers \ {w} : work'[v] = work[v]
    BY DEF Answer, SeatInv, TypeInv, TypeOK
  <1> QED
    BY <1>1, IdleTrusted, LocalStep

\* After a commit every worker that still trusts its reads may do so.
LEMMA CommitTrusted ==
    ASSUME SeatInv, NEW w \in Workers, NEW next, Commit(w, next),
           next.pc \in {"idle", "consume"},
           NEW j \in Ids, NEW row \in Row, appts' = [appts EXCEPT ![j] = row],
           row.status # "free",
           row.status \in Occupying => WritesOccupying(w),
           appts[j].status = "free" \/ row.pro = appts[j].pro,
           NEW v \in Workers
    PROVE  KnownRow(v)' /\ Trusted(v)'
  <1>1. CASE v = w
    <2>1. work'[w] = next
      BY DEF Commit
    <2> QED
      BY <1>1, <2>1 DEF KnownRow, Trusted, CheckPhases
  <1>2. CASE v # w
    <2>1. /\ work'[v].pc = work[v].pc /\ work'[v].req = work[v].req
          /\ work'[v].cur = work[v].cur /\ work'[v].snap = work[v].snap
          /\ work'[v].counted = work[v].counted
          /\ work'[v].stale = (work[v].stale \/ MakesStale(w, v))
      BY <1>2 DEF Commit, SeatInv, TypeInv, TypeOK, Work
    <2>2. /\ Req(v)' = Req(v) /\ Cur(v)' = Cur(v) /\ Inserts(v)' = Inserts(v)
          /\ ChangesStatus(v)' = ChangesStatus(v)
          /\ WritesOccupying(v)' = WritesOccupying(v)
          /\ IntervalOf(v)' = IntervalOf(v) /\ ScopeOf(v)' = ScopeOf(v)
      BY <2>1, SameQuestion
    <2>3. KnownRow(v) /\ Trusted(v)
      BY DEF SeatInv
    <2>4. \A i \in Ids : appts'[i] = IF i = j THEN row ELSE appts[i]
      BY DEF SeatInv, TypeInv, TypeOK
    <2>5. KnownRow(v)'
      <3>1. CASE ~Inserts(v) /\ work[v].pc \in {"window", "begin", "lock", "write", "update"}
        <4>1. Req(v).id \in Ids
          BY <3>1, NamedId DEF SeatInv
        <4>2. appts[Req(v).id].status # "free" /\ appts[Req(v).id].pro = Cur(v).pro
          BY <2>3, <3>1 DEF KnownRow
        <4>3. appts'[Req(v).id].status # "free" /\ appts'[Req(v).id].pro = Cur(v).pro
          BY <2>4, <4>1, <4>2
        <4> QED
          BY <2>1, <2>2, <2>3, <4>3 DEF KnownRow
      <3>2. CASE ~(~Inserts(v) /\ work[v].pc \in {"window", "begin", "lock", "write", "update"})
        BY <2>1, <2>2, <2>3, <3>2 DEF KnownRow
      <3> QED
        BY <3>1, <3>2
    <2>6. Trusted(v)'
      <3>1. CASE work[v].stale \/ work[v].pc \notin CheckPhases \/ MakesStale(w, v)
        BY <2>1, <3>1 DEF Trusted, CheckPhases
      <3>2. CASE /\ ~work[v].stale /\ work[v].pc \in CheckPhases
                 /\ ~WritesOccupying(w) /\ ~ChangesStatus(v)
        <4>1. row.status \notin Occupying
          BY <3>2
        <4>2. \A i \in Matching(v)' : i \in Matching(v) /\ appts'[i] = appts[i]
          BY <2>2, <2>4, <4>1 DEF Matching, MatchesLock, LockMatches
        <4>3. Cardinality(Matching(v)') <= Cardinality(Matching(v))
          <5>1. Matching(v)' \subseteq Matching(v) /\ Matching(v) \in SUBSET Ids
            BY <4>2 DEF Matching
          <5> QED
            BY <5>1, IdSets, FS_Subset
        <4>4. /\ Cardinality(Matching(v)') \in Nat /\ Cardinality(Matching(v)) \in Nat
              /\ Capacity \in Nat
          BY IdSets, BookingAssumption DEF Matching
        <4>5. work[v].pc = "write" => Cardinality(Matching(v)') < Capacity
          BY <2>3, <3>2, <4>3, <4>4 DEF Trusted
        <4>6. work[v].pc = "lock" =>
                \A i \in Matching(v)' :
                    i \in work[v].counted \/ <<i, appts'[i].status>> \in work[v].snap
          BY <2>3, <3>2, <4>2 DEF Trusted
        <4> QED
          BY <2>1, <2>2, <3>2, <4>5, <4>6 DEF Trusted
      <3> QED
        BY <3>1, <3>2 DEF MakesStale
    <2> QED
      BY <2>5, <2>6
  <1> QED
    BY <1>1, <1>2

\* A commit keeps the whole invariant if the row it writes comes to cover an
\* instant only where it was before or where the check of its worker found room.
LEMMA CommitStep ==
    ASSUME SeatInv, TypeInv', NEW w \in Workers, NEW next, Commit(w, next),
           next.pc \in {"idle", "consume"},
           NEW j \in Ids, NEW row \in Row, appts' = [appts EXCEPT ![j] = row],
           row.status # "free",
           row.status \in Occupying => WritesOccupying(w),
           appts[j].status = "free" \/ row.pro = appts[j].pro,
           ~work[w].stale /\ row.status \in Occupying =>
              \/ /\ row.starts = appts[j].starts /\ row.ends = appts[j].ends
                 /\ row.pro = appts[j].pro /\ appts[j].status \in Occupying
              \/ /\ work[w].pc = "write" /\ (~Inserts(w) => j = Req(w).id)
                 /\ row.pro = ScopeOf(w)
                 /\ row.starts = IntervalOf(w).starts /\ row.ends = IntervalOf(w).ends
    PROVE  SeatInv'
  <1>1. \A v \in Workers : KnownRow(v)' /\ Trusted(v)'
    BY CommitTrusted
  <1>2. ASSUME serial', NEW p \in Pros, NEW t \in Int
        PROVE  Cardinality(Occupants(p, t)') <= Capacity
    <2>1. serial /\ ~(work[w].stale /\ WritesOccupying(w))
      BY <1>2 DEF Commit
    <2>2. Cardinality(Occupants(p, t)) <= Capacity
      BY <2>1 DEF SeatInv, FullCapacity
    <2>3. ASSUME row.status \in Occupying, row.pro = p, row.starts <= t, t < row.ends
          PROVE  j \in Occupants(p, t) \/ Cardinality(Occupants(p, t) \ {j}) < Capacity
      <3>1. ~work[w].stale
        BY <2>1, <2>3
      <3>2. CASE /\ row.starts = appts[j].starts /\ row.ends = appts[j].ends
                 /\ row.pro = appts[j].pro /\ appts[j].status \in Occupying
        BY <2>3, <3>2 DEF Occupants
      <3>3. CASE /\ work[w].pc = "write" /\ (~Inserts(w) => j = Req(w).id)
                 /\ row.pro = ScopeOf(w)
                 /\ row.starts = IntervalOf(w).starts /\ row.ends = IntervalOf(w).ends
        <4> DEFINE Others == Occupants(p, t) \ {j}
        <4>1. Others \subseteq Matching(w)
          BY <2>3, <3>3, CheckCovers DEF SeatInv, TypeInv
        <4>2. Cardinality(Matching(w)) < Capacity
          BY <3>1, <3>3 DEF SeatInv, Trusted
        <4>3. Matching(w) \in SUBSET Ids /\ Others \in SUBSET Ids
          BY DEF Matching, Occupants
        <4>4. Cardinality(Others) <= Cardinality(Matching(w))
          BY <4>1, <4>3, IdSets, FS_Subset
        <4>5. /\ Cardinality(Others) \in Nat /\ Cardinality(Matching(w)) \in Nat
              /\ Capacity \in Nat
          BY <4>3, IdSets, BookingAssumption
        <4> QED
          BY <4>2, <4>4, <4>5
      <3> QED
        BY <2>3, <3>1, <3>2, <3>3
    <2> QED
      BY <2>2, <2>3, OneWrite DEF SeatInv, TypeInv
  <1>3. serial' => FullCapacity'
    BY <1>2 DEF FullCapacity
  <1> QED
    BY <1>1, <1>3 DEF SeatInv

LEMMA SeatInit == Init => SeatInv
  <1> SUFFICES ASSUME Init PROVE SeatInv
    OBVIOUS
  <1>1. TypeInv
    BY TypeInit
  <1>2. \A w \in Workers : KnownRow(w) /\ Trusted(w)
    BY DEF Init, KnownRow, Trusted, Idle, CheckPhases
  <1>3. ASSUME NEW p \in Pros, NEW t \in Int
        PROVE  Cardinality(Occupants(p, t)) <= Capacity
    <2>1. Occupants(p, t) = {}
      BY DEF Init, Occupants, FreeRow, Occupying
    <2>2. Cardinality(Occupants(p, t)) = 0
      BY <2>1, FS_EmptySet
    <2> QED
      BY <2>2, BookingAssumption
  <1> QED
    BY <1>1, <1>2, <1>3 DEF SeatInv, FullCapacity

LEMMA Unmoved ==
    ASSUME SeatInv, TypeInv', UNCHANGED <<appts, work, serial>>
    PROVE  SeatInv'
  <1>1. ASSUME NEW v \in Workers PROVE KnownRow(v)' /\ Trusted(v)'
    <2>1. work'[v] = work[v] /\ appts' = appts
      OBVIOUS
    <2>2. /\ Req(v)' = Req(v) /\ Cur(v)' = Cur(v) /\ Inserts(v)' = Inserts(v)
          /\ ChangesStatus(v)' = ChangesStatus(v)
          /\ WritesOccupying(v)' = WritesOccupying(v)
          /\ IntervalOf(v)' = IntervalOf(v) /\ ScopeOf(v)' = ScopeOf(v)
      BY <2>1, SameQuestion
    <2>3. Matching(v)' = Matching(v)
      BY <2>1, <2>2 DEF Matching, MatchesLock
    <2> QED
      BY <2>1, <2>2, <2>3 DEF SeatInv, KnownRow, Trusted
  <1>2. FullCapacity' = FullCapacity
    BY DEF FullCapacity, Occupants
  <1> QED
    BY <1>1, <1>2 DEF SeatInv

LEMMA SeatNext == SeatInv /\ [Next]_vars => SeatInv'
  <1> SUFFICES ASSUME SeatInv, [Next]_vars PROVE SeatInv'
    OBVIOUS
  <1> USE DEF Go
  <1>0. TypeInv /\ TypeInv'
    BY TypeNext DEF SeatInv
  <1>1. ASSUME NEW w \in Workers, NEW r \in Requests, Receive(w, r)
        PROVE  SeatInv'
    <2>1. work'[w] = [Idle EXCEPT !.pc = FirstStep(r.op), !.req = r]
      BY <1>0, <1>1 DEF Receive, TypeInv, TypeOK
    <2>2. work'[w].pc = FirstStep(r.op) /\ work'[w].req = r
      BY <2>1 DEF Idle
    <2>3. KnownRow(w)' /\ Trusted(w)'
      BY <2>2 DEF FirstStep, KnownRow, Trusted, CheckPhases, Inserts, ChangesStatus, Req
    <2>4. appts' = appts /\ serial' = serial /\ \A v \in Workers \ {w} : work'[v] = work[v]
      BY <1>0, <1>1 DEF Receive, TypeInv, TypeOK
    <2> QED
      BY <1>0, <2>3, <2>4, LocalStep
  <1>2. ASSUME NEW w \in Workers, NEW pc \in {"load", "begin", "write", "window", "mark"},
               Go(w, pc), UNCHANGED <<appts, serial>>,
               pc = "begin" => work[w].pc = "window",
               pc = "write" => CountRows(w),
               pc = "window" => work[w].pc = "session"
        PROVE  SeatInv'
    <2>1. /\ work'[w].pc = pc /\ work'[w].req = work[w].req /\ work'[w].cur = work[w].cur
          /\ work'[w].stale = work[w].stale
          /\ \A v \in Workers \ {w} : work'[v] = work[v]
      BY <1>0, <1>2 DEF TypeInv, TypeOK, Work
    <2>2. /\ Req(w)' = Req(w) /\ Cur(w)' = Cur(w) /\ Inserts(w)' = Inserts(w)
          /\ ChangesStatus(w)' = ChangesStatus(w)
          /\ WritesOccupying(w)' = WritesOccupying(w)
          /\ IntervalOf(w)' = IntervalOf(w) /\ ScopeOf(w)' = ScopeOf(w)
      BY <2>1, SameQuestion
    <2>3. Matching(w)' = Matching(w)
      BY <1>2, <2>2 DEF Matching, MatchesLock
    <2>4. KnownRow(w) /\ Trusted(w)
      BY DEF SeatInv
    <2>5. pc = "window" => Inserts(w) /\ ~ChangesStatus(w)
      BY <1>0, <1>2 DEF TypeInv, PhaseOK, Inserts, ChangesStatus
    <2>6. pc = "write" => work[w].pc = "lock"
      BY <1>2 DEF CountRows
    <2>7. KnownRow(w)'
      BY <1>2, <2>1, <2>2, <2>4, <2>5, <2>6 DEF KnownRow
    <2>8. pc = "write" /\ ~work[w].stale => Cardinality(Matching(w)) < Capacity
      <3> SUFFICES ASSUME pc = "write", ~work[w].stale
                   PROVE  Cardinality(Matching(w)) < Capacity
        OBVIOUS
      <3>1. CountRows(w) /\ work'[w].pc = "write"
        BY <1>2, <2>1
      <3>2. work[w].snap = {} /\ Cardinality(work[w].counted) < Capacity
        <4>1. ~Answer(w)
          BY <1>0, <3>1 DEF Answer, Idle, TypeInv, TypeOK
        <4> QED
          BY <3>1, <4>1 DEF CountRows
      <3>3. Matching(w) \subseteq work[w].counted
        BY <2>4, <2>6, <3>2 DEF Trusted
      <3>4. work[w].counted \in SUBSET Ids /\ Matching(w) \in SUBSET Ids
        BY <1>0 DEF TypeInv, TypeOK, Work, Matching
      <3>5. Cardinality(Matching(w)) <= Cardinality(work[w].counted)
        BY <3>3, <3>4, IdSets, FS_Subset
      <3>6. /\ Cardinality(Matching(w)) \in Nat /\ Cardinality(work[w].counted) \in Nat
            /\ Capacity \in Nat
        BY <3>4, IdSets, BookingAssumption
      <3> QED
        BY <3>2, <3>5, <3>6
    <2>9. Trusted(w)'
      BY <1>2, <2>1, <2>2, <2>3, <2>4, <2>6, <2>8 DEF Trusted, CheckPhases, KnownRow
    <2> QED
      BY <1>0, <1>2, <2>1, <2>7, <2>9, LocalStep
  <1>3. ASSUME NEW w \in Workers,
               ReadFirst(w) \/ Window(w) \/ CountRows(w) \/ CheckSession(w) \/ ConsumeSession(w)
        PROVE  SeatInv'
    <2>1. UNCHANGED <<appts, serial>>
      BY <1>3 DEF ReadFirst, Window, CountRows, CheckSession, ConsumeSession
    <2>2. CASE Answer(w)
      BY <1>0, <2>1, <2>2, AnswerStep
    <2>3. CASE ~Answer(w)
      BY <1>2, <1>3, <2>1, <2>3
      DEF ReadFirst, Window, CountRows, CheckSession, ConsumeSession
    <2> QED
      BY <2>2, <2>3
  <1>4. ASSUME NEW w \in Workers, Load(w) PROVE SeatInv'
    <2> DEFINE row == appts[Req(w).id]
               goal == AfterLoad(w, row)
    <2>1. UNCHANGED <<appts, serial>> /\ work[w].pc = "load"
      BY <1>4 DEF Load
    <2>2. CASE Answer(w)
      BY <1>0, <2>1, <2>2, AnswerStep
    <2>3. CASE ~Answer(w)
      <3>1. Exists(Req(w).id) /\ work' = [work EXCEPT ![w].pc = goal, ![w].cur = row]
        BY <1>4, <2>3 DEF Load
      <3>2. goal \in {"idle", "begin", "update", "window"}
        BY DEF AfterLoad
      <3>3. /\ work'[w].pc = goal /\ work'[w].cur = row /\ work'[w].req = Req(w)
            /\ \A v \in Workers \ {w} : work'[v] = work[v]
        BY <1>0, <3>1 DEF TypeInv, TypeOK, Work, Req
      <3>4. /\ Req(w)' = Req(w) /\ Cur(w)' = row /\ Inserts(w)' = Inserts(w)
            /\ ChangesStatus(w)' = ChangesStatus(w) /\ Target(w)' = Target(w)
            /\ WritesOccupying(w)' = WritesOccupying(w)
        BY <3>3 DEF Req, Cur, Inserts, ChangesStatus, Target, WritesOccupying
      <3>5. ~Inserts(w) /\ Req(w).op \in Ops
        BY <1>0, <2>1, RequestTypes DEF TypeInv, PhaseOK, Request
      <3>6. goal = "update" /\ WritesOccupying(w) => ChangesStatus(w) /\ row.status \in Occupying
        <4>1. CASE Req(w).op = "reschedule"
          BY <4>1 DEF AfterLoad, ChangesStatus
        <4>2. CASE ChangesStatus(w)
          <5>1. Req(w).op # "reschedule"
            BY <4>2 DEF ChangesStatus
          <5> QED
            BY <4>2, <5>1 DEF AfterLoad, WritesOccupying
        <4>3. CASE Req(w).op \in {"cancel", "cancelByToken"}
          BY <4>3 DEF WritesOccupying, Target, Occupying
        <4> QED
          BY <3>5, <4>1, <4>2, <4>3 DEF Inserts, ChangesStatus, Ops
      <3>7. goal = "window" => ~ChangesStatus(w)
        BY DEF AfterLoad
      <3>8. row.status # "free"
        BY <3>1 DEF Exists
      <3> HIDE DEF goal
      <3>9. KnownRow(w)'
        BY <2>1, <3>2, <3>3, <3>4, <3>6, <3>7, <3>8 DEF KnownRow
      <3>10. Trusted(w)'
        BY <2>1, <3>2, <3>3, <3>4 DEF Trusted
      <3> QED
        BY <1>0, <2>1, <3>3, <3>9, <3>10, LocalStep
    <2> QED
      BY <2>2, <2>3
  <1>5. ASSUME NEW w \in Workers, BeginTx(w) PROVE SeatInv'
    <2>1. /\ work[w].pc = "begin" /\ UNCHANGED <<appts, serial>>
          /\ work'[w].pc = "lock" /\ work'[w].req = work[w].req /\ work'[w].cur = work[w].cur
          /\ work'[w].snap = {<<i, appts[i].status>> : i \in Matching(w)}
          /\ \A v \in Workers \ {w} : work'[v] = work[v]
      BY <1>0, <1>5 DEF BeginTx, TypeInv, TypeOK, Work
    <2>2. work'[w].stale = (work[w].stale /\ ChangesStatus(w))
      BY <1>0, <1>5 DEF BeginTx, TypeInv, TypeOK, Work
    <2>3. /\ Req(w)' = Req(w) /\ Cur(w)' = Cur(w) /\ Inserts(w)' = Inserts(w)
          /\ ChangesStatus(w)' = ChangesStatus(w)
          /\ WritesOccupying(w)' = WritesOccupying(w)
          /\ IntervalOf(w)' = IntervalOf(w) /\ ScopeOf(w)' = ScopeOf(w)
      BY <2>1, SameQuestion
    <2>4. Matching(w)' = Matching(w)
      BY <2>1, <2>3 DEF Matching, MatchesLock
    <2>5. KnownRow(w) /\ Trusted(w)
      BY DEF SeatInv
    <2>6. KnownRow(w)'
      BY <2>1, <2>3, <2>5 DEF KnownRow
    <2>7. Trusted(w)'
      BY <2>1, <2>2, <2>3, <2>4, <2>5 DEF Trusted, CheckPhases
    <2> QED
      BY <1>0, <2>1, <2>6, <2>7, LocalStep
  <1>6. ASSUME NEW w \in Workers, LockRow(w) PROVE SeatInv'
    <2>1. PICK s \in work[w].snap :
            work' = [work EXCEPT ![w].snap = work[w].snap \ {s},
                                 ![w].counted =
                IF appts[s[1]].status = s[2] /\ MatchesLock(w, s[1])
                THEN work[w].counted \cup {s[1]} ELSE work[w].counted]
      BY <1>6 DEF LockRow
    <2>2. /\ work[w].pc = "lock" /\ UNCHANGED <<appts, serial>>
          /\ work'[w].pc = "lock" /\ work'[w].req = work[w].req /\ work'[w].cur = work[w].cur
          /\ work'[w].stale = work[w].stale
          /\ work'[w].snap = work[w].snap \ {s}
          /\ work'[w].counted = IF appts[s[1]].status = s[2] /\ MatchesLock(w, s[1])
                                THEN work[w].counted \cup {s[1]} ELSE work[w].counted
          /\ \A v \in Workers \ {w} : work'[v] = work[v]
      BY <1>0, <1>6, <2>1 DEF LockRow, TypeInv, TypeOK, Work
    <2>3. /\ Req(w)' = Req(w) /\ Cur(w)' = Cur(w) /\ Inserts(w)' = Inserts(w)
          /\ ChangesStatus(w)' = ChangesStatus(w)
          /\ WritesOccupying(w)' = WritesOccupying(w)
          /\ IntervalOf(w)' = IntervalOf(w) /\ ScopeOf(w)' = ScopeOf(w)
      BY <2>2, SameQuestion
    <2>4. Matching(w)' = Matching(w)
      BY <2>2, <2>3 DEF Matching, MatchesLock
    <2>5. KnownRow(w) /\ Trusted(w)
      BY DEF SeatInv
    <2>6. KnownRow(w)'
      BY <2>2, <2>3, <2>5 DEF KnownRow
    <2>7. ASSUME ~work[w].stale, NEW i \in Matching(w)
          PROVE  i \in work'[w].counted \/ <<i, appts[i].status>> \in work'[w].snap
      <3>1. i \in work[w].counted \/ <<i, appts[i].status>> \in work[w].snap
        BY <2>2, <2>5, <2>7 DEF Trusted
      <3>2. CASE s = <<i, appts[i].status>>
        BY <2>2, <3>2 DEF Matching
      <3>3. CASE s # <<i, appts[i].status>>
        BY <2>2, <3>1, <3>3
      <3> QED
        BY <3>2, <3>3
    <2>8. Trusted(w)'
      BY <2>2, <2>3, <2>4, <2>5, <2>7 DEF Trusted, CheckPhases
    <2> QED
      BY <1>0, <2>2, <2>6, <2>8, LocalStep
  <1>7. ASSUME NEW w \in Workers, InsertAppointment(w) PROVE SeatInv'
    <2> DEFINE next == IF Req(w).op = "confirmPortal"
                       THEN [Idle EXCEPT !.pc = "consume", !.req = Req(w)]
                       ELSE Idle
    <2>1. PICK i \in Ids : /\ appts[i].status = "free"
                           /\ appts' = [appts EXCEPT ![i] = NewRow(w, i)]
      BY <1>7 DEF InsertAppointment
    <2>2. /\ Commit(w, next) /\ next.pc \in {"idle", "consume"}
          /\ work[w].pc = "write" /\ Inserts(w)
      BY <1>7 DEF InsertAppointment, Idle
    <2>3. /\ NewRow(w, i) \in Row
          /\ NewRow(w, i).status = Target(w) /\ NewRow(w, i).pro = ScopeOf(w)
          /\ NewRow(w, i).starts = IntervalOf(w).starts
          /\ NewRow(w, i).ends = IntervalOf(w).ends
      BY <1>0, <2>2, NewRowType DEF NewRow, ScopeOf, StoredRow
    <2>4. Target(w) # "free" /\ (Target(w) \in Occupying => WritesOccupying(w))
      BY <1>0, TargetType DEF TypeInv, Statuses, WritesOccupying
    <2> HIDE DEF next
    <2> QED
      BY <1>0, <2>1, <2>2, <2>3, <2>4, CommitStep
  <1>8. ASSUME NEW w \in Workers, UpdateInTx(w) PROVE SeatInv'
    <2> DEFINE old == appts[Req(w).id]
               moved == [old EXCEPT !.starts = IntervalOf(w).starts, !.ends = IntervalOf(w).ends]
               marked == [old EXCEPT !.status = Target(w), !.cancelledBy = "none"]
               row == IF Req(w).op = "reschedule" THEN moved ELSE marked
    <2>1. /\ work[w].pc = "write" /\ ~Inserts(w) /\ Commit(w, Idle)
          /\ appts' = [appts EXCEPT ![Req(w).id] = row]
          /\ Idle.pc = "idle"
      BY <1>8 DEF UpdateInTx, Idle
    <2>2. Req(w).id \in Ids
      BY <1>0, <2>1, NamedId
    <2>3. old \in Row /\ old.status # "free" /\ old.pro = Cur(w).pro /\ ScopeOf(w) = Cur(w).pro
      BY <1>0, <2>1, <2>2 DEF SeatInv, KnownRow, TypeInv, TypeOK, StoredRow, ScopeOf
    <2>4. /\ Target(w) \in Statuses
          /\ IntervalOf(w).starts \in Int /\ IntervalOf(w).ends \in Int
      BY <1>0, TargetType, IntervalType DEF TypeInv
    <2>5. CASE Req(w).op = "reschedule"
      <3>1. /\ row \in Row /\ row.status = old.status /\ row.pro = old.pro
            /\ row.starts = IntervalOf(w).starts /\ row.ends = IntervalOf(w).ends
        BY <2>3, <2>4, <2>5 DEF Row
      <3>2. WritesOccupying(w)
        BY <2>5 DEF WritesOccupying
      <3> HIDE DEF row
      <3> QED
        BY <1>0, <2>1, <2>2, <2>3, <3>1, <3>2, CommitStep
    <2>6. CASE Req(w).op # "reschedule"
      <3>1. /\ row \in Row /\ row.status = Target(w) /\ row.pro = old.pro
            /\ row.starts = old.starts /\ row.ends = old.ends
        BY <2>3, <2>4, <2>6 DEF Row
      <3>2. Target(w) # "free" /\ (Target(w) \in Occupying => WritesOccupying(w))
        BY <2>4 DEF Statuses, WritesOccupying
      <3>3. Target(w) \in Occupying => ChangesStatus(w)
        <4>1. Req(w).op \in Ops
          BY <1>0 DEF TypeInv, TypeOK, Work, Request, Req
        <4>2. Req(w).op \in {"cancel", "cancelByToken"} => Target(w) = "cancelled"
          BY DEF Target
        <4> QED
          BY <2>1, <2>6, <4>1, <4>2 DEF Ops, Inserts, ChangesStatus, Occupying
      <3>4. ~work[w].stale /\ ChangesStatus(w) =>
              row.starts = IntervalOf(w).starts /\ row.ends = IntervalOf(w).ends
        BY <2>1, <3>1 DEF SeatInv, Trusted, CheckPhases, IntervalOf
      <3> HIDE DEF row
      <3> QED
        BY <1>0, <2>1, <2>2, <2>3, <3>1, <3>2, <3>3, <3>4, CommitStep
    <2> QED
      BY <2>5, <2>6
  <1>9. ASSUME NEW w \in Workers, UpdateStatus(w) PROVE SeatInv'
    <2> DEFINE old == appts[Req(w).id]
               canceller == IF Target(w) # "cancelled" THEN "none"
                            ELSE IF Req(w).op = "cancelByToken" THEN "client" ELSE "staff"
               row == [old EXCEPT !.status = Target(w), !.cancelledBy = canceller]
    <2>1. work[w].pc = "update" /\ Commit(w, Idle) /\ Idle.pc = "idle" /\ ~Inserts(w)
      BY <1>0, <1>9 DEF UpdateStatus, Idle, TypeInv, PhaseOK
    <2>2. Req(w).id \in Ids
      BY <1>0, <2>1, NamedId
    <2>3. appts' = [appts EXCEPT ![Req(w).id] = row]
      BY <1>0, <1>9, <2>2 DEF UpdateStatus, TypeInv, TypeOK, StoredRow, Row
    <2>4. old \in Row
      BY <1>0, <2>2 DEF TypeInv, TypeOK, StoredRow
    <2>5. Target(w) \in Statuses
      BY <1>0, TargetType DEF TypeInv
    <2>6. /\ row \in Row /\ row.status = Target(w) /\ row.pro = old.pro
          /\ row.starts = old.starts /\ row.ends = old.ends
      BY <2>4, <2>5 DEF Row
    <2>7. Target(w) # "free" /\ (Target(w) \in Occupying => WritesOccupying(w))
      BY <2>5 DEF Statuses, WritesOccupying
    <2>8. ~work[w].stale /\ WritesOccupying(w) => old.status \in Occupying
      BY <2>1 DEF SeatInv, KnownRow, Trusted, CheckPhases
    <2> HIDE DEF row
    <2> QED
      BY <1>0, <2>1, <2>2, <2>3, <2>6, <2>7, <2>8, CommitStep
  <1>10. ASSUME NEW w \in Workers, MarkUsed(w) \/ Fail(w) \/ BreakDeadlock(w)
         PROVE  SeatInv'
    BY <1>0, <1>10, AnswerStep DEF MarkUsed, Fail, BreakDeadlock
  <1>11. ASSUME NEW t \in Tokens, IssueSession(t) \/ ExpireSession(t) PROVE SeatInv'
    BY <1>0, <1>11, Unmoved DEF IssueSession, ExpireSession
  <1>12. CASE UNCHANGED vars
    BY <1>0, <1>12, Unmoved DEF vars
  <1> QED
    BY <1>1, <1>3, <1>4, <1>5, <1>6, <1>7, <1>8, <1>9, <1>10, <1>11, <1>12 DEF Next, Step

\* However the requests interleave, fail and deadlock, the capacity of every
\* professional holds at every instant unless some booking, rescheduling or
\* re-occupying status change was written from a read that another commit had
\* overtaken: the one way to overbook is the window left by the row locks.
THEOREM SerialCorrect == Spec => []SerialCapacity
  <1>1. Init => SeatInv
    BY SeatInit
  <1>2. SeatInv /\ [Next]_vars => SeatInv'
    BY SeatNext
  <1>3. SeatInv => SerialCapacity
    BY DEF SeatInv, FullCapacity, SerialCapacity, CapacityRespected, TypeInv, TypeOK, StoredRow, Row
  <1> QED
    BY <1>1, <1>2, <1>3, PTL DEF Spec

-----------------------------------------------------------------------------
(* Rows, sessions and row locks *)

\* A worker between its commit and the consume of its session has booked, a
\* worker that locks or holds rows has a transaction open.
SessionHasRow(w) ==
    work[w].pc \in {"consume", "mark"} => \E i \in Ids : appts[i].via = Req(w).token

LocksRows(w) ==
    /\ \A i \in Ids : rowLock[i] = w => work[w].pc \in {"lock", "write"} /\ Exists(i)
    /\ work[w].pc = "lock" => \A s \in work[w].snap : Exists(s[1])

\* An id that is still free was never booked with a session.
LedgerInv ==
    /\ TypeInv
    /\ AttributionOnlyOnCancelled
    /\ UsedSessionHasBooking
    /\ \A i \in Ids : ~Exists(i) => appts[i].via = NoToken
    /\ \A w \in Workers : SessionHasRow(w) /\ LocksRows(w)

LEMMA LedgerInit == Init => LedgerInv
  <1> SUFFICES ASSUME Init PROVE LedgerInv
    OBVIOUS
  <1>1. TypeInv
    BY TypeInit
  <1>2. /\ AttributionOnlyOnCancelled
        /\ UsedSessionHasBooking
        /\ \A i \in Ids : ~Exists(i) => appts[i].via = NoToken
    BY DEF Init, FreeRow, AttributionOnlyOnCancelled, UsedSessionHasBooking
  <1>3. \A w \in Workers : SessionHasRow(w) /\ LocksRows(w)
    BY BookingAssumption DEF Init, Idle, SessionHasRow, LocksRows
  <1> QED
    BY <1>1, <1>2, <1>3 DEF LedgerInv

\* What a step of w has to show when it leaves the table alone.
LEMMA LedgerLocal ==
    ASSUME LedgerInv, TypeInv', NEW w \in Workers, appts' = appts,
           \A v \in Workers \ {w} : work'[v] = work[v],
           \A i \in Ids, v \in Workers : rowLock'[i] = v => rowLock[i] = v \/ v = w,
           SessionHasRow(w)', LocksRows(w)',
           \A t \in Tokens : sessions'[t] = "used" =>
              sessions[t] = "used" \/ \E i \in Ids : appts[i].via = t
    PROVE  LedgerInv'
  <1>1. ASSUME NEW v \in Workers, v # w
        PROVE  SessionHasRow(v)' /\ LocksRows(v)'
    <2>1. work'[v] = work[v]
      BY <1>1
    <2>2. \A i \in Ids : rowLock'[i] = v => rowLock[i] = v
      BY <1>1
    <2> QED
      BY <2>1, <2>2 DEF LedgerInv, SessionHasRow, LocksRows, Exists, Req
  <1>2. AttributionOnlyOnCancelled' /\ UsedSessionHasBooking'
    BY DEF LedgerInv, AttributionOnlyOnCancelled, UsedSessionHasBooking
  <1>3. \A i \in Ids : ~Exists(i)' => appts'[i].via = NoToken
    BY DEF LedgerInv, Exists
  <1> QED
    BY <1>1, <1>2, <1>3 DEF LedgerInv

\* An answer drops every lock of its worker.
LEMMA LedgerAnswer ==
    ASSUME LedgerInv, TypeInv', NEW w \in Workers, Answer(w), appts' = appts,
           \A t \in Tokens : sessions'[t] = "used" =>
              sessions[t] = "used" \/ \E i \in Ids : appts[i].via = t
    PROVE  LedgerInv'
  <1>1. work'[w] = Idle /\ \A v \in Workers \ {w} : work'[v] = work[v]
    BY DEF Answer, LedgerInv, TypeInv, TypeOK
  <1>2. \A i \in Ids : rowLock'[i] # w
    BY BookingAssumption DEF Answer, ReleaseLocks
  <1>3. \A i \in Ids, v \in Workers : rowLock'[i] = v => rowLock[i] = v
    BY BookingAssumption DEF Answer, ReleaseLocks
  <1>4. SessionHasRow(w)' /\ LocksRows(w)'
    BY <1>1, <1>2 DEF SessionHasRow, LocksRows, Idle
  <1> QED
    BY <1>1, <1>3, <1>4, LedgerLocal

\* A statement that only moves its worker on, with the locks it had.
LEMMA LedgerGo ==
    ASSUME LedgerInv, TypeInv', NEW w \in Workers, UNCHANGED <<appts, rowLock, sessions>>,
           work'[w].pc \notin {"consume", "mark"} \/ SessionHasRow(w)',
           work[w].pc \in {"lock", "write"} => work'[w].pc \in {"lock", "write"},
           work'[w].pc = "lock" => \A s \in work'[w].snap : Exists(s[1]),
           \A v \in Workers \ {w} : work'[v] = work[v]
    PROVE  LedgerInv'
  <1>1. SessionHasRow(w)'
    BY DEF SessionHasRow
  <1>2. LocksRows(w)'
    BY DEF LedgerInv, LocksRows, Exists
  <1> QED
    BY <1>1, <1>2, LedgerLocal

\* A commit writes one row that exists afterwards; it keeps the session a row
\* was booked with and names who cancelled it only if it is cancelled.
LEMMA LedgerCommit ==
    ASSUME LedgerInv, TypeInv', NEW w \in Workers, NEW next, Commit(w, next),
           NEW j \in Ids, NEW row, appts' = [appts EXCEPT ![j] = row],
           Exists(j) => row.via = appts[j].via,
           Exists(j) => row.status # "free",
           row.status = "free" => row.via = NoToken,
           row.cancelledBy # "none" => row.status = "cancelled",
           next.pc \in {"idle", "consume"},
           next.pc = "consume" => row.via = next.req.token
    PROVE  LedgerInv'
  <1>1. \A i \in Ids : appts'[i] = IF i = j THEN row ELSE appts[i]
    BY DEF LedgerInv, TypeInv, TypeOK
  <1>2. \A i \in Ids : Exists(i) => Exists(i)' /\ appts'[i].via = appts[i].via
    BY <1>1 DEF Exists
  <1>3. \A t \in Tokens : (\E i \in Ids : appts[i].via = t) => \E i \in Ids : appts'[i].via = t
    <2>1. \A i \in Ids, t \in Tokens : appts[i].via = t => Exists(i)
      BY BookingAssumption DEF LedgerInv
    <2> QED
      BY <1>2, <2>1
  <1>4. AttributionOnlyOnCancelled'
    BY <1>1 DEF LedgerInv, AttributionOnlyOnCancelled
  <1>5. UsedSessionHasBooking'
    BY <1>3 DEF Commit, LedgerInv, UsedSessionHasBooking
  <1>6. \A i \in Ids : ~Exists(i)' => appts'[i].via = NoToken
    BY <1>1 DEF LedgerInv, Exists
  <1>7. ASSUME NEW v \in Workers PROVE SessionHasRow(v)' /\ LocksRows(v)'
    <2>1. CASE v = w
      <3>1. work'[w] = next
        BY DEF Commit
      <3>2. \A i \in Ids : rowLock'[i] # w
        BY BookingAssumption DEF Commit, ReleaseLocks
      <3>3. appts'[j].via = row.via
        BY <1>1
      <3> QED
        BY <2>1, <3>1, <3>2, <3>3 DEF SessionHasRow, LocksRows, Req
    <2>2. CASE v # w
      <3>1. /\ work'[v].pc = work[v].pc /\ work'[v].req = work[v].req
            /\ work'[v].snap = work[v].snap
        BY <2>2 DEF Commit, LedgerInv, TypeInv, TypeOK, Work
      <3>2. \A i \in Ids : rowLock'[i] = v => rowLock[i] = v
        BY BookingAssumption DEF Commit, ReleaseLocks
      <3>3. SessionHasRow(v) /\ LocksRows(v)
        BY DEF LedgerInv
      <3>4. SessionHasRow(v)'
        <4>1. SUFFICES ASSUME work[v].pc \in {"consume", "mark"}
                       PROVE  \E i \in Ids : appts'[i].via = Req(v).token
          BY <3>1 DEF SessionHasRow, Req
        <4>2. Req(v).token \in Tokens
          BY <4>1, RequestTypes DEF LedgerInv, TypeInv, PhaseOK
        <4> QED
          BY <1>3, <3>3, <4>1, <4>2 DEF SessionHasRow
      <3>5. LocksRows(v)'
        <4>1. \A i \in Ids : rowLock'[i] = v => work'[v].pc \in {"lock", "write"} /\ Exists(i)'
          BY <1>2, <3>1, <3>2, <3>3 DEF LocksRows
        <4>2. ASSUME work[v].pc = "lock", NEW s \in work[v].snap PROVE Exists(s[1])'
          <5>1. s[1] \in Ids
            BY DEF LedgerInv, TypeInv, TypeOK, Work
          <5> QED
            BY <1>2, <3>3, <4>2, <5>1 DEF LocksRows
        <4> QED
          BY <3>1, <4>1, <4>2 DEF LocksRows
      <3> QED
        BY <3>4, <3>5
    <2> QED
      BY <2>1, <2>2
  <1> QED
    BY <1>4, <1>5, <1>6, <1>7 DEF LedgerInv

LEMMA LedgerNext == LedgerInv /\ [Next]_vars => LedgerInv'
  <1> SUFFICES ASSUME LedgerInv, [Next]_vars PROVE LedgerInv'
    OBVIOUS
  <1>0. TypeInv /\ TypeInv' /\ TypeOK
    BY TypeNext DEF LedgerInv, TypeInv
  <1>1. ASSUME NEW w \in Workers, NEW r \in Requests, Receive(w, r)
        PROVE  LedgerInv'
    <2>1. /\ work'[w].pc = FirstStep(r.op)
          /\ work[w].pc = "idle"
          /\ \A v \in Workers \ {w} : work'[v] = work[v]
          /\ UNCHANGED <<appts, rowLock, sessions>>
      BY <1>0, <1>1 DEF Receive, TypeOK, Idle
    <2>2. FirstStep(r.op) \notin {"consume", "mark", "lock"}
      BY DEF FirstStep
    <2> QED
      BY <1>0, <2>1, <2>2, LedgerGo
  <1>2. ASSUME NEW w \in Workers, NEW pc \in {"load", "begin", "write", "window", "mark"},
               Go(w, pc), UNCHANGED <<appts, rowLock, sessions>>,
               work[w].pc # "write",
               work[w].pc = "lock" => pc = "write",
               pc = "mark" => work[w].pc = "consume"
        PROVE  LedgerInv'
    <2>1. /\ work'[w].pc = pc /\ work'[w].req = work[w].req
          /\ \A v \in Workers \ {w} : work'[v] = work[v]
      BY <1>0, <1>2 DEF Go, TypeOK, Work
    <2>2. pc = "mark" => SessionHasRow(w)'
      BY <1>2, <2>1 DEF LedgerInv, SessionHasRow, Req
    <2> QED
      BY <1>0, <1>2, <2>1, <2>2, LedgerGo
  <1>3. ASSUME NEW w \in Workers,
               \/ ReadFirst(w) \/ Window(w) \/ CountRows(w)
               \/ CheckSession(w) \/ ConsumeSession(w)
        PROVE  LedgerInv'
    <2>1. UNCHANGED <<appts, sessions, serial>>
      BY <1>3 DEF ReadFirst, Window, CountRows, CheckSession, ConsumeSession
    <2>2. CASE Answer(w)
      BY <1>0, <2>1, <2>2, LedgerAnswer
    <2>3. CASE ~Answer(w)
      BY <1>2, <1>3, <2>1, <2>3
      DEF ReadFirst, Window, CountRows, CheckSession, ConsumeSession
    <2> QED
      BY <2>2, <2>3
  <1>4. ASSUME NEW w \in Workers, Load(w) PROVE LedgerInv'
    <2> DEFINE row == appts[Req(w).id]
               goal == IF Exists(Req(w).id) THEN AfterLoad(w, row) ELSE "idle"
    <2>1. CASE Answer(w)
      BY <1>0, <1>4, <2>1, LedgerAnswer DEF Load
    <2>2. CASE /\ work' = [work EXCEPT ![w].pc = goal, ![w].cur = row]
               /\ UNCHANGED rowLock
      <3>1. goal \in {"idle", "begin", "update", "window"}
        BY DEF AfterLoad
      <3>2. /\ work'[w].pc = goal
            /\ \A v \in Workers \ {w} : work'[v] = work[v]
        BY <1>0, <2>2 DEF TypeOK, Work
      <3>3. UNCHANGED <<appts, rowLock, sessions>> /\ work[w].pc = "load"
        BY <1>4, <2>2 DEF Load
      <3> HIDE DEF goal
      <3> QED
        BY <1>0, <3>1, <3>2, <3>3, LedgerGo
    <2> QED
      BY <1>4, <2>1, <2>2 DEF Load
  <1>5. ASSUME NEW w \in Workers, BeginTx(w) PROVE LedgerInv'
    <2>1. /\ UNCHANGED <<appts, rowLock, sessions>>
          /\ work[w].pc = "begin" /\ work'[w].pc = "lock"
          /\ work'[w].snap = {<<i, appts[i].status>> : i \in Matching(w)}
          /\ \A v \in Workers \ {w} : work'[v] = work[v]
      BY <1>0, <1>5 DEF BeginTx, TypeOK, Work
    <2>2. \A i \in Matching(w) : Exists(i)
      BY DEF Matching, MatchesLock, LockMatches, Occupying, Exists
    <2> QED
      BY <1>0, <2>1, <2>2, LedgerGo
  <1>6. ASSUME NEW w \in Workers, LockRow(w) PROVE LedgerInv'
    <2>1. PICK s \in work[w].snap :
            /\ rowLock' = [rowLock EXCEPT ![s[1]] = w]
            /\ work' = [work EXCEPT ![w].snap = work[w].snap \ {s},
                                    ![w].counted =
                          IF appts[s[1]].status = s[2] /\ MatchesLock(w, s[1])
                          THEN work[w].counted \cup {s[1]} ELSE work[w].counted]
      BY <1>6 DEF LockRow
    <2>2. /\ UNCHANGED <<appts, sessions>>
          /\ work[w].pc = "lock" /\ work'[w].pc = "lock"
          /\ work'[w].snap = work[w].snap \ {s}
          /\ \A v \in Workers \ {w} : work'[v] = work[v]
      BY <1>0, <1>6, <2>1 DEF LockRow, TypeOK, Work
    <2>3. \A z \in work[w].snap : Exists(z[1])
      BY <2>2 DEF LedgerInv, LocksRows
    <2>4. \A i \in Ids : rowLock'[i] = IF i = s[1] THEN w ELSE rowLock[i]
      BY <1>0, <2>1 DEF TypeOK
    <2>5. SessionHasRow(w)' /\ LocksRows(w)'
      BY <2>2, <2>3, <2>4 DEF LedgerInv, SessionHasRow, LocksRows, Exists
    <2> QED
      BY <1>0, <2>2, <2>4, <2>5, LedgerLocal
  <1>7. ASSUME NEW w \in Workers, InsertAppointment(w) PROVE LedgerInv'
    <2> DEFINE next == IF Req(w).op = "confirmPortal"
                       THEN [Idle EXCEPT !.pc = "consume", !.req = Req(w)]
                       ELSE Idle
    <2>1. PICK i \in Ids : /\ ~Exists(i)
                           /\ appts' = [appts EXCEPT ![i] = NewRow(w, i)]
      BY <1>7 DEF InsertAppointment, Exists
    <2>2. /\ Commit(w, next) /\ next.pc \in {"idle", "consume"}
          /\ next.pc = "consume" => NewRow(w, i).via = next.req.token
      BY <1>7 DEF InsertAppointment, Idle, NewRow
    <2>3. NewRow(w, i).status \in Statuses /\ NewRow(w, i).cancelledBy = "none"
      BY <1>0, TargetType DEF NewRow
    <2> HIDE DEF next
    <2> QED
      BY <1>0, <2>1, <2>2, <2>3, LedgerCommit DEF Statuses
  <1>8. ASSUME NEW w \in Workers, UpdateInTx(w) \/ UpdateStatus(w) PROVE LedgerInv'
    <2> DEFINE old == appts[Req(w).id]
    <2>1. Commit(w, Idle) /\ Idle.pc = "idle"
      BY <1>8 DEF UpdateInTx, UpdateStatus, Idle
    <2>2. Req(w).id \in Ids
      BY <1>0, <1>8, NamedId DEF UpdateInTx, UpdateStatus, TypeInv, PhaseOK
    <2>3. old \in Row /\ Target(w) \in Statuses
      BY <1>0, <2>2, TargetType DEF TypeOK, StoredRow
    <2>4. PICK row \in {[old EXCEPT !.starts = IntervalOf(w).starts, !.ends = IntervalOf(w).ends]}
                       \cup {[old EXCEPT !.status = Target(w), !.cancelledBy = a] :
                                a \in IF Target(w) = "cancelled" THEN {"none", "client", "staff"}
                                      ELSE {"none"}} :
            appts' = [appts EXCEPT ![Req(w).id] = row]
      <3>1. CASE UpdateInTx(w)
        BY <3>1 DEF UpdateInTx
      <3>2. CASE UpdateStatus(w)
        <4> DEFINE canceller == IF Target(w) # "cancelled" THEN "none"
                                ELSE IF Req(w).op = "cancelByToken" THEN "client" ELSE "staff"
        <4>1. appts' = [appts EXCEPT ![Req(w).id] = [old EXCEPT !.status = Target(w),
                                                               !.cancelledBy = canceller]]
          BY <1>0, <2>2, <2>3, <3>2 DEF UpdateStatus, TypeOK, StoredRow, Row
        <4> QED
          BY <4>1
      <3> QED
        BY <1>8, <3>1, <3>2
    <2>5. /\ row.via = old.via
          /\ Exists(Req(w).id) => row.status # "free"
          /\ row.status = "free" => old.status = "free"
          /\ row.cancelledBy # "none" => row.status = "cancelled"
      <3>1. old.cancelledBy # "none" => old.status = "cancelled"
        BY <2>2 DEF LedgerInv, AttributionOnlyOnCancelled
      <3> QED
        BY <2>3, <2>4, <3>1 DEF Row, Statuses, Exists
    <2>6. row.status = "free" => row.via = NoToken
      BY <2>2, <2>5 DEF LedgerInv, Exists
    <2> QED
      BY <1>0, <2>1, <2>2, <2>4, <2>5, <2>6, LedgerCommit
  <1>9. ASSUME NEW w \in Workers, MarkUsed(w) \/ Fail(w) \/ BreakDeadlock(w)
        PROVE  LedgerInv'
    <2>1. Answer(w) /\ appts' = appts
      BY <1>9 DEF MarkUsed, Fail, BreakDeadlock
    <2>2. ASSUME NEW t \in Tokens, sessions'[t] = "used", sessions[t] # "used"
          PROVE  \E i \in Ids : appts[i].via = t
      <3>1. MarkUsed(w) /\ t = Req(w).token
        BY <1>0, <1>9, <2>2 DEF MarkUsed, Fail, BreakDeadlock, TypeOK
      <3> QED
        BY <3>1 DEF MarkUsed, LedgerInv, SessionHasRow
    <2> QED
      BY <1>0, <2>1, <2>2, LedgerAnswer
  <1>10. ASSUME NEW t \in Tokens, IssueSession(t) \/ ExpireSession(t) PROVE LedgerInv'
    <2>1. /\ UNCHANGED <<appts, rowLock, work>>
          /\ \A u \in Tokens : sessions'[u] = "used" => sessions[u] = "used"
      BY <1>0, <1>10 DEF IssueSession, ExpireSession, TypeOK
    <2> QED
      BY <1>0, <2>1
      DEF LedgerInv, AttributionOnlyOnCancelled, UsedSessionHasBooking, SessionHasRow,
          LocksRows, Exists, Req
  <1>11. CASE UNCHANGED vars
    BY <1>0, <1>11
    DEF vars, LedgerInv, AttributionOnlyOnCancelled, UsedSessionHasBooking, SessionHasRow,
        LocksRows, Exists, Req
  <1> QED
    BY <1>1, <1>3, <1>4, <1>5, <1>6, <1>7, <1>8, <1>9, <1>10, <1>11 DEF Next, Step

\* cancelled_by names somebody only on a cancelled appointment, however many
\* cancellations, status changes, acceptances and reschedulings race: every UPDATE
\* that touches the status writes cancelled_by in the same statement, and a
\* rescheduling writes neither.
THEOREM AttributionCorrect == Spec => []AttributionOnlyOnCancelled
  <1>1. LedgerInv => AttributionOnlyOnCancelled
    BY DEF LedgerInv
  <1> QED
    BY <1>1, LedgerInit, LedgerNext, PTL DEF Spec

\* A booking session is never used up for nothing: consume runs after the commit
\* of the appointment made with it, and no later write of that row, by anybody,
\* takes the appointment away from the session.
THEOREM UsedSessionCorrect == Spec => []UsedSessionHasBooking
  <1>1. LedgerInv => UsedSessionHasBooking
    BY DEF LedgerInv
  <1> QED
    BY <1>1, LedgerInit, LedgerNext, PTL DEF Spec

-----------------------------------------------------------------------------
(* One request at a time *)

\* What a request that is served alone may rely on: nothing it read is stale,
\* the row it loaded is still the row of the table, and what it moves was not
\* cancelled.
Undisturbed(w) ==
    /\ ~work[w].stale
    /\ ~Inserts(w) /\ work[w].pc \in {"window", "begin", "lock", "write", "update"}
          => appts[Req(w).id] = Cur(w)
    /\ Req(w).op = "reschedule" /\ work[w].pc \in {"window", "begin", "lock", "write"}
          => Cur(w).status # "cancelled"
    /\ work[w].pc = "update" => Req(w).op # "reschedule"

AloneInv ==
    /\ SeatInv
    /\ serial
    /\ \A w \in Workers : Undisturbed(w)

LEMMA AloneInit == Init => AloneInv
  <1> SUFFICES ASSUME Init PROVE AloneInv
    OBVIOUS
  <1>1. \A w \in Workers : Undisturbed(w)
    BY DEF Init, Undisturbed, Idle, NoRequest, Inserts, Req
  <1> QED
    BY <1>1, SeatInit DEF AloneInv, Init

\* A step of the only worker that writes nothing.
LEMMA AloneLocal ==
    ASSUME NEW w, Workers = {w}, AloneInv, SeatInv', serial' = serial, Undisturbed(w)'
    PROVE  AloneInv'
  BY DEF AloneInv

LEMMA AloneIdle ==
    ASSUME NEW w, Workers = {w}, AloneInv, SeatInv', serial', work'[w] = Idle
    PROVE  AloneInv'
  BY DEF AloneInv, Undisturbed, Idle, NoRequest, Inserts, Req

LEMMA AloneNext ==
    ASSUME NEW u, Workers = {u}, AloneInv, [Next]_vars
    PROVE  AloneInv'
  <1>0. /\ TypeInv /\ TypeOK /\ SeatInv /\ SeatInv' /\ TypeOK'
        /\ u \in Workers /\ serial /\ Undisturbed(u)
    BY SeatNext DEF AloneInv, SeatInv, TypeInv
  <1>1. ASSUME NEW r \in Requests, Receive(u, r) PROVE AloneInv'
    <2>1. /\ work'[u].pc = FirstStep(r.op) /\ work'[u].req = r /\ ~work'[u].stale
          /\ serial' = serial
      BY <1>0, <1>1 DEF Receive, TypeOK, Idle
    <2>2. Undisturbed(u)'
      BY <2>1 DEF Undisturbed, FirstStep, Inserts, Req
    <2> QED
      BY <1>0, <2>1, <2>2, AloneLocal
  <1>2. ASSUME NEW pc \in {"load", "begin", "write", "window", "mark"},
               Go(u, pc), UNCHANGED <<appts, serial>>,
               pc = "begin" => work[u].pc = "window",
               pc = "write" => work[u].pc = "lock",
               pc = "window" => work[u].pc = "session"
        PROVE  AloneInv'
    <2>1. /\ work'[u].pc = pc /\ work'[u].req = work[u].req /\ work'[u].cur = work[u].cur
          /\ work'[u].stale = work[u].stale
      BY <1>0, <1>2 DEF Go, TypeOK, Work
    <2>2. pc = "window" => Req(u).op = "confirmPortal"
      BY <1>0, <1>2 DEF TypeInv, PhaseOK
    <2>3. Undisturbed(u)'
      BY <1>0, <1>2, <2>1, <2>2 DEF Undisturbed, Inserts, Req, Cur
    <2> QED
      BY <1>0, <1>2, <2>3, AloneLocal
  <1>3. ASSUME \/ ReadFirst(u) \/ Window(u) \/ CountRows(u)
               \/ CheckSession(u) \/ ConsumeSession(u)
        PROVE  AloneInv'
    <2>1. UNCHANGED <<appts, sessions, serial>>
      BY <1>3 DEF ReadFirst, Window, CountRows, CheckSession, ConsumeSession
    <2>2. CASE Answer(u)
      BY <1>0, <2>1, <2>2, AloneIdle DEF Answer, TypeOK
    <2>3. CASE ~Answer(u)
      BY <1>2, <1>3, <2>1, <2>3
      DEF ReadFirst, Window, CountRows, CheckSession, ConsumeSession
    <2> QED
      BY <2>2, <2>3
  <1>4. ASSUME Load(u) PROVE AloneInv'
    <2> DEFINE row == appts[Req(u).id]
               goal == IF Exists(Req(u).id) THEN AfterLoad(u, row) ELSE "idle"
    <2>0. UNCHANGED <<appts, serial>>
      BY <1>4 DEF Load
    <2>1. CASE Answer(u)
      BY <1>0, <2>0, <2>1, AloneIdle DEF Answer, TypeOK
    <2>2. CASE goal # "idle" /\ work' = [work EXCEPT ![u].pc = goal, ![u].cur = row]
      <3>1. /\ work'[u].pc = goal /\ work'[u].req = work[u].req /\ work'[u].cur = row
            /\ work'[u].stale = work[u].stale
        BY <1>0, <2>2 DEF TypeOK, Work
      <3>2. /\ Req(u).op = "reschedule" => row.status # "cancelled"
            /\ goal = "update" => Req(u).op # "reschedule"
        BY <2>2 DEF AfterLoad, ChangesStatus
      <3> HIDE DEF goal
      <3>3. Undisturbed(u)'
        BY <1>0, <2>0, <3>1, <3>2 DEF Undisturbed, Inserts, Req, Cur
      <3> QED
        BY <1>0, <2>0, <3>3, AloneLocal
    <2> QED
      BY <1>4, <2>1, <2>2 DEF Load
  <1>5. ASSUME BeginTx(u) PROVE AloneInv'
    <2>1. /\ work[u].pc = "begin" /\ work'[u].pc = "lock" /\ work'[u].req = work[u].req
          /\ work'[u].cur = work[u].cur /\ ~work'[u].stale /\ UNCHANGED <<appts, serial>>
      BY <1>0, <1>5 DEF BeginTx, TypeOK, Work, Undisturbed
    <2>2. Undisturbed(u)'
      BY <1>0, <2>1 DEF Undisturbed, Inserts, Req, Cur
    <2> QED
      BY <1>0, <2>1, <2>2, AloneLocal
  <1>6. ASSUME LockRow(u) PROVE AloneInv'
    <2>1. /\ work[u].pc = "lock" /\ work'[u].pc = "lock" /\ work'[u].req = work[u].req
          /\ work'[u].cur = work[u].cur /\ work'[u].stale = work[u].stale
          /\ UNCHANGED <<appts, serial>>
      BY <1>0, <1>6 DEF LockRow, TypeOK, Work
    <2>2. Undisturbed(u)'
      BY <1>0, <2>1 DEF Undisturbed, Inserts, Req, Cur
    <2> QED
      BY <1>0, <2>1, <2>2, AloneLocal
  <1>7. ASSUME NEW next, Commit(u, next), ~next.stale,
               next.pc \notin {"window", "begin", "lock", "write", "update"}
        PROVE  AloneInv'
    <2>1. work'[u] = next /\ serial'
      BY <1>0, <1>7 DEF Commit, Undisturbed
    <2>2. Undisturbed(u)'
      BY <1>7, <2>1 DEF Undisturbed
    <2> QED
      BY <1>0, <2>1, <2>2, AloneLocal
  <1>8. ASSUME InsertAppointment(u) \/ UpdateInTx(u) \/ UpdateStatus(u) PROVE AloneInv'
    <2>1. /\ ~Idle.stale /\ Idle.pc = "idle"
          /\ ~[Idle EXCEPT !.pc = "consume", !.req = Req(u)].stale
          /\ [Idle EXCEPT !.pc = "consume", !.req = Req(u)].pc = "consume"
      BY DEF Idle
    <2> QED
      BY <1>7, <1>8, <2>1 DEF InsertAppointment, UpdateInTx, UpdateStatus
  <1>9. ASSUME MarkUsed(u) \/ Fail(u) \/ BreakDeadlock(u) PROVE AloneInv'
    <2>1. work'[u] = Idle /\ serial'
      BY <1>0, <1>9 DEF MarkUsed, Fail, BreakDeadlock, Answer, TypeOK
    <2> QED
      BY <1>0, <2>1, AloneIdle
  <1>10. ASSUME UNCHANGED <<appts, work, serial>> PROVE AloneInv'
    BY <1>0, <1>10, AloneLocal DEF Undisturbed, Inserts, Req, Cur
  <1> QED
    BY <1>0, <1>1, <1>3, <1>4, <1>5, <1>6, <1>8, <1>9, <1>10
    DEF Next, Step, vars, IssueSession, ExpireSession

LEMMA SerialHolds == ASSUME SeatInv, serial PROVE CapacityRespected
  BY DEF SeatInv, FullCapacity, CapacityRespected, TypeInv, TypeOK, StoredRow, Row

\* With one request in flight at a time, the capacity is never exceeded, whatever
\* requests arrive, fail or repeat: overbooking needs two requests.
THEOREM AloneCorrect ==
    ASSUME NEW u, Workers = {u}
    PROVE  Spec => []CapacityRespected
  <1>1. Init => AloneInv
    BY AloneInit
  <1>2. AloneInv /\ [Next]_vars => AloneInv'
    BY AloneNext
  <1>3. AloneInv => CapacityRespected
    BY SerialHolds DEF AloneInv
  <1> QED
    BY <1>1, <1>2, <1>3, PTL DEF Spec

-----------------------------------------------------------------------------
(* The refinement of Agenda *)

\* The row of the abstract agenda that stands for i.
LEMMA AgendaRow ==
    ASSUME TypeOK, NEW i \in Ids
    PROVE  /\ AbstractAgenda[i].status = appts[i].status
           /\ AbstractAgenda[i].pro = appts[i].pro
           /\ AbstractAgenda[i].starts = appts[i].starts
           /\ AbstractAgenda[i].ends = appts[i].ends
  BY DEF AbstractAgenda

\* Agenda brings its own copy of FiniteSets.
LEMMA SameCardinality == \A S : Atomic!Cardinality(S) = Cardinality(S)
  BY DEF Atomic!Cardinality, Cardinality

\* Fits, with the table it looks at spelled out.
LEMMA RoomFits ==
    ASSUME NEW j, NEW row,
           \A t \in row.starts .. row.ends - 1 :
              Atomic!Cardinality(Atomic!At([AbstractAgenda EXCEPT ![j] = row], row.pro, t))
                 <= Capacity
    PROVE  Atomic!Fits(j, row)
  BY DEF Atomic!Fits

\* Where the new table keeps the capacity, the row just put fits.
LEMMA PutFits ==
    ASSUME TypeOK, TypeOK', FullCapacity', NEW j \in Ids,
           \A i \in Ids \ {j} : appts'[i] = appts[i]
    PROVE  Atomic!Put(j, AbstractAgenda'[j])
  <1>1. AbstractAgenda' = [AbstractAgenda EXCEPT ![j] = AbstractAgenda'[j]]
    BY DEF AbstractAgenda
  <1>2. AbstractAgenda'[j].pro \in Pros
    BY DEF AbstractAgenda, TypeOK, StoredRow, Row
  <1>3. AbstractAgenda'[j].starts \in Int /\ AbstractAgenda'[j].ends \in Int
    BY DEF AbstractAgenda, TypeOK, StoredRow, Row
  <1>4. ASSUME NEW p \in Pros, NEW t \in Int
        PROVE  Atomic!Cardinality(Atomic!At(AbstractAgenda', p, t)) <= Capacity
    <2>1. Atomic!At(AbstractAgenda', p, t) = Occupants(p, t)'
      BY DEF Atomic!At, Atomic!Live, Occupants, Occupying, AbstractAgenda
    <2> QED
      BY <2>1, SameCardinality DEF FullCapacity
  <1>5. \A t \in AbstractAgenda'[j].starts .. AbstractAgenda'[j].ends - 1 :
          Atomic!Cardinality(Atomic!At([AbstractAgenda EXCEPT ![j] = AbstractAgenda'[j]],
                                       AbstractAgenda'[j].pro, t)) <= Capacity
    <2> SUFFICES ASSUME NEW t \in AbstractAgenda'[j].starts .. AbstractAgenda'[j].ends - 1
                 PROVE  Atomic!Cardinality(
                            Atomic!At(AbstractAgenda', AbstractAgenda'[j].pro, t)) <= Capacity
      BY <1>1
    <2>1. t \in Int
      BY <1>3
    <2> QED
      BY <1>2, <1>4, <2>1
  <1>6. Atomic!Fits(j, AbstractAgenda'[j])
    BY <1>5, RoomFits
  <1> QED
    BY <1>1, <1>6 DEF Atomic!Put

\* A rescheduling that loaded its appointment live and finds it cancelled: the
\* UPDATE moves it all the same.
MovesCancelled(w) ==
    /\ UpdateInTx(w)
    /\ Req(w).op = "reschedule"
    /\ appts[Req(w).id].status = "cancelled"

\* Every step is one operation of the agenda, leaves it alone, or moves an
\* appointment cancelled under it, for as long as no overtaken check was written.
LEMMA AgendaStep ==
    ASSUME SeatInv, [Next]_vars, serial'
    PROVE  \/ Atomic!Next
           \/ UNCHANGED AbstractAgenda
           \/ \E w \in Workers : MovesCancelled(w)
  <1>1. TypeInv /\ TypeOK /\ TypeOK' /\ FullCapacity'
    BY SeatNext DEF SeatInv, TypeInv
  <1>2. ASSUME NEW u \in Workers, InsertAppointment(u) PROVE Atomic!Next
    <2>1. PICK i \in Ids : /\ appts[i].status = "free"
                           /\ appts' = [appts EXCEPT ![i] = NewRow(u, i)]
      BY <1>2 DEF InsertAppointment
    <2>2. appts'[i] = NewRow(u, i) /\ NewRow(u, i) \in StoredRow
      BY <1>1, <1>2, <2>1, NewRowType DEF InsertAppointment, TypeOK
    <2>3. /\ AbstractAgenda'[i].status \in Statuses
          /\ AbstractAgenda'[i].starts < AbstractAgenda'[i].ends
      BY <1>1, <2>2, TargetType DEF AbstractAgenda, NewRow, StoredRow
    <2>4. Atomic!Put(i, AbstractAgenda'[i])
      BY <1>1, <2>1, PutFits DEF TypeOK
    <2>5. Atomic!Book(i, AbstractAgenda'[i])
      BY <1>1, <2>1, <2>3, <2>4, AgendaRow
      DEF Atomic!Book, Atomic!Absent, Atomic!Live, Atomic!Settled, Statuses
    <2> QED
      BY <2>5 DEF Atomic!Next
  <1>3. ASSUME NEW u \in Workers, UpdateInTx(u) \/ UpdateStatus(u), ~MovesCancelled(u)
        PROVE  Atomic!Next
    <2> DEFINE i == Req(u).id
    <2>1. i \in Ids /\ ~Inserts(u) /\ work[u].pc \in {"write", "update"}
      BY <1>1, <1>3, NamedId DEF UpdateInTx, UpdateStatus, TypeInv, PhaseOK
    <2>2. appts[i].status # "free" /\ appts[i] \in Row
      BY <1>1, <2>1 DEF SeatInv, KnownRow, TypeOK, StoredRow
    <2>3. \A j \in Ids \ {i} : appts'[j] = appts[j]
      BY <1>1, <1>3, <2>1 DEF UpdateInTx, UpdateStatus, TypeOK
    <2>4. Atomic!Put(i, AbstractAgenda'[i])
      BY <1>1, <2>1, <2>3, PutFits
    <2>5. CASE Req(u).op = "reschedule"
      <3>1. /\ work[u].pc = "write"
            /\ appts'[i] = [appts[i] EXCEPT !.starts = IntervalOf(u).starts,
                                            !.ends = IntervalOf(u).ends]
        <4>1. ~UpdateStatus(u)
          BY <2>5 DEF UpdateStatus, SeatInv, KnownRow, WritesOccupying, ChangesStatus
        <4> QED
          BY <1>1, <1>3, <2>1, <2>5, <4>1 DEF UpdateInTx, TypeOK
      <3>2. appts[i].status # "cancelled"
        BY <1>3, <2>5, <3>1 DEF MovesCancelled, UpdateStatus
      <3>3. appts'[i].status = appts[i].status /\ appts'[i].pro = appts[i].pro
        BY <2>2, <3>1 DEF Row
      <3>4. appts'[i].starts < appts'[i].ends
        BY <1>1, <2>1 DEF TypeOK, StoredRow
      <3>5. Atomic!Move(i, AbstractAgenda'[i])
        BY <2>1, <2>2, <2>4, <3>2, <3>3, <3>4 DEF Atomic!Move, AbstractAgenda
      <3> QED
        BY <2>1, <3>5 DEF Atomic!Next
    <2>6. CASE Req(u).op # "reschedule"
      <3>1. /\ appts'[i].status = Target(u) /\ appts'[i].pro = appts[i].pro
            /\ appts'[i].starts = appts[i].starts /\ appts'[i].ends = appts[i].ends
        <4>1. CASE UpdateInTx(u)
          <5>1. appts'[i] = [appts[i] EXCEPT !.status = Target(u), !.cancelledBy = "none"]
            BY <1>1, <2>1, <2>6, <4>1 DEF UpdateInTx, TypeOK
          <5> QED
            BY <2>2, <5>1 DEF Row
        <4>2. CASE UpdateStatus(u)
          <5> DEFINE canceller == IF Target(u) # "cancelled" THEN "none"
                                  ELSE IF Req(u).op = "cancelByToken" THEN "client" ELSE "staff"
          <5>1. appts' = [appts EXCEPT ![i].status = Target(u), ![i].cancelledBy = canceller]
            BY <4>2 DEF UpdateStatus
          <5> HIDE DEF canceller
          <5>2. appts'[i] = [appts[i] EXCEPT !.status = Target(u), !.cancelledBy = canceller]
            BY <1>1, <2>1, <2>2, <5>1 DEF TypeOK, StoredRow, Row
          <5> QED
            BY <2>2, <5>2 DEF Row
        <4> QED
          BY <1>3, <4>1, <4>2
      <3>2. Target(u) \in Statuses
        BY <1>1, TargetType
      <3>3. AbstractAgenda'[i] = [AbstractAgenda[i] EXCEPT !.status = AbstractAgenda'[i].status]
        BY <2>1, <3>1 DEF AbstractAgenda
      <3>4. AbstractAgenda[i].status # "free" /\ AbstractAgenda'[i].status = Target(u)
        BY <2>1, <2>2, <3>1 DEF AbstractAgenda
      <3>5. Atomic!SetStatus(i, AbstractAgenda'[i].status)
        BY <2>4, <3>2, <3>3, <3>4
        DEF Atomic!SetStatus, Atomic!Absent, Atomic!Live, Atomic!Settled, Statuses
      <3> QED
        BY <2>1, <3>5 DEF Atomic!Next
    <2> QED
      BY <2>5, <2>6
  <1>4. CASE \A u \in Workers : ~InsertAppointment(u) /\ ~UpdateInTx(u) /\ ~UpdateStatus(u)
    <2>1. appts' = appts
      BY <1>4 DEF Next, Step, vars, Receive, ReadFirst, Load, Window, BeginTx, LockRow,
                  CountRows, CheckSession, ConsumeSession, MarkUsed, IssueSession,
                  ExpireSession, Fail, BreakDeadlock
    <2> QED
      BY <2>1 DEF AbstractAgenda
  <1> QED
    BY <1>2, <1>3, <1>4

\* With any number of requests in flight, and as long as no occupying write used
\* an overtaken check, each commit is one atomic operation of the agenda, its
\* capacity check included.  There is a single exception: reschedule looks at the
\* status only when it loads the appointment, so it may move one that has been
\* cancelled since.
THEOREM SerialStepsAreAtomic ==
    Spec => [][serial' => \/ Atomic!Next
                          \/ UNCHANGED AbstractAgenda
                          \/ \E w \in Workers : MovesCancelled(w)]_vars
  <1>1. SeatInv /\ [Next]_vars =>
          [serial' => \/ Atomic!Next
                      \/ UNCHANGED AbstractAgenda
                      \/ \E w \in Workers : MovesCancelled(w)]_vars
    BY AgendaStep
  <1> QED
    BY <1>1, SeatInit, SeatNext, PTL DEF Spec

\* While requests are served one at a time, the statements of every handler
\* together implement the atomic agenda: each request books, moves or re-labels
\* one appointment for which there is a seat, or changes nothing.
THEOREM AloneImplementsAgenda ==
    ASSUME NEW u, Workers = {u}
    PROVE  Spec => ImplementsAgenda
  <1>1. Init => AloneInv /\ Atomic!Init
    BY AloneInit DEF Init, FreeRow, AbstractAgenda, Atomic!Init, Atomic!Absent
  <1>2. AloneInv /\ [Next]_vars => AloneInv'
    BY AloneNext
  <1>3. AloneInv /\ [Next]_vars => [Atomic!Next]_AbstractAgenda
    <2> SUFFICES ASSUME AloneInv, [Next]_vars
                 PROVE  Atomic!Next \/ UNCHANGED AbstractAgenda
      OBVIOUS
    <2>1. SeatInv /\ serial' /\ u \in Workers /\ Undisturbed(u)
      BY AloneNext DEF AloneInv
    <2>2. ~MovesCancelled(u)
      BY <2>1 DEF MovesCancelled, UpdateInTx, Undisturbed
    <2> QED
      BY <2>1, <2>2, AgendaStep
  <1> QED
    BY <1>1, <1>2, <1>3, PTL DEF Spec, ImplementsAgenda, Atomic!Spec

=============================================================================
