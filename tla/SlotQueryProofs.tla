-------------------------- MODULE SlotQueryProofs --------------------------
(***************************************************************************)
(* Theorems about the slot engine for every agenda, schedule, exception,   *)
(* question, step and length of the day:                                   *)
(*   OpenMeansAccepted   an open slot is one the booking transaction takes *)
(*   OpenMeansApart      with one place, preparation and buffer stay free  *)
(*   OfferedMeansOpen    every tick of a slot is inside opening hours      *)
(***************************************************************************)
EXTENDS Server, FiniteSetTheorems, TLAPS

-----------------------------------------------------------------------------
(* What an answer is made of *)

Length == Query!ServiceDuration(query.service)

Busy == Query!BusyRows(rows, query.date, query.pro)

Exceptions == Query!PickDayExceptions(Query!ExceptionRows(hours.exceptions, query.date, query.pro))

Schedules == Query!SchedulesFor(hours.business, Query!ProRows(query.pro))

\* The answer shown is the engine's for the question and the tables.
Answered ==
    /\ rows \in RowSets /\ hours \in HourSets
    /\ \/ offered = {}
       \/ /\ query \in Queries
          /\ \E windows \in Query!ResolveWindows(query.date, Schedules, Exceptions) :
                offered = Query!SlotOccupancy(windows, Busy, query.service)

\* The question of an answer that offers something, with its types.
Asked ==
    /\ query.date \in Nat /\ query.pro \in Professionals \cup {NoPro}
    /\ query.service.prep \in Nat /\ query.service.buffer \in Nat
    /\ Length \in Nat \ {0}

\* The finite sets of the module that is instanced are those of the library.
LEMMA QueryCardinality ==
    \A S : Query!Cardinality(S) = Cardinality(S) /\ Query!IsFiniteSet(S) = IsFiniteSet(S)
  <1>1. \A S : Query!Cardinality(S) = Cardinality(S)
    BY DEF Query!Cardinality, Cardinality
  <1>2. \A S : Query!IsFiniteSet(S) = IsFiniteSet(S)
    BY DEF Query!IsFiniteSet, IsFiniteSet
  <1> QED
    BY <1>1, <1>2

\* A step of the server is a step of this part or none, if the part is in play.
LEMMA QueryMoves ==
    ASSUME [ServerNext]_ServerVars, part' = "slots"
    PROVE  part = "slots" /\ [Query!Next]_(Query!vars)
  <1>1. CASE UNCHANGED ServerVars
    BY <1>1 DEF ServerVars, Query!vars
  <1>2. CASE ServerNext
    BY <1>2
       DEF ServerNext, ClientsStep, JobStep, QueryStep, ListsStep, FilesStep, ResetStep,
           RecordsStep
  <1> QED
    BY <1>1, <1>2

LEMMA AnsweredInit == ASSUME Query!Init PROVE Answered
  BY DEF Query!Init, Answered

LEMMA AnsweredNext == ASSUME Answered, [Query!Next]_(Query!vars) PROVE Answered'
  <1>1. ASSUME NEW q \in Queries, Query!GetPortalSlots(q)
        PROVE  Answered'
    BY <1>1
       DEF Query!GetPortalSlots, Answered, Query!PortalSlots, Schedules, Exceptions,
           Busy, Query!ProRows
  <1>2. CASE UNCHANGED Query!vars
    BY <1>2 DEF Query!vars, Answered, Schedules, Exceptions, Busy, Query!ProRows
  <1> QED
    BY <1>1, <1>2 DEF Query!Next

LEMMA AskedHolds ==
    ASSUME Query!SlotQueryAssumption, Answered, offered # {}
    PROVE  Asked
  <1>1. query \in Queries
    BY DEF Answered
  <1>2. /\ query.date \in Nat /\ query.pro \in Professionals \cup {NoPro}
        /\ query.service.duration \in Nat
        /\ query.service.prep \in Nat /\ query.service.buffer \in Nat
    BY <1>1 DEF Query!SlotQueryAssumption
  <1>3. Length \in Nat \ {0}
    BY <1>2, ServerAssumption DEF Length, Query!ServiceDuration
  <1> QED
    BY <1>2, <1>3 DEF Asked

\* A slot lies in a window the day has, and counts the appointments near it.
LEMMA SlotShape ==
    ASSUME Answered, NEW s \in offered
    PROVE  /\ \E windows \in Query!ResolveWindows(query.date, Schedules, Exceptions) :
                 \E w \in windows : s.starts \in Query!Cursors(w, Length)
           /\ s.booked = Cardinality(Query!BookedRows(Busy, s.starts, query.service))
  <1>1. PICK windows \in Query!ResolveWindows(query.date, Schedules, Exceptions) :
          offered = Query!SlotOccupancy(windows, Busy, query.service)
    BY DEF Answered
  <1>2. PICK t \in UNION {Query!Cursors(w, Length) : w \in windows} :
          s = [starts |-> t, booked |-> Query!Cardinality(Query!BookedRows(Busy, t, query.service))]
    BY <1>1 DEF Query!SlotOccupancy, Length
  <1>3. PICK w \in windows : t \in Query!Cursors(w, Length)
    BY <1>2
  <1> QED
    BY <1>1, <1>2, <1>3, QueryCardinality

\* A window comes from a row of the weekly schedule or from an open exception.
LEMMA WindowSource ==
    ASSUME NEW windows \in Query!ResolveWindows(query.date, Schedules, Exceptions),
           NEW w \in windows
    PROVE  \/ /\ Exceptions = {}
              /\ \E r \in Schedules :
                    /\ r.weekday = Query!Weekday(query.date)
                    /\ w.starts = Query!DayStart(query.date) + r.starts
                    /\ w.ends = Query!DayStart(query.date) + r.ends
           \/ \E e \in Exceptions :
                 /\ ~e.closed
                 /\ w.starts = Query!DayStart(query.date) + e.starts
                 /\ w.ends = Query!DayStart(query.date) + e.ends
  <1>1. CASE Exceptions = {}
    BY <1>1 DEF Query!ResolveWindows, Query!WeeklyWindows
  <1>2. CASE Exceptions # {}
    <2>1. PICK e \in Exceptions : windows = Query!ExceptionWindows(e)
      BY <1>2 DEF Query!ResolveWindows
    <2>2. e.date = query.date
      BY <2>1 DEF Exceptions, Query!PickDayExceptions, Query!ExceptionRows
    <2> QED
      BY <2>1, <2>2 DEF Query!ExceptionWindows
  <1> QED
    BY <1>1, <1>2

\* Rows of the schedules a question uses keep times of the day.
LEMMA ScheduleTimes ==
    ASSUME Query!SlotQueryAssumption, Answered, Asked, NEW r \in Schedules
    PROVE  r.starts \in 0 .. DayLength /\ r.ends \in 0 .. DayLength
  <1>1. r \in hours.business \cup UNION {hours.pros[p] : p \in Professionals}
    BY DEF Schedules, Query!SchedulesFor, Query!ProRows, Asked
  <1>2. hours \in HourSets
    BY DEF Answered
  <1> QED
    BY <1>1, <1>2 DEF Query!SlotQueryAssumption

LEMMA ExceptionTimes ==
    ASSUME Query!SlotQueryAssumption, Answered, NEW e \in Exceptions, ~e.closed
    PROVE  e.starts \in 0 .. DayLength /\ e.ends \in 0 .. DayLength
  <1>1. e \in hours.exceptions
    BY DEF Exceptions, Query!PickDayExceptions, Query!ExceptionRows
  <1>2. hours \in HourSets
    BY DEF Answered
  <1> QED
    BY <1>1, <1>2 DEF Query!SlotQueryAssumption

\* No window reaches past the day asked for.
LEMMA WindowInDay ==
    ASSUME Query!SlotQueryAssumption, Answered, Asked,
           NEW windows \in Query!ResolveWindows(query.date, Schedules, Exceptions),
           NEW w \in windows
    PROVE  /\ w.starts \in Int /\ w.ends \in Int
           /\ Query!DayStart(query.date) \in Int
           /\ Query!DayStart(query.date) <= w.starts
           /\ w.ends <= Query!DayStart(query.date + 1)
  <1>1. PICK a, b \in 0 .. DayLength :
          w.starts = Query!DayStart(query.date) + a /\ w.ends = Query!DayStart(query.date) + b
    BY WindowSource, ScheduleTimes, ExceptionTimes
  <1>2. query.date \in Nat /\ DayLength \in Nat
    BY ServerAssumption DEF Asked
  <1>3. /\ Query!DayStart(query.date) \in Int
        /\ Query!DayStart(query.date + 1) = Query!DayStart(query.date) + DayLength
    BY <1>2 DEF Query!DayStart
  <1> QED
    BY <1>1, <1>2, <1>3

\* An offered slot lies within its day.
LEMMA SlotInDay ==
    ASSUME Query!SlotQueryAssumption, Answered, Asked, NEW s \in offered
    PROVE  /\ s.starts \in Int /\ Query!DayStart(query.date) \in Int
           /\ Query!DayStart(query.date) <= s.starts
           /\ s.starts + Length <= Query!DayStart(query.date + 1)
  <1>1. PICK windows \in Query!ResolveWindows(query.date, Schedules, Exceptions) :
          \E w \in windows : s.starts \in Query!Cursors(w, Length)
    BY SlotShape
  <1>2. PICK w \in windows : s.starts \in Query!Cursors(w, Length)
    BY <1>1
  <1>3. /\ w.starts \in Int /\ w.ends \in Int /\ Query!DayStart(query.date) \in Int
        /\ Query!DayStart(query.date) <= w.starts
        /\ w.ends <= Query!DayStart(query.date + 1)
    BY <1>1, WindowInDay
  <1>4. /\ s.starts \in w.starts .. w.ends /\ s.starts + Length <= w.ends
    BY <1>2 DEF Query!Cursors
  <1>5. Query!DayStart(query.date + 1) \in Int /\ Length \in Int
    BY ServerAssumption DEF Asked, Query!DayStart
  <1> QED
    BY <1>3, <1>4, <1>5

LEMMA AgendaFinite ==
    ASSUME Query!SlotQueryAssumption, Answered
    PROVE  /\ IsFiniteSet(rows) /\ IsFiniteSet(Busy)
           /\ \A r \in rows : r.starts \in Int /\ r.ends \in Int
  <1>1. rows \in RowSets
    BY DEF Answered
  <1>2. IsFiniteSet(rows) /\ \A r \in rows : r.starts \in Int /\ r.ends \in Int
    BY <1>1, QueryCardinality DEF Query!SlotQueryAssumption
  <1>3. Busy \subseteq rows
    BY DEF Busy, Query!BusyRows
  <1> QED
    BY <1>2, <1>3, FS_Subset

-----------------------------------------------------------------------------
(* The theorems *)

\* What the lock of the booking transaction would count for a slot, the engine
\* counted when it offered it.
LEMMA LockedAreBooked ==
    ASSUME Query!SlotQueryAssumption, Answered, Asked, NEW s \in offered
    PROVE  {r \in rows : Query!LockMatches(r, Query!SlotInterval(s), query.pro)}
              \subseteq Query!BookedRows(Busy, s.starts, query.service)
  <1>1. SUFFICES ASSUME NEW r \in rows,
                        Query!LockMatches(r, Query!SlotInterval(s), query.pro)
                 PROVE  r \in Query!BookedRows(Busy, s.starts, query.service)
    OBVIOUS
  <1>2. /\ r.status \in Query!Occupying /\ Query!InScope(r, query.pro)
        /\ r.starts < s.starts + Length /\ r.ends > s.starts
    BY <1>1 DEF Query!LockMatches, Query!Overlaps, Query!SlotInterval, Length
  <1>3. /\ s.starts \in Int /\ Query!DayStart(query.date) \in Int
        /\ Query!DayStart(query.date) <= s.starts
        /\ s.starts + Length <= Query!DayStart(query.date + 1)
    BY SlotInDay
  <1>4. r.starts \in Int /\ r.ends \in Int
    BY AgendaFinite
  <1>5. /\ Length \in Nat /\ query.service.prep \in Nat /\ query.service.buffer \in Nat
        /\ Query!DayStart(query.date + 1) \in Int
    BY ServerAssumption DEF Asked, Query!DayStart
  <1>6. r \in Busy
    BY <1>2, <1>3, <1>4, <1>5 DEF Busy, Query!BusyRows
  <1>7. Query!Overlaps(Query!Expand([starts |-> s.starts, ends |-> s.starts + Length],
                        query.service.prep, query.service.buffer),
                 Query!Expand(r, query.service.prep, query.service.buffer))
    BY <1>2, <1>3, <1>4, <1>5 DEF Query!Overlaps, Query!Expand
  <1> QED
    BY <1>6, <1>7 DEF Query!BookedRows, Length

\* A slot the portal shows as open is one the booking transaction accepts on the
\* same tables: the rows SQL_LOCK_OVERLAPPING_APPOINTMENTS counts, on whatever
\* day they start, were all counted by computeSlotOccupancy.
THEOREM OpenMeansAccepted ==
    /\ Query!Spec => []Query!OpenSlotPassesTheLock
    /\ ServerSpec => []OpenSlotPassesTheLock
  <1> USE ServerAssumption
  <1>1. Query!Init => Answered
    BY AnsweredInit
  <1>2. Answered /\ [Query!Next]_(Query!vars) => Answered'
    BY AnsweredNext
  <1>3. ASSUME Answered
        PROVE  Query!OpenSlotPassesTheLock
    <2>1. SUFFICES ASSUME NEW s \in Query!OpenSlots
                   PROVE  Cardinality({r \in rows :
                              Query!LockMatches(r, Query!SlotInterval(s), query.pro)}) < Capacity
      BY QueryCardinality DEF Query!OpenSlotPassesTheLock
    <2> DEFINE Locked == {r \in rows : Query!LockMatches(r, Query!SlotInterval(s), query.pro)}
               Counted == Query!BookedRows(Busy, s.starts, query.service)
    <2>2. s \in offered /\ s.booked < Capacity
      BY DEF Query!OpenSlots
    <2>3. s.booked = Cardinality(Counted)
      BY <1>3, <2>2, SlotShape
    <2>4. Asked
      BY <1>3, <2>2, AskedHolds
    <2>5. Locked \subseteq Counted
      BY <1>3, <2>2, <2>4, LockedAreBooked
    <2>6. IsFiniteSet(Counted)
      <3>1. Counted \subseteq Busy
        BY DEF Query!BookedRows
      <3> QED
        BY <1>3, <3>1, AgendaFinite, FS_Subset
    <2>7. /\ Cardinality(Locked) <= Cardinality(Counted)
          /\ Cardinality(Locked) \in Nat /\ Cardinality(Counted) \in Nat
      BY <2>5, <2>6, FS_Subset, FS_CardinalityType
    <2> QED
      BY <2>2, <2>3, <2>7 DEF Query!SlotQueryAssumption
  <1>4. Query!Spec => []Query!OpenSlotPassesTheLock
    BY <1>1, <1>2, <1>3, PTL DEF Query!Spec
  <1>5. ServerSpec => []OpenSlotPassesTheLock
    <2> DEFINE Inv == part = "slots" => Answered
    <2>1. ServerInit => Inv
      BY <1>1 DEF ServerInit
    <2>2. Inv /\ [ServerNext]_ServerVars => Inv'
      BY <1>2, QueryMoves
    <2>3. Inv => OpenSlotPassesTheLock
      BY <1>3 DEF OpenSlotPassesTheLock
    <2> QED
      BY <2>1, <2>2, <2>3, PTL DEF ServerSpec
  <1> QED
    BY <1>4, <1>5

\* With one place per slot, an open slot keeps the preparation and the buffer of
\* its service free before and after it (computeSlotOccupancy expands both the
\* candidate and the appointments).
THEOREM OpenMeansApart ==
    /\ Query!Spec => []Query!OpenSlotKeepsTheGap
    /\ ServerSpec => []OpenSlotKeepsTheGap
  <1> USE ServerAssumption
  <1>1. Query!Init => Answered
    BY AnsweredInit
  <1>2. Answered /\ [Query!Next]_(Query!vars) => Answered'
    BY AnsweredNext
  <1>3. ASSUME Answered
        PROVE  Query!OpenSlotKeepsTheGap
    <2> DEFINE Gap == query.service.prep + query.service.buffer
    <2>1. SUFFICES ASSUME Capacity = 1, NEW s \in Query!OpenSlots, NEW r \in Busy
                   PROVE  \/ r.ends + Gap <= s.starts
                          \/ s.starts + Length + Gap <= r.starts
      BY DEF Query!OpenSlotKeepsTheGap, Query!SlotInterval, Length, Busy
    <2>2. s \in offered /\ s.booked < 1
      BY <2>1 DEF Query!OpenSlots
    <2>3. Asked
      BY <1>3, <2>2, AskedHolds
    <2>4. Query!BookedRows(Busy, s.starts, query.service) = {}
      <3>1. Query!BookedRows(Busy, s.starts, query.service) \subseteq Busy
        BY DEF Query!BookedRows
      <3>2. IsFiniteSet(Query!BookedRows(Busy, s.starts, query.service))
        BY <1>3, <3>1, AgendaFinite, FS_Subset
      <3>3. s.booked = Cardinality(Query!BookedRows(Busy, s.starts, query.service))
        BY <1>3, <2>2, SlotShape
      <3>4. Cardinality(Query!BookedRows(Busy, s.starts, query.service)) = 0
        BY <2>2, <3>2, <3>3, FS_CardinalityType
      <3> QED
        BY <3>2, <3>4, FS_EmptySet
    <2>5. ~Query!Overlaps(Query!Expand([starts |-> s.starts, ends |-> s.starts + Length],
                           query.service.prep, query.service.buffer),
                    Query!Expand(r, query.service.prep, query.service.buffer))
      BY <2>1, <2>4 DEF Query!BookedRows, Length
    <2>6. r.starts \in Int /\ r.ends \in Int /\ s.starts \in Int
      BY <1>3, <2>1, <2>2, <2>3, AgendaFinite, SlotInDay DEF Busy, Query!BusyRows
    <2>7. Length \in Nat /\ query.service.prep \in Nat /\ query.service.buffer \in Nat
      BY <2>3 DEF Asked
    <2> QED
      BY <2>5, <2>6, <2>7 DEF Query!Overlaps, Query!Expand
  <1>4. Query!Spec => []Query!OpenSlotKeepsTheGap
    BY <1>1, <1>2, <1>3, PTL DEF Query!Spec
  <1>5. ServerSpec => []OpenSlotKeepsTheGap
    <2> DEFINE Inv == part = "slots" => Answered
    <2>1. ServerInit => Inv
      BY <1>1 DEF ServerInit
    <2>2. Inv /\ [ServerNext]_ServerVars => Inv'
      BY <1>2, QueryMoves
    <2>3. Inv => OpenSlotKeepsTheGap
      BY <1>3 DEF OpenSlotKeepsTheGap
    <2> QED
      BY <2>1, <2>2, <2>3, PTL DEF ServerSpec
  <1> QED
    BY <1>4, <1>5

-----------------------------------------------------------------------------
(* The day and the time of an instant *)

\* A day holds the instants from its start on, DayLength of them.
LEMMA DayAndTime ==
    ASSUME NEW d \in Nat, NEW x \in 0 .. DayLength - 1
    PROVE  /\ Query!DayOf(Query!DayStart(d) + x) = d
           /\ (Query!DayStart(d) + x) % DayLength = x
  <1>1. DayLength \in Nat \ {0} /\ d * DayLength \in Int
    BY ServerAssumption
  <1> DEFINE t == d * DayLength + x
             q == t \div DayLength
  <1>2. t \in Int /\ q \in Int /\ t % DayLength \in 0 .. DayLength - 1
    BY <1>1
  <1>3. t = DayLength * q + (t % DayLength)
    BY <1>1
  <1>4. q = d
    <2>1. CASE q >= d + 1
      <3>1. DayLength * q >= DayLength * (d + 1)
        BY <1>1, <1>2, <2>1
      <3> QED
        BY <1>1, <1>2, <1>3, <3>1
    <2>2. CASE q <= d - 1
      <3>1. DayLength * q <= DayLength * (d - 1)
        BY <1>1, <1>2, <2>2
      <3> QED
        BY <1>1, <1>2, <1>3, <3>1
    <2> QED
      BY <1>2, <2>1, <2>2
  <1>5. t % DayLength = x
    BY <1>1, <1>2, <1>3, <1>4
  <1> QED
    BY <1>4, <1>5 DEF Query!DayOf, Query!DayStart

\* Every tick of an offered slot is inside the hours that hold for its
\* professional on its day: the exception of the professional before the one of
\* the business, before the weekly schedule of either (resolveOpenWindows).
THEOREM OfferedMeansOpen ==
    /\ Query!Spec => []Query!OfferedSlotIsInsideHours
    /\ ServerSpec => []OfferedSlotIsInsideHours
  <1> USE ServerAssumption
  <1>1. Query!Init => Answered
    BY AnsweredInit
  <1>2. Answered /\ [Query!Next]_(Query!vars) => Answered'
    BY AnsweredNext
  <1>3. ASSUME Answered
        PROVE  Query!OfferedSlotIsInsideHours
    <2>1. SUFFICES ASSUME NEW s \in offered,
                          NEW tick \in s.starts .. Query!SlotInterval(s).ends - 1
                   PROVE  Query!TickIsOpen(tick, query.pro)
      BY DEF Query!OfferedSlotIsInsideHours
    <2> DEFINE start == Query!DayStart(query.date)
               time == tick - start
    <2>2. Asked
      BY <1>3, <2>1, AskedHolds
    <2>3. /\ s.starts \in Int /\ start \in Int /\ Length \in Nat
          /\ start <= s.starts /\ s.starts + Length <= Query!DayStart(query.date + 1)
      BY <1>3, <2>1, <2>2, SlotInDay DEF Asked
    <2>4. /\ tick \in Int /\ time \in 0 .. DayLength - 1
          /\ s.starts <= tick /\ tick < s.starts + Length
      <3>1. Query!DayStart(query.date + 1) = start + DayLength
        BY <2>2, ServerAssumption DEF Query!DayStart, Asked
      <3>2. Query!SlotInterval(s).ends = s.starts + Length
        BY DEF Query!SlotInterval, Length
      <3> QED
        BY <2>3, <3>1, <3>2, ServerAssumption
    <2>5. Query!DayOf(tick) = query.date /\ tick % DayLength = time
      <3>1. tick = start + time
        BY <2>3, <2>4
      <3>2. query.date \in Nat
        BY <2>2 DEF Asked
      <3> QED
        BY <2>4, <3>1, <3>2, DayAndTime
    <2>6. PICK windows \in Query!ResolveWindows(query.date, Schedules, Exceptions) :
            \E w \in windows : s.starts \in Query!Cursors(w, Length)
      BY <1>3, <2>1, SlotShape
    <2>7. PICK w \in windows : s.starts \in Query!Cursors(w, Length)
      BY <2>6
    <2>8. /\ w.starts \in Int /\ w.ends \in Int
          /\ w.starts <= tick /\ tick < w.ends
      <3>1. w.starts \in Int /\ w.ends \in Int
        BY <1>3, <2>2, WindowInDay
      <3>2. w.starts <= s.starts /\ s.starts + Length <= w.ends
        BY <2>7, <3>1 DEF Query!Cursors
      <3> QED
        BY <2>3, <2>4, <3>1, <3>2
    <2> DEFINE Of(p) == {e \in hours.exceptions : e.date = query.date /\ e.pro = p}
               Inside(r) == r.starts <= time /\ time < r.ends
               Weekly(S) == \E r \in S : r.weekday = query.date % 7 /\ Inside(r)
               Special(S) == \E e \in S : ~e.closed /\ Inside(e)
    <2>9. Query!TickIsOpen(tick, query.pro) =
            CASE query.pro # NoPro /\ Of(query.pro) # {} -> Special(Of(query.pro))
              [] OTHER -> IF Of(NoPro) # {} THEN Special(Of(NoPro))
                          ELSE IF Query!ProRows(query.pro) # {} THEN Weekly(Query!ProRows(query.pro))
                          ELSE Weekly(hours.business)
      BY <2>5 DEF Query!TickIsOpen
    <2>10. Exceptions = IF query.pro # NoPro /\ Of(query.pro) # {} THEN Of(query.pro)
                       ELSE Of(NoPro)
      BY DEF Exceptions, Query!PickDayExceptions, Query!ExceptionRows
    <2>11. CASE Exceptions = {}
      <3>1. PICK r \in Schedules :
              /\ r.weekday = Query!Weekday(query.date)
              /\ w.starts = start + r.starts /\ w.ends = start + r.ends
        BY <2>11, WindowSource
      <3>2. r.starts \in Int /\ r.ends \in Int
        BY <1>3, <2>2, ScheduleTimes
      <3>3. Weekly(Schedules)
        BY <2>3, <2>4, <2>8, <3>1, <3>2 DEF Query!Weekday
      <3>4. ~(query.pro # NoPro /\ Of(query.pro) # {}) /\ Of(NoPro) = {}
        BY <2>10, <2>11
      <3> QED
        BY <2>9, <3>3, <3>4 DEF Schedules, Query!SchedulesFor
    <2>12. CASE Exceptions # {}
      <3>1. PICK e \in Exceptions :
              ~e.closed /\ w.starts = start + e.starts /\ w.ends = start + e.ends
        BY <2>12, WindowSource
      <3>2. e.starts \in Int /\ e.ends \in Int
        BY <1>3, <3>1, ExceptionTimes
      <3>3. Special(Exceptions)
        BY <2>3, <2>4, <2>8, <3>1, <3>2
      <3> QED
        BY <2>9, <2>10, <2>12, <3>3
    <2> QED
      BY <2>11, <2>12
  <1>4. Query!Spec => []Query!OfferedSlotIsInsideHours
    BY <1>1, <1>2, <1>3, PTL DEF Query!Spec
  <1>5. ServerSpec => []OfferedSlotIsInsideHours
    <2> DEFINE Inv == part = "slots" => Answered
    <2>1. ServerInit => Inv
      BY <1>1 DEF ServerInit
    <2>2. Inv /\ [ServerNext]_ServerVars => Inv'
      BY <1>2, QueryMoves
    <2>3. Inv => OfferedSlotIsInsideHours
      BY <1>3 DEF OfferedSlotIsInsideHours
    <2> QED
      BY <2>1, <2>2, <2>3, PTL DEF ServerSpec
  <1> QED
    BY <1>4, <1>5

\* The agenda, the question and its answer keep their types.
LEMMA QueryTyped == ServerSpec => [](part = "slots" => Query!TypeOK)
  <1> USE ServerAssumption
  <1>1. Query!Init => Answered /\ query \in Queries \cup {Query!NoQuery}
    BY AnsweredInit DEF Query!Init
  <1>2. Answered /\ query \in Queries \cup {Query!NoQuery} /\ [Query!Next]_(Query!vars)
            => Answered' /\ query' \in Queries \cup {Query!NoQuery}
    BY AnsweredNext DEF Query!Next, Query!GetPortalSlots, Query!vars
  <1>3. Answered /\ query \in Queries \cup {Query!NoQuery} => Query!TypeOK
    <2> SUFFICES ASSUME Answered, NEW s \in offered
                 PROVE  s.starts \in Int /\ s.booked \in Nat
      BY DEF Answered, Query!TypeOK
    <2>1. Asked
      BY AskedHolds
    <2>2. s.starts \in Int
      BY <2>1, SlotInDay
    <2>3. Query!BookedRows(Busy, s.starts, query.service) \subseteq Busy
      BY DEF Query!BookedRows
    <2>4. s.booked \in Nat
      BY <2>3, SlotShape, AgendaFinite, FS_Subset, FS_CardinalityType, QueryCardinality
    <2> QED
      BY <2>2, <2>4
  <1> DEFINE Inv == part = "slots" => Answered /\ query \in Queries \cup {Query!NoQuery}
  <1>4. ServerInit => Inv
    BY <1>1 DEF ServerInit
  <1>5. Inv /\ [ServerNext]_ServerVars => Inv'
    BY <1>2, QueryMoves
  <1>6. Inv => (part = "slots" => Query!TypeOK)
    BY <1>3
  <1> QED
    BY <1>4, <1>5, <1>6, PTL DEF ServerSpec

=============================================================================
