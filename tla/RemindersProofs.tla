--------------------------- MODULE RemindersProofs ---------------------------
(***************************************************************************)
(* Theorems about Reminders for every number of appointments and of        *)
(* overlapping runs and every window:                                      *)
(*   OneReminder   the row and the customer's mailbox agree, whatever      *)
(*                 moves, failures and crashes come between select, send   *)
(*                 and mark                                                *)
(*   TwoFailures   a window of at least two hours makes one failure good   *)
(***************************************************************************)
EXTENDS Server, TLAPS

\* A step of the server is a step of this part or none, if the part is in play.
LEMMA JobMoves ==
    ASSUME [ServerNext]_ServerVars, part' = "reminders"
    PROVE  part = "reminders" /\ [Job!Next]_(Job!vars)
  <1>1. CASE UNCHANGED ServerVars
    BY <1>1 DEF ServerVars, Job!vars
  <1>2. CASE ServerNext
    BY <1>2
       DEF ServerNext, ClientsStep, JobStep, QueryStep, ListsStep, FilesStep, ResetStep,
           RecordsStep
  <1> QED
    BY <1>1, <1>2

-----------------------------------------------------------------------------
(* Types, as far as the proofs need them *)

Pairs == Ids \X Nat

\* A run that rests holds a pair nobody reads.
RunRecord == [pc : {"idle", "loop", "mark"}, batch : SUBSET Pairs, cur : Pairs \cup {Job!Resting.cur}]

Typed ==
    /\ now \in Nat
    /\ due \in BOOLEAN
    /\ appts \in [Ids -> [status : Job!Statuses \cup {"free"}, starts : Nat, reminded : BOOLEAN]]
    /\ runs \in [Runs -> RunRecord]
    /\ \A r \in Runs : /\ runs[r].pc = "mark" => runs[r].cur \in Pairs
                       /\ runs[r].pc = "idle" => runs[r].batch = {}
    /\ mails \in [Ids -> 0 .. 2]
    /\ skipped \in [Ids -> 0 .. 2]
    /\ lost \in [Ids -> 0 .. 2]
    /\ late \in [Ids -> BOOLEAN]
    /\ excused \in [Ids -> BOOLEAN]

-----------------------------------------------------------------------------
(* The inductive invariants *)

Holds(r, i) ==
    \/ \E x \in runs[r].batch : x[1] = i
    \/ runs[r].pc = "mark" /\ runs[r].cur[1] = i

\* Only booked appointments are selected and marked.
Unborn(i) == appts[i].status = "free" => ~appts[i].reminded /\ ~Job!InBatch(i)

\* Without an excuse one run at a time has the appointment, at its present time,
\* and sends its reminder only if none was sent.
Exact(i) ==
    ~excused[i] =>
        /\ mails[i] + skipped[i] = IF appts[i].reminded \/ Job!Marking(i) THEN 1 ELSE 0
        /\ \A r \in Runs : \A x \in runs[r].batch : x[1] = i =>
              x[2] = appts[i].starts /\ ~appts[i].reminded /\ ~Job!Marking(i)
        /\ \A r, q \in Runs : Holds(r, i) /\ Holds(q, i) => r = q

\* The hours of its window already served, one less while its run is due.
Hours(i) == WindowTo - appts[i].starts + now - (IF due THEN 1 ELSE 0)

\* Each of those hours lost a chance or has the appointment in a run.
Spent(i) == lost[i] + (IF Job!InBatch(i) THEN 1 ELSE 0)

\* Two hours lost or every hour served accounted for, where the window has two.
Counted(i) ==
    /\ WindowFrom + 2 <= WindowTo
    /\ appts[i].status = "confirmed" /\ ~appts[i].reminded /\ ~late[i] /\ ~excused[i]
    => Spent(i) >= 2 \/ Spent(i) >= Hours(i)

RemindInv == Typed /\ \A i \in Ids : Unborn(i) /\ Exact(i) /\ Counted(i)

LEMMA HeldIsInBatch == \A i : Job!InBatch(i) <=> \E r \in Runs : Holds(r, i)
  BY DEF Job!InBatch, Holds

LEMMA MarkingIsHeld == \A i : Job!Marking(i) => Job!InBatch(i)
  BY DEF Job!Marking, Job!InBatch

LEMMA RestingRun ==
    /\ Job!Resting \in RunRecord
    /\ Job!Resting.pc = "idle" /\ Job!Resting.batch = {}
  BY DEF Job!Resting, RunRecord

LEMMA RunsTyped ==
    ASSUME RemindInv
    PROVE  \A q \in Runs : /\ runs[q] \in RunRecord
                           /\ runs[q].pc = "mark" => runs[q].cur \in Pairs
                           /\ runs[q].pc = "idle" => runs[q].batch = {}
  <1>1. runs \in [Runs -> RunRecord]
    BY DEF RemindInv, Typed
  <1>2. \A r \in Runs : /\ runs[r].pc = "mark" => runs[r].cur \in Pairs
                        /\ runs[r].pc = "idle" => runs[r].batch = {}
    BY DEF RemindInv, Typed
  <1> QED
    BY <1>1, <1>2

LEMMA RemindInit == ASSUME Job!RemindersAssumption, Job!Init PROVE RemindInv
  <1>1. Typed
    <2>1. appts \in [Ids -> [status : Job!Statuses \cup {"free"}, starts : Nat, reminded : BOOLEAN]]
      BY DEF Job!Init
    <2>2. /\ runs \in [Runs -> RunRecord]
          /\ \A r \in Runs : runs[r].pc = "idle" /\ runs[r].batch = {}
      BY RestingRun DEF Job!Init
    <2>3. /\ now \in Nat /\ due \in BOOLEAN
          /\ mails \in [Ids -> 0 .. 2] /\ skipped \in [Ids -> 0 .. 2] /\ lost \in [Ids -> 0 .. 2]
          /\ late \in [Ids -> BOOLEAN] /\ excused \in [Ids -> BOOLEAN]
      <3>1. 0 \in 0 .. 2 /\ 0 \in Nat /\ FALSE \in BOOLEAN
        OBVIOUS
      <3>2. now \in Nat /\ due \in BOOLEAN
        BY <3>1 DEF Job!Init
      <3>3. mails \in [Ids -> 0 .. 2] /\ skipped \in [Ids -> 0 .. 2] /\ lost \in [Ids -> 0 .. 2]
        BY <3>1 DEF Job!Init
      <3>4. late \in [Ids -> BOOLEAN] /\ excused \in [Ids -> BOOLEAN]
        BY <3>1 DEF Job!Init
      <3> QED
        BY <3>2, <3>3, <3>4
    <2> QED
      BY <2>1, <2>2, <2>3 DEF Typed
  <1>2. \A i \in Ids : ~Job!InBatch(i) /\ ~Job!Marking(i) /\ \A r \in Runs : ~Holds(r, i)
    BY RestingRun DEF Job!Init, Job!InBatch, Job!Marking, Holds
  <1>3. \A i \in Ids : Unborn(i) /\ Exact(i) /\ Counted(i)
    BY <1>2, RestingRun DEF Job!Init, Unborn, Exact, Counted
  <1> QED
    BY <1>1, <1>3 DEF RemindInv

-----------------------------------------------------------------------------
(* The operations on an appointment *)

\* The runs hold j as they did.
SameFor(j) ==
    \A r \in Runs :
        /\ \A x : x[1] = j => (x \in runs'[r].batch <=> x \in runs[r].batch)
        /\ (runs'[r].pc = "mark" /\ runs'[r].cur[1] = j)
              <=> (runs[r].pc = "mark" /\ runs[r].cur[1] = j)

LEMMA SameRuns ==
    ASSUME NEW i, SameFor(i)
    PROVE  /\ Job!InBatch(i)' <=> Job!InBatch(i)
           /\ Job!Marking(i)' <=> Job!Marking(i)
           /\ \A r \in Runs : Holds(r, i)' <=> Holds(r, i)
  BY DEF SameFor, Job!InBatch, Job!Marking, Holds

\* An appointment does not notice what happens to another.
LEMMA OthersKept ==
    ASSUME RemindInv, UNCHANGED <<now, due>>, NEW i \in Ids, SameFor(i),
           appts'[i] = appts[i], mails'[i] = mails[i], skipped'[i] = skipped[i], lost'[i] = lost[i],
           late'[i] = late[i], excused'[i] = excused[i]
    PROVE  Unborn(i)' /\ Exact(i)' /\ Counted(i)'
  <1>1. Unborn(i) /\ Exact(i) /\ Counted(i)
    BY DEF RemindInv
  <1>2. /\ Job!InBatch(i)' <=> Job!InBatch(i)
        /\ Job!Marking(i)' <=> Job!Marking(i)
        /\ \A r \in Runs : Holds(r, i)' <=> Holds(r, i)
    BY SameRuns
  <1>3. Unborn(i)'
    BY <1>1, <1>2 DEF Unborn
  <1>4. Exact(i)'
    BY <1>1, <1>2 DEF Exact, SameFor
  <1>5. Counted(i)'
    <2>1. Hours(i)' = Hours(i)
      BY DEF Hours
    <2>2. Spent(i)' = Spent(i)
      BY <1>2 DEF Spent
    <2> QED
      BY <1>1, <2>1, <2>2 DEF Counted
  <1> QED
    BY <1>3, <1>4, <1>5

\* An appointment whose window is still ahead has no hour to account for.
LEMMA NothingServed ==
    ASSUME Typed', Job!RemindersAssumption, NEW i \in Ids,
           late'[i] = ~(appts'[i].starts - now' >= WindowTo)
    PROVE  Counted(i)'
  <1>1. /\ lost'[i] \in 0 .. 2 /\ now' \in Nat /\ WindowTo \in Nat
        /\ appts'[i].starts \in Nat
    BY DEF Typed, Job!RemindersAssumption
  <1>2. CASE late'[i]
    BY <1>2 DEF Counted
  <1>3. CASE ~late'[i]
    <2>1. appts'[i].starts - now' >= WindowTo
      BY <1>3
    <2>2. Hours(i)' \in Int /\ Hours(i)' <= 0
      BY <1>1, <2>1 DEF Hours
    <2>3. Spent(i)' \in Int /\ Spent(i)' >= 0
      BY <1>1 DEF Spent
    <2> QED
      BY <2>2, <2>3 DEF Counted
  <1> QED
    BY <1>2, <1>3

LEMMA RemindBook ==
    ASSUME Job!RemindersAssumption, RemindInv, NEW j \in Ids, NEW status \in Job!Statuses,
           NEW t \in Starts, Job!Book(j, status, t)
    PROVE  RemindInv'
  <1>1. /\ appts[j].status = "free"
        /\ appts' = [appts EXCEPT ![j] = [status |-> status, starts |-> t, reminded |-> FALSE]]
        /\ late' = [late EXCEPT ![j] = ~Job!Ahead(t)]
        /\ UNCHANGED <<now, due, runs, mails, skipped, lost, excused>>
    BY DEF Job!Book
  <1>2. t \in Nat
    BY DEF Job!RemindersAssumption
  <1>3. Typed'
    BY <1>1, <1>2 DEF RemindInv, Typed, Job!Ahead
  <1>4. /\ appts'[j] = [status |-> status, starts |-> t, reminded |-> FALSE]
        /\ late'[j] = ~(t - now >= WindowTo)
    BY <1>1 DEF RemindInv, Typed, Job!Ahead
  <1>5. ~Job!InBatch(j) /\ ~appts[j].reminded /\ ~Job!Marking(j)
    BY <1>1, MarkingIsHeld DEF RemindInv, Unborn
  <1>6. SameFor(j)
    BY <1>1 DEF SameFor
  <1>7. ~Job!InBatch(j)' /\ ~Job!Marking(j)' /\ \A r \in Runs : ~Holds(r, j)'
    BY <1>5, <1>6, SameRuns, HeldIsInBatch
  <1>8. Exact(j)'
    BY <1>1, <1>4, <1>5, <1>7 DEF RemindInv, Exact, Holds
  <1>9. Counted(j)'
    BY <1>1, <1>3, <1>4, NothingServed
  <1>10. Unborn(j)'
    BY <1>4, <1>7 DEF Unborn
  <1>11. \A i \in Ids \ {j} : Unborn(i)' /\ Exact(i)' /\ Counted(i)'
    BY <1>1, OthersKept DEF RemindInv, Typed, SameFor
  <1> QED
    BY <1>3, <1>8, <1>9, <1>10, <1>11 DEF RemindInv

LEMMA RemindSetStatus ==
    ASSUME Job!RemindersAssumption, RemindInv, NEW j \in Ids, NEW status \in Job!Statuses,
           Job!SetStatus(j, status)
    PROVE  RemindInv'
  <1>1. /\ appts[j].status # "free"
        /\ appts' = [appts EXCEPT ![j].status = status]
        /\ late' = [late EXCEPT ![j] = ~Job!Ahead(appts[j].starts)]
        /\ lost' = [lost EXCEPT ![j] = 0]
        /\ UNCHANGED <<now, due, runs, mails, skipped, excused>>
    BY DEF Job!SetStatus
  <1>2. Typed'
    BY <1>1 DEF RemindInv, Typed, Job!Ahead
  <1>3. /\ appts'[j].starts = appts[j].starts /\ appts'[j].status = status
        /\ appts'[j].reminded = appts[j].reminded
        /\ late'[j] = ~(appts[j].starts - now >= WindowTo)
    BY <1>1 DEF RemindInv, Typed, Job!Ahead
  <1>4. SameFor(j)
    BY <1>1 DEF SameFor
  <1>5. Exact(j)'
    <2>1. Exact(j)
      BY DEF RemindInv
    <2> QED
      BY <1>1, <1>3, <1>4, <2>1, SameRuns DEF Exact, SameFor
  <1>6. Counted(j)'
    BY <1>1, <1>2, <1>3, NothingServed
  <1>7. Unborn(j)'
    BY <1>3 DEF Unborn, Job!Statuses
  <1>8. \A i \in Ids \ {j} : Unborn(i)' /\ Exact(i)' /\ Counted(i)'
    BY <1>1, OthersKept DEF RemindInv, Typed, SameFor
  <1> QED
    BY <1>2, <1>5, <1>6, <1>7, <1>8 DEF RemindInv

LEMMA RemindReschedule ==
    ASSUME Job!RemindersAssumption, RemindInv, NEW j \in Ids, NEW t \in Starts,
           Job!Reschedule(j, t)
    PROVE  RemindInv'
  <1>1. /\ appts[j].status \in {"other", "confirmed"}
        /\ appts' = [appts EXCEPT ![j].starts = t, ![j].reminded = FALSE]
        /\ mails' = [mails EXCEPT ![j] = 0]
        /\ skipped' = [skipped EXCEPT ![j] = 0]
        /\ lost' = [lost EXCEPT ![j] = 0]
        /\ late' = [late EXCEPT ![j] = ~Job!Ahead(t)]
        /\ excused' = [excused EXCEPT ![j] = Job!InBatch(j)]
        /\ UNCHANGED <<now, due, runs>>
    BY DEF Job!Reschedule
  <1>2. t \in Nat
    BY DEF Job!RemindersAssumption
  <1>3. /\ appts' = [appts EXCEPT ![j] = [@ EXCEPT !.starts = t, !.reminded = FALSE]]
        /\ appts[j] \in [status : Job!Statuses \cup {"free"}, starts : Nat, reminded : BOOLEAN]
    BY <1>1 DEF RemindInv, Typed
  <1>4. /\ Job!InBatch(j) \in BOOLEAN
        /\ Job!Ahead(t) \in BOOLEAN
    BY DEF Job!InBatch, Job!Ahead
  <1>5. Typed'
    BY <1>1, <1>2, <1>3, <1>4 DEF RemindInv, Typed
  <1>6. /\ appts'[j].starts = t /\ appts'[j].status = appts[j].status
        /\ ~appts'[j].reminded /\ mails'[j] = 0 /\ skipped'[j] = 0
        /\ late'[j] = ~(t - now >= WindowTo)
        /\ excused'[j] = Job!InBatch(j)
    BY <1>1, <1>3 DEF RemindInv, Typed, Job!Ahead
  <1>7. SameFor(j)
    BY <1>1 DEF SameFor
  <1>8. Exact(j)'
    <2>1. CASE Job!InBatch(j)
      BY <1>6, <2>1 DEF Exact
    <2>2. CASE ~Job!InBatch(j)
      <3>1. ~Job!Marking(j)' /\ \A r \in Runs : ~Holds(r, j)'
        BY <1>7, <2>2, SameRuns, HeldIsInBatch, MarkingIsHeld
      <3> QED
        BY <1>6, <3>1 DEF Exact, Holds
    <2> QED
      BY <2>1, <2>2
  <1>9. Counted(j)'
    <2>1. late'[j] = ~(appts'[j].starts - now' >= WindowTo)
      BY <1>1, <1>6
    <2> QED
      BY <1>5, <2>1, NothingServed
  <1>10. Unborn(j)'
    BY <1>1, <1>6 DEF Unborn
  <1>11. \A i \in Ids \ {j} : Unborn(i)' /\ Exact(i)' /\ Counted(i)'
    BY <1>1, OthersKept DEF RemindInv, Typed, SameFor
  <1> QED
    BY <1>5, <1>8, <1>9, <1>10, <1>11 DEF RemindInv

-----------------------------------------------------------------------------
(* The clock and the hour a run is due *)

\* The hour that passes is the hour whose run is due.
LEMMA RemindTick ==
    ASSUME Job!RemindersAssumption, RemindInv, Job!Tick
    PROVE  RemindInv'
  <1>1. /\ ~due /\ due' = TRUE /\ now' = now + 1
        /\ UNCHANGED <<appts, runs, mails, skipped, lost, late, excused>>
    BY DEF Job!Tick
  <1>2. Typed'
    BY <1>1 DEF RemindInv, Typed
  <1>3. ASSUME NEW i \in Ids
        PROVE  Unborn(i)' /\ Exact(i)' /\ Counted(i)'
    <2>1. Unborn(i) /\ Exact(i) /\ Counted(i)
      BY DEF RemindInv
    <2>2. SameFor(i)
      BY <1>1 DEF SameFor
    <2>3. /\ Job!InBatch(i)' <=> Job!InBatch(i)
          /\ Job!Marking(i)' <=> Job!Marking(i)
          /\ \A r \in Runs : Holds(r, i)' <=> Holds(r, i)
      BY <2>2, SameRuns
    <2>4. Hours(i)' = Hours(i)
      BY <1>1 DEF Hours, RemindInv, Typed, Job!RemindersAssumption
    <2>5. Spent(i)' = Spent(i)
      BY <1>1, <2>3 DEF Spent
    <2>6. Unborn(i)'
      BY <1>1, <2>1, <2>3 DEF Unborn
    <2>7. Exact(i)'
      BY <1>1, <2>1, <2>3 DEF Exact
    <2>8. Counted(i)'
      BY <1>1, <2>1, <2>4, <2>5 DEF Counted
    <2> QED
      BY <2>6, <2>7, <2>8
  <1> QED
    BY <1>2, <1>3 DEF RemindInv

\* The run of the hour is over.  An appointment it could not have selected either
\* has its window ahead or has used up two hours of it.
LEMMA HourOver ==
    ASSUME Job!RemindersAssumption, RemindInv, Typed', NEW i \in Ids,
           due, ~due', now' = now, appts' = appts, late'[i] = late[i],
           i \in Job!Candidates => Spent(i)' >= 2 \/ Spent(i)' >= Spent(i) + 1,
           i \notin Job!Candidates => Spent(i)' = Spent(i),
           ~excused'[i] => ~excused[i]
    PROVE  Counted(i)'
  <1>1. /\ now \in Nat /\ WindowTo \in Nat /\ WindowFrom \in Nat /\ appts[i].starts \in Nat
        /\ lost[i] \in Nat /\ lost'[i] \in Nat
    BY DEF RemindInv, Typed, Job!RemindersAssumption
  <1>2. /\ Hours(i) = WindowTo - appts[i].starts + now - 1
        /\ Hours(i)' = WindowTo - appts[i].starts + now
    BY <1>1 DEF Hours
  <1>3. Spent(i) \in Nat /\ Spent(i)' \in Nat
    BY <1>1 DEF Spent
  <1>4. SUFFICES ASSUME WindowFrom + 2 <= WindowTo, appts[i].status = "confirmed",
                        ~appts[i].reminded, ~late[i], ~excused[i]
                 PROVE  Spent(i)' >= 2 \/ Spent(i)' >= Hours(i)'
    BY DEF Counted
  <1>5. Spent(i) >= 2 \/ Spent(i) >= Hours(i)
    BY <1>4 DEF RemindInv, Counted
  <1>6. CASE i \in Job!Candidates
    BY <1>1, <1>2, <1>3, <1>5, <1>6
  <1>7. CASE i \notin Job!Candidates
    <2>1. appts[i].starts < now + WindowFrom \/ appts[i].starts >= now + WindowTo
      BY <1>1, <1>4, <1>7 DEF Job!Candidates
    <2> QED
      BY <1>1, <1>2, <1>3, <1>4, <1>5, <1>7, <2>1
  <1> QED
    BY <1>6, <1>7

LEMMA RemindMissRun ==
    ASSUME Job!RemindersAssumption, RemindInv, Job!MissRun
    PROVE  RemindInv'
  <1>1. /\ due /\ due' = FALSE
        /\ lost' = [i \in Ids |-> IF i \in Job!Candidates /\ lost[i] < 2
                                  THEN lost[i] + 1 ELSE lost[i]]
        /\ UNCHANGED <<now, appts, runs, mails, skipped, late, excused>>
    BY DEF Job!MissRun
  <1>2. lost' \in [Ids -> 0 .. 2]
    <2>1. \A i \in Ids : lost[i] \in 0 .. 2
      BY DEF RemindInv, Typed
    <2> QED
      BY <1>1, <2>1
  <1>3. Typed'
    BY <1>1, <1>2 DEF RemindInv, Typed
  <1>4. ASSUME NEW i \in Ids
        PROVE  Unborn(i)' /\ Exact(i)' /\ Counted(i)'
    <2>1. Unborn(i) /\ Exact(i)
      BY DEF RemindInv
    <2>2. SameFor(i)
      BY <1>1 DEF SameFor
    <2>3. /\ Job!InBatch(i)' <=> Job!InBatch(i)
          /\ Job!Marking(i)' <=> Job!Marking(i)
          /\ \A r \in Runs : Holds(r, i)' <=> Holds(r, i)
      BY <2>2, SameRuns
    <2>4. Unborn(i)'
      BY <1>1, <2>1, <2>3 DEF Unborn
    <2>5. Exact(i)'
      BY <1>1, <2>1, <2>3 DEF Exact
    <2>6. lost[i] \in 0 .. 2
      BY DEF RemindInv, Typed
    <2>7. lost'[i] = IF i \in Job!Candidates /\ lost[i] < 2 THEN lost[i] + 1 ELSE lost[i]
      BY <1>1
    <2>8. i \notin Job!Candidates => Spent(i)' = Spent(i)
      BY <2>3, <2>7 DEF Spent
    <2>9. i \in Job!Candidates => Spent(i)' >= 2 \/ Spent(i)' >= Spent(i) + 1
      BY <2>3, <2>6, <2>7 DEF Spent
    <2>10. Counted(i)'
      BY <1>1, <1>3, <2>8, <2>9, HourOver
    <2> QED
      BY <2>4, <2>5, <2>10
  <1> QED
    BY <1>3, <1>4 DEF RemindInv

\* What a select puts into its run's batch, and the other runs keep.
LEMMA RemindStartRun ==
    ASSUME Job!RemindersAssumption, RemindInv, NEW r \in Runs, Job!StartRun(r)
    PROVE  RemindInv'
  <1> DEFINE Batch == {<<i, appts[i].starts>> : i \in Job!Candidates}
  <1>1. /\ due /\ due' = FALSE /\ runs[r].pc = "idle"
        /\ runs' = [runs EXCEPT ![r].pc = "loop", ![r].batch = Batch]
        /\ excused' = [i \in Ids |-> excused[i] \/ (i \in Job!Candidates /\ Job!InBatch(i))]
        /\ UNCHANGED <<now, appts, mails, skipped, lost, late>>
    BY DEF Job!StartRun
  <1>2. /\ runs \in [Runs -> RunRecord] /\ runs[r].batch = {}
        /\ runs[r] \in RunRecord
    BY <1>1 DEF RemindInv, Typed
  <1>3. runs' = [runs EXCEPT ![r] = [runs[r] EXCEPT !.pc = "loop", !.batch = Batch]]
    BY <1>1, <1>2
  <1>4. /\ runs'[r].pc = "loop" /\ runs'[r].batch = Batch
        /\ \A q \in Runs \ {r} : runs'[q] = runs[q]
    BY <1>2, <1>3 DEF RunRecord
  <1>5. Typed'
    <2>1. Batch \in SUBSET Pairs
      <3>1. \A i \in Ids : appts[i].starts \in Nat
        BY DEF RemindInv, Typed
      <3>2. Job!Candidates \subseteq Ids
        BY DEF Job!Candidates
      <3> QED
        BY <3>1, <3>2 DEF Pairs
    <2>2. runs' \in [Runs -> RunRecord]
      BY <1>2, <1>3, <2>1 DEF RunRecord
    <2>3. \A q \in Runs : /\ runs'[q].pc = "mark" => runs'[q].cur \in Pairs
                          /\ runs'[q].pc = "idle" => runs'[q].batch = {}
      <3>1. \A q \in Runs : /\ runs[q].pc = "mark" => runs[q].cur \in Pairs
                            /\ runs[q].pc = "idle" => runs[q].batch = {}
        BY RunsTyped
      <3> HIDE DEF Batch
      <3> QED
        BY <1>4, <3>1
    <2>4. excused' \in [Ids -> BOOLEAN]
      BY <1>1 DEF RemindInv, Typed
    <2> QED
      BY <1>1, <2>2, <2>3, <2>4 DEF RemindInv, Typed
  <1>6. ASSUME NEW i \in Ids
        PROVE  Unborn(i)' /\ Exact(i)' /\ Counted(i)'
    <2>1. Unborn(i) /\ Exact(i)
      BY DEF RemindInv
    <2>2. /\ Job!Marking(i)' <=> Job!Marking(i)
          /\ \A q \in Runs \ {r} : Holds(q, i)' <=> Holds(q, i)
          /\ ~Holds(r, i)
      BY <1>1, <1>2, <1>4 DEF Job!Marking, Holds
    <2>3. Holds(r, i)' <=> i \in Job!Candidates
      <3>1. Holds(r, i)' <=> \E x \in Batch : x[1] = i
        BY <1>4 DEF Holds
      <3>2. i \in Job!Candidates => <<i, appts[i].starts>> \in Batch
        OBVIOUS
      <3>3. \A x \in Batch : x[1] \in Job!Candidates
        OBVIOUS
      <3> QED
        BY <3>1, <3>2, <3>3
    <2>4. Job!InBatch(i)' <=> Job!InBatch(i) \/ i \in Job!Candidates
      <3>1. Job!InBatch(i)' <=> \E q \in Runs : Holds(q, i)'
        BY DEF Job!InBatch, Holds
      <3> QED
        BY <2>2, <2>3, <3>1, HeldIsInBatch
    <2>5. Unborn(i)'
      BY <1>1, <2>1, <2>4 DEF Unborn, Job!Candidates
    <2>6. excused'[i] <=> excused[i] \/ (i \in Job!Candidates /\ Job!InBatch(i))
      BY <1>1
    <2>7. Exact(i)'
      <3>1. CASE excused'[i]
        BY <3>1 DEF Exact
      <3>2. CASE ~excused'[i] /\ i \notin Job!Candidates
        <4>1. \A q \in Runs : \A x \in runs'[q].batch : x[1] = i => x \in runs[q].batch
          BY <1>4, <3>2
        <4>2. \A q \in Runs : Holds(q, i)' => Holds(q, i)
          BY <2>2, <2>3, <3>2
        <4> QED
          BY <1>1, <2>1, <2>2, <2>6, <3>2, <4>1, <4>2 DEF Exact
      <3>3. CASE ~excused'[i] /\ i \in Job!Candidates
        <4>1. ~Job!InBatch(i) /\ ~excused[i] /\ ~appts[i].reminded
          BY <2>6, <3>3 DEF Job!Candidates
        <4>2. ~Job!Marking(i)
          BY <4>1, MarkingIsHeld
        <4>3. \A q \in Runs : Holds(q, i)' => q = r
          BY <2>2, <4>1, HeldIsInBatch
        <4>4. \A q \in Runs : \A x \in runs'[q].batch : x[1] = i => x[2] = appts[i].starts
          BY <1>4, <4>3 DEF Holds
        <4> QED
          BY <1>1, <2>1, <2>2, <3>3, <4>1, <4>2, <4>3, <4>4 DEF Exact
      <3> QED
        BY <3>1, <3>2, <3>3
    <2>8. Counted(i)'
      <3>1. CASE excused'[i]
        BY <3>1 DEF Counted
      <3>2. CASE ~excused'[i]
        <4>1. lost[i] \in Nat /\ lost'[i] = lost[i]
          BY <1>1 DEF RemindInv, Typed
        <4>2. i \in Job!Candidates => Spent(i)' >= Spent(i) + 1
          BY <2>4, <2>6, <3>2, <4>1 DEF Spent
        <4>3. i \notin Job!Candidates => Spent(i)' = Spent(i)
          BY <2>4, <4>1 DEF Spent
        <4> QED
          BY <1>1, <1>5, <2>6, <4>2, <4>3, HourOver
      <3> QED
        BY <3>1, <3>2
    <2> QED
      BY <2>5, <2>7, <2>8
  <1> QED
    BY <1>5, <1>6 DEF RemindInv

-----------------------------------------------------------------------------
(* The steps of a run *)

\* A run that takes x off its batch, to remind of it or to skip it.
LEMMA RemindSend ==
    ASSUME Job!RemindersAssumption, RemindInv, NEW r \in Runs, Job!Send(r) \/ Job!Skip(r)
    PROVE  RemindInv'
  <1>1. PICK x \in runs[r].batch :
          /\ runs[r].pc = "loop"
          /\ runs' = [runs EXCEPT ![r].pc = "mark", ![r].cur = x, ![r].batch = @ \ {x}]
          /\ \/ mails' = Job!Counting(mails, x) /\ skipped' = skipped
             \/ skipped' = Job!Counting(skipped, x) /\ mails' = mails
          /\ UNCHANGED <<now, due, appts, lost, late, excused>>
    BY DEF Job!Send, Job!Skip, Job!Take
  <1> DEFINE j == x[1]
  <1>2. runs \in [Runs -> RunRecord] /\ runs[r] \in RunRecord
    BY DEF RemindInv, Typed
  <1>3. x \in Pairs /\ j \in Ids
    BY <1>2 DEF RunRecord, Pairs
  <1>4. runs' = [runs EXCEPT ![r] = [runs[r] EXCEPT !.pc = "mark", !.cur = x,
                                                   !.batch = runs[r].batch \ {x}]]
    BY <1>1, <1>2
  <1>5. /\ runs'[r].pc = "mark" /\ runs'[r].cur = x /\ runs'[r].batch = runs[r].batch \ {x}
        /\ \A q \in Runs \ {r} : runs'[q] = runs[q]
    BY <1>2, <1>4 DEF RunRecord
  <1>6. Typed'
    <2>1. runs' \in [Runs -> RunRecord]
      BY <1>2, <1>3, <1>4 DEF RunRecord
    <2>2. \A q \in Runs : /\ runs'[q].pc = "mark" => runs'[q].cur \in Pairs
                          /\ runs'[q].pc = "idle" => runs'[q].batch = {}
      BY <1>3, <1>5, RunsTyped
    <2>3. mails' \in [Ids -> 0 .. 2] /\ skipped' \in [Ids -> 0 .. 2]
      <3>1. mails \in [Ids -> 0 .. 2] /\ skipped \in [Ids -> 0 .. 2]
        BY DEF RemindInv, Typed
      <3>2. ASSUME NEW tally \in [Ids -> 0 .. 2]
            PROVE  Job!Counting(tally, x) \in [Ids -> 0 .. 2]
        <4>1. tally[j] \in 0 .. 2
          BY <1>3
        <4>2. tally[j] < 2 => tally[j] + 1 \in 0 .. 2
          BY <4>1
        <4> QED
          BY <4>2 DEF Job!Counting
      <3> QED
        BY <1>1, <3>1, <3>2
    <2> QED
      BY <1>1, <2>1, <2>2, <2>3 DEF RemindInv, Typed
  <1>7. Job!InBatch(j) /\ Holds(r, j)
    BY DEF Job!InBatch, Holds
  <1>8. Job!InBatch(j)' /\ Job!Marking(j)'
    BY <1>5 DEF Job!InBatch, Job!Marking
  <1>9. Unborn(j)'
    BY <1>1, <1>3, <1>7 DEF RemindInv, Unborn
  <1>10. Counted(j)'
    <2>1. Counted(j)
      BY <1>3 DEF RemindInv
    <2>2. Hours(j)' = Hours(j) /\ Spent(j)' = Spent(j)
      BY <1>1, <1>7, <1>8 DEF Hours, Spent
    <2> QED
      BY <1>1, <2>1, <2>2 DEF Counted
  <1>11. Exact(j)'
    <2>1. SUFFICES ASSUME ~excused[j]
                   PROVE  Exact(j)'
      BY <1>1 DEF Exact
    <2>2. Exact(j)
      BY <1>3 DEF RemindInv
    <2>3. /\ mails[j] + skipped[j] = IF appts[j].reminded \/ Job!Marking(j) THEN 1 ELSE 0
          /\ \A q \in Runs : \A y \in runs[q].batch : y[1] = j =>
                y[2] = appts[j].starts /\ ~appts[j].reminded /\ ~Job!Marking(j)
          /\ \A q, p \in Runs : Holds(q, j) /\ Holds(p, j) => q = p
      BY <2>1, <2>2 DEF Exact
    <2>4. x[2] = appts[j].starts /\ ~appts[j].reminded /\ ~Job!Marking(j) /\ mails[j] + skipped[j] = 0
      BY <2>3
    <2>5. mails'[j] + skipped'[j] = 1
      <3>1. /\ mails \in [Ids -> 0 .. 2] /\ skipped \in [Ids -> 0 .. 2]
            /\ mails[j] \in 0 .. 2 /\ skipped[j] \in 0 .. 2
        BY <1>3 DEF RemindInv, Typed
      <3>2. mails[j] = 0 /\ skipped[j] = 0
        BY <2>4, <3>1
      <3>3. ASSUME NEW tally \in [Ids -> 0 .. 2], tally[j] = 0
            PROVE  Job!Counting(tally, x)[j] = 1
        BY <1>3, <2>4, <3>3 DEF Job!Counting
      <3> QED
        BY <1>1, <3>1, <3>2, <3>3
    <2>6. \A q \in Runs : Holds(q, j) => q = r
      BY <1>7, <2>3
    <2>7. \A q \in Runs : Holds(q, j)' => q = r
      BY <1>5, <2>6 DEF Holds
    <2>8. \A q \in Runs : \A y \in runs'[q].batch : y[1] # j
      <3>1. ASSUME NEW q \in Runs, NEW y \in runs'[q].batch, y[1] = j
            PROVE  FALSE
        <4>1. q = r
          BY <2>7, <3>1 DEF Holds
        <4>2. y \in runs[r].batch /\ y # x
          BY <1>5, <3>1, <4>1
        <4>3. y[2] = appts[j].starts
          BY <2>3, <3>1, <4>2
        <4>4. y \in Pairs /\ x \in Pairs
          BY <1>2, <1>3, <4>2 DEF RunRecord, Pairs
        <4> QED
          BY <2>4, <3>1, <4>2, <4>3, <4>4 DEF Pairs
      <3> QED
        BY <3>1
    <2> QED
      BY <1>1, <1>8, <2>5, <2>7, <2>8 DEF Exact
  <1>12. ASSUME NEW i \in Ids, i # j
         PROVE  Unborn(i)' /\ Exact(i)' /\ Counted(i)'
    <2>1. SameFor(i)
      BY <1>1, <1>5, <1>12 DEF SameFor
    <2>2. mails'[i] = mails[i] /\ skipped'[i] = skipped[i]
      BY <1>1, <1>3, <1>12 DEF RemindInv, Typed, Job!Counting
    <2> QED
      BY <1>1, <2>1, <2>2, OthersKept
  <1> QED
    BY <1>6, <1>9, <1>10, <1>11, <1>12 DEF RemindInv

LEMMA RemindSendFails ==
    ASSUME Job!RemindersAssumption, RemindInv, NEW r \in Runs, Job!SendFails(r)
    PROVE  RemindInv'
  <1>1. PICK x \in runs[r].batch :
          /\ runs[r].pc = "loop"
          /\ runs' = [runs EXCEPT ![r].batch = @ \ {x}]
          /\ lost' = IF lost[x[1]] < 2 THEN [lost EXCEPT ![x[1]] = @ + 1] ELSE lost
          /\ UNCHANGED <<now, due, appts, mails, skipped, late, excused>>
    BY DEF Job!SendFails
  <1> DEFINE j == x[1]
  <1>2. runs \in [Runs -> RunRecord] /\ runs[r] \in RunRecord
    BY DEF RemindInv, Typed
  <1>3. x \in Pairs /\ j \in Ids
    BY <1>2 DEF RunRecord, Pairs
  <1>4. /\ runs'[r].pc = "loop" /\ runs'[r].batch = runs[r].batch \ {x}
        /\ \A q \in Runs \ {r} : runs'[q] = runs[q]
    BY <1>1, <1>2 DEF RunRecord
  <1>5. lost \in [Ids -> 0 .. 2] /\ lost[j] \in 0 .. 2
    BY <1>3 DEF RemindInv, Typed
  <1>6. Typed'
    <2>1. runs' \in [Runs -> RunRecord]
      BY <1>1, <1>2 DEF RunRecord
    <2>2. \A q \in Runs : /\ runs'[q].pc = "mark" => runs'[q].cur \in Pairs
                          /\ runs'[q].pc = "idle" => runs'[q].batch = {}
      BY <1>4, RunsTyped
    <2>3. lost' \in [Ids -> 0 .. 2]
      <3>1. lost[j] < 2 => lost[j] + 1 \in 0 .. 2
        BY <1>5
      <3> QED
        BY <1>1, <1>3, <1>5, <3>1
    <2> QED
      BY <1>1, <2>1, <2>2, <2>3 DEF RemindInv, Typed
  <1>7. /\ Job!InBatch(j)
        /\ Job!InBatch(j)' => Job!InBatch(j)
        /\ Job!Marking(j)' <=> Job!Marking(j)
        /\ \A q \in Runs : Holds(q, j)' => Holds(q, j)
        /\ \A q \in Runs : runs'[q].batch \subseteq runs[q].batch
    BY <1>1, <1>4 DEF Job!InBatch, Job!Marking, Holds
  <1>8. Unborn(j)'
    BY <1>1, <1>3, <1>7 DEF RemindInv, Unborn
  <1>9. Exact(j)'
    <2>1. Exact(j)
      BY <1>3 DEF RemindInv
    <2> QED
      BY <1>1, <1>7, <2>1 DEF Exact
  <1>10. Counted(j)'
    <2>1. Counted(j)
      BY <1>3 DEF RemindInv
    <2>2. Hours(j)' = Hours(j) /\ Hours(j) \in Int
      BY <1>1, <1>3 DEF Hours, RemindInv, Typed, Job!RemindersAssumption
    <2>3. Spent(j) = lost[j] + 1
      BY <1>7 DEF Spent
    <2>4. Spent(j)' >= 2 \/ Spent(j)' >= Spent(j)
      <3>1. lost'[j] = IF lost[j] < 2 THEN lost[j] + 1 ELSE lost[j]
        BY <1>1, <1>3, <1>5
      <3> QED
        BY <1>5, <2>3, <3>1 DEF Spent
    <2>5. Spent(j)' \in Int /\ Spent(j) \in Int
      BY <1>3, <1>5, <1>6 DEF Spent, Typed
    <2> QED
      BY <1>1, <2>1, <2>2, <2>4, <2>5 DEF Counted
  <1>11. ASSUME NEW i \in Ids, i # j
         PROVE  Unborn(i)' /\ Exact(i)' /\ Counted(i)'
    <2>1. SameFor(i)
      BY <1>1, <1>4, <1>11 DEF SameFor
    <2>2. lost'[i] = lost[i]
      BY <1>1, <1>3, <1>5, <1>11
    <2> QED
      BY <1>1, <2>1, <2>2, OthersKept
  <1> QED
    BY <1>6, <1>8, <1>9, <1>10, <1>11 DEF RemindInv

\* The marked row is the one whose reminder went out: no other run and no other
\* row of a batch has it, or it is excused.
LEMMA RemindMark ==
    ASSUME Job!RemindersAssumption, RemindInv, NEW r \in Runs, Job!Mark(r)
    PROVE  RemindInv'
  <1>0. PICK j \in Ids : j = runs[r].cur[1] /\ runs[r].cur \in Pairs
    BY RunsTyped DEF Job!Mark, Pairs
  <1>1. /\ runs[r].pc = "mark"
        /\ appts' = [appts EXCEPT ![j].reminded = TRUE]
        /\ runs' = [runs EXCEPT ![r].pc = "loop"]
        /\ UNCHANGED <<now, due, mails, skipped, lost, late, excused>>
    BY <1>0 DEF Job!Mark
  <1>2. runs \in [Runs -> RunRecord] /\ runs[r] \in RunRecord
    BY DEF RemindInv, Typed
  <1>3. /\ runs'[r].pc = "loop" /\ runs'[r].batch = runs[r].batch
        /\ \A q \in Runs \ {r} : runs'[q] = runs[q]
    BY <1>1, <1>2 DEF RunRecord
  <1>4. Typed'
    <2>1. runs' \in [Runs -> RunRecord]
      BY <1>1, <1>2 DEF RunRecord
    <2>2. \A q \in Runs : /\ runs'[q].pc = "mark" => runs'[q].cur \in Pairs
                          /\ runs'[q].pc = "idle" => runs'[q].batch = {}
      BY <1>3, RunsTyped
    <2>3. appts' \in [Ids -> [status : Job!Statuses \cup {"free"}, starts : Nat, reminded : BOOLEAN]]
      BY <1>1 DEF RemindInv, Typed
    <2> QED
      BY <1>1, <2>1, <2>2, <2>3 DEF RemindInv, Typed
  <1>5. /\ appts'[j].reminded /\ appts'[j].starts = appts[j].starts
        /\ appts'[j].status = appts[j].status
    BY <1>1 DEF RemindInv, Typed
  <1>6. Job!Marking(j) /\ Job!InBatch(j) /\ Holds(r, j)
    BY <1>0, <1>1 DEF Job!Marking, Job!InBatch, Holds
  <1>7. Unborn(j)'
    BY <1>5, <1>6 DEF RemindInv, Unborn
  <1>8. Counted(j)'
    BY <1>5 DEF Counted
  <1>9. Exact(j)'
    <2>1. SUFFICES ASSUME ~excused[j]
                   PROVE  Exact(j)'
      BY <1>1 DEF Exact
    <2>2. Exact(j)
      BY DEF RemindInv
    <2>3. mails[j] + skipped[j] = 1
      BY <1>6, <2>1, <2>2 DEF Exact
    <2>4. \A q \in Runs : \A x \in runs'[q].batch : x[1] # j
      BY <1>3, <1>6, <2>1, <2>2 DEF Exact
    <2>5. \A q \in Runs : Holds(q, j)' => Holds(q, j)
      BY <1>3 DEF Holds
    <2> QED
      BY <1>1, <1>5, <2>1, <2>2, <2>3, <2>4, <2>5 DEF Exact
  <1>10. ASSUME NEW i \in Ids, i # j
         PROVE  Unborn(i)' /\ Exact(i)' /\ Counted(i)'
    <2>1. SameFor(i)
      BY <1>0, <1>1, <1>3, <1>10 DEF SameFor
    <2>2. appts'[i] = appts[i]
      BY <1>1, <1>10 DEF RemindInv, Typed
    <2> QED
      BY <1>1, <2>1, <2>2, OthersKept
  <1> QED
    BY <1>4, <1>7, <1>8, <1>9, <1>10 DEF RemindInv

LEMMA RemindMarkFails ==
    ASSUME Job!RemindersAssumption, RemindInv, NEW r \in Runs, Job!MarkFails(r)
    PROVE  RemindInv'
  <1>0. PICK j \in Ids : j = runs[r].cur[1] /\ runs[r].cur \in Pairs
    BY RunsTyped DEF Job!MarkFails, Pairs
  <1>1. /\ runs[r].pc = "mark"
        /\ runs' = [runs EXCEPT ![r].pc = "loop"]
        /\ excused' = [excused EXCEPT ![j] = TRUE]
        /\ UNCHANGED <<now, due, appts, mails, skipped, lost, late>>
    BY <1>0 DEF Job!MarkFails
  <1>2. runs \in [Runs -> RunRecord] /\ runs[r] \in RunRecord
    BY DEF RemindInv, Typed
  <1>3. /\ runs'[r].pc = "loop" /\ runs'[r].batch = runs[r].batch
        /\ \A q \in Runs \ {r} : runs'[q] = runs[q]
    BY <1>1, <1>2 DEF RunRecord
  <1>4. Typed'
    <2>1. runs' \in [Runs -> RunRecord]
      BY <1>1, <1>2 DEF RunRecord
    <2>2. \A q \in Runs : /\ runs'[q].pc = "mark" => runs'[q].cur \in Pairs
                          /\ runs'[q].pc = "idle" => runs'[q].batch = {}
      BY <1>3, RunsTyped
    <2>3. excused' \in [Ids -> BOOLEAN]
      BY <1>1 DEF RemindInv, Typed
    <2> QED
      BY <1>1, <2>1, <2>2, <2>3 DEF RemindInv, Typed
  <1>5. excused'[j]
    BY <1>1 DEF RemindInv, Typed
  <1>6. Job!InBatch(j)
    BY <1>0, <1>1 DEF Job!InBatch
  <1>7. Unborn(j)' /\ Exact(j)' /\ Counted(j)'
    BY <1>1, <1>5, <1>6 DEF RemindInv, Unborn, Exact, Counted
  <1>8. ASSUME NEW i \in Ids, i # j
        PROVE  Unborn(i)' /\ Exact(i)' /\ Counted(i)'
    <2>1. SameFor(i)
      BY <1>0, <1>1, <1>3, <1>8 DEF SameFor
    <2>2. excused'[i] = excused[i]
      BY <1>1, <1>8 DEF RemindInv, Typed
    <2> QED
      BY <1>1, <2>1, <2>2, OthersKept
  <1> QED
    BY <1>4, <1>7, <1>8 DEF RemindInv

LEMMA RemindEndRun ==
    ASSUME Job!RemindersAssumption, RemindInv, NEW r \in Runs, Job!EndRun(r)
    PROVE  RemindInv'
  <1>1. /\ runs[r].pc = "loop" /\ runs[r].batch = {}
        /\ runs' = [runs EXCEPT ![r] = Job!Resting]
        /\ UNCHANGED <<now, due, appts, mails, skipped, lost, late, excused>>
    BY DEF Job!EndRun
  <1>2. runs \in [Runs -> RunRecord]
    BY DEF RemindInv, Typed
  <1>3. runs'[r] = Job!Resting /\ \A q \in Runs \ {r} : runs'[q] = runs[q]
    BY <1>1, <1>2
  <1>4. Typed'
    <2>1. runs' \in [Runs -> RunRecord]
      BY <1>1, <1>2, RestingRun
    <2>2. \A q \in Runs : /\ runs'[q].pc = "mark" => runs'[q].cur \in Pairs
                          /\ runs'[q].pc = "idle" => runs'[q].batch = {}
      BY <1>3, RunsTyped, RestingRun
    <2> QED
      BY <1>1, <2>1, <2>2 DEF RemindInv, Typed
  <1>5. ASSUME NEW i \in Ids
        PROVE  Unborn(i)' /\ Exact(i)' /\ Counted(i)'
    <2>1. SameFor(i)
      BY <1>1, <1>3, RestingRun DEF SameFor
    <2> QED
      BY <1>1, <2>1, OthersKept
  <1> QED
    BY <1>4, <1>5 DEF RemindInv

\* A crash costs the appointments in a batch their chance, and the one whose
\* reminder is out its mark.
LEMMA RemindCrash ==
    ASSUME Job!RemindersAssumption, RemindInv, Job!Crash
    PROVE  RemindInv'
  <1>1. /\ runs' = [r \in Runs |-> Job!Resting]
        /\ lost' = [i \in Ids |-> IF Job!InBatch(i) /\ ~Job!Marking(i) /\ lost[i] < 2
                                  THEN lost[i] + 1 ELSE lost[i]]
        /\ excused' = [i \in Ids |-> excused[i] \/ Job!Marking(i)]
        /\ UNCHANGED <<now, due, appts, mails, skipped, late>>
    BY DEF Job!Crash
  <1>2. \A r \in Runs : runs'[r].pc = "idle" /\ runs'[r].batch = {}
    BY <1>1, RestingRun
  <1>3. Typed'
    <2>1. runs' \in [Runs -> RunRecord]
      BY <1>1, RestingRun
    <2>2. lost' \in [Ids -> 0 .. 2]
      <3>1. \A i \in Ids : lost[i] \in 0 .. 2
        BY DEF RemindInv, Typed
      <3> QED
        BY <1>1, <3>1
    <2>3. excused' \in [Ids -> BOOLEAN]
      <3>1. \A i \in Ids : excused[i] \/ Job!Marking(i) \in BOOLEAN
        BY DEF Job!Marking, RemindInv, Typed
      <3> QED
        BY <1>1, <3>1
    <2> QED
      BY <1>1, <1>2, <2>1, <2>2, <2>3 DEF RemindInv, Typed
  <1>4. ASSUME NEW i \in Ids
        PROVE  Unborn(i)' /\ Exact(i)' /\ Counted(i)'
    <2>1. Unborn(i) /\ Exact(i) /\ Counted(i) /\ lost[i] \in 0 .. 2
      BY DEF RemindInv, Typed
    <2>2. ~Job!InBatch(i)' /\ ~Job!Marking(i)' /\ \A r \in Runs : ~Holds(r, i)'
      BY <1>2 DEF Job!InBatch, Job!Marking, Holds
    <2>3. Unborn(i)'
      BY <1>1, <2>1, <2>2 DEF Unborn
    <2>4. excused'[i] <=> excused[i] \/ Job!Marking(i)
      BY <1>1
    <2>5. Exact(i)'
      BY <1>1, <1>2, <2>1, <2>2, <2>4 DEF Exact
    <2>6. Counted(i)'
      <3>1. Hours(i)' = Hours(i) /\ Hours(i) \in Int
        BY <1>1 DEF Hours, RemindInv, Typed, Job!RemindersAssumption
      <3>2. lost'[i] = IF Job!InBatch(i) /\ ~Job!Marking(i) /\ lost[i] < 2 THEN lost[i] + 1 ELSE lost[i]
        BY <1>1
      <3>3. ~Job!Marking(i) => Spent(i)' >= 2 \/ Spent(i)' >= Spent(i)
        BY <2>1, <2>2, <3>2 DEF Spent
      <3>4. Spent(i) \in Int /\ Spent(i)' \in Int
        BY <2>1, <3>2 DEF Spent
      <3> QED
        BY <1>1, <2>1, <2>4, <3>1, <3>3, <3>4 DEF Counted
    <2> QED
      BY <2>3, <2>5, <2>6
  <1> QED
    BY <1>3, <1>4 DEF RemindInv

LEMMA RemindNext ==
    ASSUME Job!RemindersAssumption, RemindInv, [Job!Next]_(Job!vars)
    PROVE  RemindInv'
  <1>1. ASSUME NEW i \in Ids, NEW t \in Starts, NEW s \in Job!Statuses, Job!Book(i, s, t)
        PROVE  RemindInv'
    BY <1>1, RemindBook
  <1>2. ASSUME NEW i \in Ids, NEW t \in Starts, Job!Reschedule(i, t)
        PROVE  RemindInv'
    BY <1>2, RemindReschedule
  <1>3. ASSUME NEW i \in Ids, NEW s \in Job!Statuses, Job!SetStatus(i, s)
        PROVE  RemindInv'
    BY <1>3, RemindSetStatus
  <1>4. ASSUME NEW r \in Runs,
               \/ Job!StartRun(r) \/ Job!Send(r) \/ Job!Skip(r) \/ Job!SendFails(r)
               \/ Job!Mark(r) \/ Job!MarkFails(r) \/ Job!EndRun(r)
        PROVE  RemindInv'
    BY <1>4, RemindStartRun, RemindSend, RemindSendFails, RemindMark, RemindMarkFails,
       RemindEndRun
  <1>5. CASE Job!Tick \/ Job!MissRun \/ Job!Crash
    BY <1>5, RemindTick, RemindMissRun, RemindCrash
  <1>6. CASE UNCHANGED Job!vars
    <2>1. Typed'
      BY <1>6 DEF Job!vars, RemindInv, Typed
    <2>2. \A i \in Ids : Unborn(i)' /\ Exact(i)' /\ Counted(i)'
      BY <1>6, OthersKept DEF Job!vars, SameFor
    <2> QED
      BY <2>1, <2>2 DEF RemindInv
  <1> QED
    BY <1>1, <1>2, <1>3, <1>4, <1>5, <1>6 DEF Job!Next

-----------------------------------------------------------------------------
(* The theorems *)

\* Runs that overlap, e-mails that fail, crashes and appointments moved or
\* cancelled between the select and the mark: unless one of them excuses it, a
\* customer has exactly one reminder of the time the appointment now has, sent or
\* skipped, when the row is marked or being marked, and none otherwise
\* (sendDueReminders).
THEOREM OneReminder ==
    /\ Job!Spec => []Job!RemindedExactlyOnce
    /\ ServerSpec => []RemindedExactlyOnce
  <1> USE ServerAssumption
  <1>1. Job!Init => RemindInv
    BY RemindInit
  <1>2. RemindInv /\ [Job!Next]_(Job!vars) => RemindInv'
    BY RemindNext
  <1>3. RemindInv => Job!RemindedExactlyOnce
    BY DEF RemindInv, Exact, Job!RemindedExactlyOnce
  <1>4. Job!Spec => []Job!RemindedExactlyOnce
    BY <1>1, <1>2, <1>3, PTL DEF Job!Spec
  <1>5. ServerSpec => []RemindedExactlyOnce
    <2> DEFINE Inv == part = "reminders" => RemindInv
    <2>1. ServerInit => Inv
      BY <1>1 DEF ServerInit
    <2>2. Inv /\ [ServerNext]_ServerVars => Inv'
      BY <1>2, JobMoves
    <2>3. Inv => RemindedExactlyOnce
      BY <1>3 DEF RemindedExactlyOnce
    <2> QED
      BY <2>1, <2>2, <2>3, PTL DEF ServerSpec
  <1> QED
    BY <1>4, <1>5

\* With a window of two hours and a run every hour, an appointment confirmed
\* before its window opened goes without its reminder only if two runs were lost
\* for it (SQL_FIND_REMINDER_CANDIDATES: 23 to 25 hours ahead).
THEOREM TwoFailures ==
    ASSUME WindowFrom + 2 <= WindowTo
    PROVE  /\ Job!Spec => []Job!TwoChances
           /\ ServerSpec => []TwoChances
  <1> USE ServerAssumption
  <1>1. Job!Init => RemindInv
    BY RemindInit
  <1>2. RemindInv /\ [Job!Next]_(Job!vars) => RemindInv'
    BY RemindNext
  <1>3. ASSUME RemindInv
        PROVE  Job!TwoChances
    <2>1. SUFFICES ASSUME NEW i \in Ids, appts[i].status = "confirmed",
                          ~(appts[i].starts >= now + WindowFrom),
                          ~appts[i].reminded, ~Job!InBatch(i), ~late[i], ~excused[i]
                   PROVE  lost[i] >= 2
      BY DEF Job!TwoChances
    <2>2. Counted(i)
      BY <1>3 DEF RemindInv
    <2>3. /\ now \in Nat /\ WindowTo \in Nat /\ WindowFrom \in Nat
          /\ appts[i].starts \in Nat /\ lost[i] \in Nat
      BY <1>3 DEF RemindInv, Typed, Job!RemindersAssumption
    <2>4. Hours(i) \in Int /\ Hours(i) >= 2
      BY <2>1, <2>3 DEF Hours
    <2>5. Spent(i) = lost[i]
      BY <2>1, <2>3 DEF Spent
    <2> QED
      BY <2>1, <2>2, <2>3, <2>4, <2>5 DEF Counted
  <1>4. Job!Spec => []Job!TwoChances
    BY <1>1, <1>2, <1>3, PTL DEF Job!Spec
  <1>5. ServerSpec => []TwoChances
    <2> DEFINE Inv == part = "reminders" => RemindInv
    <2>1. ServerInit => Inv
      BY <1>1 DEF ServerInit
    <2>2. Inv /\ [ServerNext]_ServerVars => Inv'
      BY <1>2, JobMoves
    <2>3. Inv => TwoChances
      BY <1>3 DEF TwoChances
    <2> QED
      BY <2>1, <2>2, <2>3, PTL DEF ServerSpec
  <1> QED
    BY <1>4, <1>5

-----------------------------------------------------------------------------
(* The start times there are *)

\* Whatever a run holds, and whatever an appointment was given, is one of Starts.
PairsOK ==
    /\ now <= MaxNow
    /\ \A i \in Ids : /\ appts[i].starts \in Starts \cup {0}
                      /\ appts[i].status # "free" => appts[i].starts \in Starts
    /\ \A r \in Runs : runs[r].batch \subseteq Ids \X Starts /\ runs[r].cur \in Ids \X Starts

LEMMA RestingPair ==
    ASSUME Job!RemindersAssumption
    PROVE  Job!Resting.cur \in Ids \X Starts /\ Job!Resting.batch = {}
  <1>1. PICK i \in Ids, t \in Starts : TRUE
    BY DEF Job!RemindersAssumption
  <1>2. <<i, t>> \in Ids \X Starts
    OBVIOUS
  <1>3. (CHOOSE x \in Ids \X Starts : TRUE) \in Ids \X Starts
    BY <1>2
  <1> QED
    BY <1>3 DEF Job!Resting

\* A step of one appointment.
LEMMA ApptPairs ==
    ASSUME Typed, PairsOK, NEW i \in Ids, NEW a, appts' = [appts EXCEPT ![i] = a],
           a.starts \in Starts \cup {0}, a.status # "free" => a.starts \in Starts,
           UNCHANGED <<now, runs>>
    PROVE  PairsOK'
  <1>1. appts'[i] = a /\ \A j \in Ids : j # i => appts'[j] = appts[j]
    BY DEF Typed
  <1> QED
    BY <1>1 DEF PairsOK

\* A step of one run.
LEMMA RunPairs ==
    ASSUME Typed, PairsOK, NEW r \in Runs, NEW q, runs' = [runs EXCEPT ![r] = q],
           q.batch \subseteq Ids \X Starts, q.cur \in Ids \X Starts,
           UNCHANGED <<now, appts>>
    PROVE  PairsOK'
  <1>1. runs'[r] = q /\ \A s \in Runs : s # r => runs'[s] = runs[s]
    BY DEF Typed
  <1> QED
    BY <1>1 DEF PairsOK

LEMMA PairsNext ==
    ASSUME Job!RemindersAssumption, RemindInv, PairsOK, [Job!Next]_(Job!vars)
    PROVE  PairsOK'
  <1>0. Typed
    BY DEF RemindInv
  <1>1. ASSUME NEW i \in Ids, NEW t \in Starts, NEW s \in Job!Statuses, Job!Book(i, s, t)
        PROVE  PairsOK'
    BY <1>0, <1>1, ApptPairs DEF Job!Book
  <1>2. ASSUME NEW i \in Ids, NEW t \in Starts, Job!Reschedule(i, t)
        PROVE  PairsOK'
    <2> DEFINE a == [appts[i] EXCEPT !.starts = t, !.reminded = FALSE]
    <2>1. appts' = [appts EXCEPT ![i] = a] /\ a.starts = t
      BY <1>0, <1>2 DEF Job!Reschedule, Typed
    <2> HIDE DEF a
    <2> QED
      BY <1>0, <1>2, <2>1, ApptPairs DEF Job!Reschedule
  <1>3. ASSUME NEW i \in Ids, NEW s \in Job!Statuses, Job!SetStatus(i, s)
        PROVE  PairsOK'
    <2> DEFINE a == [appts[i] EXCEPT !.status = s]
    <2>1. appts' = [appts EXCEPT ![i] = a] /\ a.starts = appts[i].starts
      BY <1>0, <1>3 DEF Job!SetStatus, Typed
    <2>2. appts[i].starts \in Starts
      BY <1>3 DEF Job!SetStatus, PairsOK
    <2> HIDE DEF a
    <2> QED
      BY <1>0, <1>3, <2>1, <2>2, ApptPairs DEF Job!SetStatus
  <1>4. ASSUME NEW r \in Runs, Job!StartRun(r) PROVE PairsOK'
    <2> DEFINE q == [runs[r] EXCEPT !.pc = "loop",
                                    !.batch = {<<i, appts[i].starts>> : i \in Job!Candidates}]
    <2>1. Job!Candidates \subseteq Ids /\ \A i \in Job!Candidates : appts[i].starts \in Starts
      BY DEF Job!Candidates, PairsOK
    <2>2. /\ runs' = [runs EXCEPT ![r] = q] /\ q.cur = runs[r].cur
          /\ q.batch = {<<i, appts[i].starts>> : i \in Job!Candidates}
      BY <1>0, <1>4 DEF Job!StartRun, Typed, RunRecord
    <2>3. q.batch \subseteq Ids \X Starts
      BY <2>1, <2>2
    <2> HIDE DEF q
    <2> QED
      BY <1>0, <1>4, <2>2, <2>3, RunPairs DEF Job!StartRun, PairsOK
  <1>5. ASSUME NEW r \in Runs, Job!Send(r) \/ Job!Skip(r) PROVE PairsOK'
    <2>1. PICK x \in runs[r].batch :
              runs' = [runs EXCEPT ![r].pc = "mark", ![r].cur = x, ![r].batch = @ \ {x}]
      BY <1>5 DEF Job!Send, Job!Skip, Job!Take
    <2> DEFINE q == [runs[r] EXCEPT !.pc = "mark", !.cur = x, !.batch = @ \ {x}]
    <2>2. /\ runs' = [runs EXCEPT ![r] = q] /\ q.cur = x
          /\ q.batch = runs[r].batch \ {x}
      BY <1>0, <2>1 DEF Typed, RunRecord
    <2> HIDE DEF q
    <2> QED
      BY <1>0, <1>5, <2>1, <2>2, RunPairs DEF Job!Send, Job!Skip, PairsOK
  <1>6. ASSUME NEW r \in Runs, Job!SendFails(r) PROVE PairsOK'
    <2>1. PICK x \in runs[r].batch : runs' = [runs EXCEPT ![r].batch = @ \ {x}]
      BY <1>6 DEF Job!SendFails
    <2> DEFINE q == [runs[r] EXCEPT !.batch = @ \ {x}]
    <2>2. /\ runs' = [runs EXCEPT ![r] = q] /\ q.cur = runs[r].cur
          /\ q.batch = runs[r].batch \ {x}
      BY <1>0, <2>1 DEF Typed, RunRecord
    <2> HIDE DEF q
    <2> QED
      BY <1>0, <1>6, <2>1, <2>2, RunPairs DEF Job!SendFails, PairsOK
  <1>7. ASSUME NEW r \in Runs, Job!Mark(r) \/ Job!MarkFails(r) PROVE PairsOK'
    <2>1. runs[r].pc = "mark" /\ runs' = [runs EXCEPT ![r].pc = "loop"] /\ now' = now
      BY <1>7 DEF Job!Mark, Job!MarkFails
    <2>2. \A s \in Runs : runs'[s].batch = runs[s].batch /\ runs'[s].cur = runs[s].cur
      BY <1>0, <2>1 DEF Typed, RunRecord
    <2>3. \A i \in Ids : appts'[i].starts = appts[i].starts /\ appts'[i].status = appts[i].status
      <3>1. CASE Job!Mark(r)
        <4>1. appts' = [appts EXCEPT ![runs[r].cur[1]].reminded = TRUE]
          BY <3>1 DEF Job!Mark
        <4> QED
          BY <1>0, <4>1 DEF Typed
      <3>2. CASE Job!MarkFails(r)
        BY <3>2 DEF Job!MarkFails
      <3> QED
        BY <1>7, <3>1, <3>2
    <2> QED
      BY <2>1, <2>2, <2>3 DEF PairsOK
  <1>8. ASSUME NEW r \in Runs, Job!EndRun(r) PROVE PairsOK'
    BY <1>0, <1>8, RunPairs, RestingPair DEF Job!EndRun
  <1>9. CASE Job!Tick \/ Job!MissRun
    BY <1>0, <1>9 DEF Job!Tick, Job!MissRun, PairsOK, Typed, Job!RemindersAssumption
  <1>10. CASE Job!Crash
    BY <1>10, RestingPair DEF Job!Crash, PairsOK
  <1>11. CASE UNCHANGED Job!vars
    BY <1>11 DEF Job!vars, PairsOK
  <1> QED
    BY <1>1, <1>2, <1>3, <1>4, <1>5, <1>6, <1>7, <1>8, <1>9, <1>10, <1>11 DEF Job!Next

\* The appointments, the runs and the clock keep their types.
LEMMA JobTyped == ServerSpec => [](part = "reminders" => Job!TypeOK)
  <1> USE ServerAssumption
  <1>1. Job!Init => RemindInv /\ PairsOK
    <2>1. ASSUME Job!Init PROVE PairsOK
      BY <2>1, RestingPair DEF Job!Init, PairsOK, Job!RemindersAssumption
    <2> QED
      BY <2>1, RemindInit
  <1>2. RemindInv /\ PairsOK /\ [Job!Next]_(Job!vars) => RemindInv' /\ PairsOK'
    BY RemindNext, PairsNext
  <1>3. RemindInv /\ PairsOK => Job!TypeOK
    <2> SUFFICES ASSUME RemindInv, PairsOK PROVE Job!TypeOK
      OBVIOUS
    <2>1. now \in 0 .. MaxNow
      BY DEF RemindInv, Typed, PairsOK, Job!RemindersAssumption
    <2>2. \A i \in Ids : appts[i] \in [status : Job!Statuses \cup {"free"},
                                       starts : Starts \cup {0}, reminded : BOOLEAN]
      BY DEF RemindInv, Typed, PairsOK
    <2>3. \A r \in Runs : runs[r] \in Job!Run
      BY DEF RemindInv, Typed, RunRecord, PairsOK, Job!Run
    <2> QED
      BY <2>1, <2>2, <2>3 DEF RemindInv, Typed, Job!TypeOK
  <1> DEFINE Inv == part = "reminders" => RemindInv /\ PairsOK
  <1>4. ServerInit => Inv
    BY <1>1 DEF ServerInit
  <1>5. Inv /\ [ServerNext]_ServerVars => Inv'
    BY <1>2, JobMoves
  <1>6. Inv => (part = "reminders" => Job!TypeOK)
    BY <1>3
  <1> QED
    BY <1>4, <1>5, <1>6, PTL DEF ServerSpec

=============================================================================
