----------------------------- MODULE Reminders -----------------------------
(***************************************************************************)
(* The hourly reminder job                                                 *)
(* (backend/src/appointments/appointments-reminder.job.ts and              *)
(* AppointmentsService.sendDueReminders) against the operations that       *)
(* change an appointment meanwhile.                                        *)
(*                                                                         *)
(* A run selects the confirmed appointments that start WindowFrom to       *)
(* WindowTo from now and were not reminded, then sends and marks them one  *)
(* by one, in statements that commit by themselves.  Nothing keeps a slow  *)
(* run from overlapping the next one.  The clock counts hours: the job     *)
(* fires once per tick, so the window of two hours gives every appointment *)
(* two chances.  A reminder that cannot go out for want of an address or   *)
(* of a mail key counts as sent: the row is marked all the same.           *)
(***************************************************************************)
EXTENDS Integers, FiniteSets

CONSTANTS
    Ids,
    Runs,           \* runs of the job that may overlap
    WindowFrom,     \* 23 hours
    WindowTo,       \* 25 hours
    Starts,         \* the start times appointments are given
    MaxNow          \* bound: the clock stops here

RemindersAssumption ==
    /\ WindowFrom \in Nat /\ WindowTo \in Nat /\ WindowFrom < WindowTo
    /\ Starts \subseteq Nat /\ Starts # {} /\ Ids # {}
    /\ MaxNow \in Nat

VARIABLES
    now,
    due,        \* the cron expression matched and the job has not run yet
    appts,      \* [status, starts, reminded]; reminded is reminder_sent_at IS NOT NULL
    runs,       \* the runs in progress
    mails,      \* history: reminders sent that announce the present start time
    skipped,    \* history: reminders of the present start time marked unsent
    lost,       \* history: chances of a reminder lost since the last change
    late,       \* history: confirmed or moved when its window had opened
    excused     \* history: changed, or reminded twice, by an overlap or a crash

vars == <<now, due, appts, runs, mails, skipped, lost, late, excused>>

\* Other stands for pending, attended and no_show.
Statuses == {"other", "confirmed", "cancelled"}

\* A run: the rows of its select still to do, with the start time each had, and
\* the one whose reminder is sent and not marked yet.
Run == [pc : {"idle", "loop", "mark"}, batch : SUBSET (Ids \X Starts), cur : Ids \X Starts]

Resting == [pc |-> "idle", batch |-> {}, cur |-> CHOOSE x \in Ids \X Starts : TRUE]

InBatch(i) ==
    \E r \in Runs : \/ \E x \in runs[r].batch : x[1] = i
                    \/ runs[r].pc = "mark" /\ runs[r].cur[1] = i

Marking(i) == \E r \in Runs : runs[r].pc = "mark" /\ runs[r].cur[1] = i

-----------------------------------------------------------------------------
(* Appointments, as far as a reminder sees them *)

\* The window of a start time is still ahead.
Ahead(t) == t - now >= WindowTo

\* create and confirmPortal.
Book(i, status, t) ==
    /\ appts[i].status = "free"
    /\ t > now
    /\ appts' = [appts EXCEPT ![i] = [status |-> status, starts |-> t, reminded |-> FALSE]]
    /\ late' = [late EXCEPT ![i] = ~Ahead(t)]
    /\ UNCHANGED <<now, due, runs, mails, skipped, lost, excused>>

\* changeStatus, accept, reject, cancel: the reminder mark stays.
SetStatus(i, status) ==
    /\ appts[i].status \notin {"free", status}
    /\ appts' = [appts EXCEPT ![i].status = status]
    /\ late' = [late EXCEPT ![i] = ~Ahead(appts[i].starts)]
    /\ lost' = [lost EXCEPT ![i] = 0]
    /\ UNCHANGED <<now, due, runs, mails, skipped, excused>>

\* Broken: SQL_UPDATE_SCHEDULE without reminder_sent_at = NULL.
RescheduleKeepsMark(i, t) ==
    /\ appts[i].status \in {"other", "confirmed"}
    /\ t > now
    /\ appts' = [appts EXCEPT ![i].starts = t]
    /\ mails' = [mails EXCEPT ![i] = 0]
    /\ skipped' = [skipped EXCEPT ![i] = 0]
    /\ lost' = [lost EXCEPT ![i] = 0]
    /\ late' = [late EXCEPT ![i] = ~Ahead(t)]
    /\ excused' = [excused EXCEPT ![i] = InBatch(i)]
    /\ UNCHANGED <<now, due, runs>>

\* reschedule: SQL_UPDATE_SCHEDULE takes the mark back.
Reschedule(i, t) ==
    /\ appts[i].status \in {"other", "confirmed"}
    /\ t > now
    /\ appts' = [appts EXCEPT ![i].starts = t, ![i].reminded = FALSE]
    /\ mails' = [mails EXCEPT ![i] = 0]
    /\ skipped' = [skipped EXCEPT ![i] = 0]
    /\ lost' = [lost EXCEPT ![i] = 0]
    /\ late' = [late EXCEPT ![i] = ~Ahead(t)]
    /\ excused' = [excused EXCEPT ![i] = InBatch(i)]
    /\ UNCHANGED <<now, due, runs>>

-----------------------------------------------------------------------------
(* The job *)

\* SQL_FIND_REMINDER_CANDIDATES.
Candidates ==
    {i \in Ids : /\ appts[i].status = "confirmed"
                 /\ ~appts[i].reminded
                 /\ appts[i].starts >= now + WindowFrom
                 /\ appts[i].starts < now + WindowTo}

\* The hour passes; the job fires at every hour.
Tick ==
    /\ ~due
    /\ now < MaxNow
    /\ now' = now + 1
    /\ due' = TRUE
    /\ UNCHANGED <<appts, runs, mails, skipped, lost, late, excused>>

\* The select of a run.  A row another run still has in its batch may be
\* reminded by both.
StartRun(r) ==
    /\ due
    /\ runs[r].pc = "idle"
    /\ due' = FALSE
    /\ runs' = [runs EXCEPT ![r].pc = "loop", ![r].batch = {<<i, appts[i].starts>> : i \in Candidates}]
    /\ excused' = [i \in Ids |-> excused[i] \/ (i \in Candidates /\ InBatch(i))]
    /\ UNCHANGED <<now, appts, mails, skipped, lost, late>>

\* The process is down at the hour, or the select fails.
MissRun ==
    /\ due
    /\ due' = FALSE
    /\ lost' = [i \in Ids |-> IF i \in Candidates /\ lost[i] < 2 THEN lost[i] + 1 ELSE lost[i]]
    /\ UNCHANGED <<now, appts, runs, mails, skipped, late, excused>>

\* The run turns to the next row of its batch.
Take(r, x) ==
    /\ runs[r].pc = "loop"
    /\ x \in runs[r].batch
    /\ runs' = [runs EXCEPT ![r].pc = "mark", ![r].cur = x, ![r].batch = @ \ {x}]

\* One more for the start time the select saw, if that is still the time.
Counting(tally, x) ==
    IF appts[x[1]].starts = x[2] /\ tally[x[1]] < 2
    THEN [tally EXCEPT ![x[1]] = @ + 1] ELSE tally

\* The reminder of a row is sent, with the data of the select.
Send(r) ==
    \E x \in runs[r].batch :
        /\ Take(r, x)
        /\ mails' = Counting(mails, x)
        /\ UNCHANGED <<now, due, appts, skipped, lost, late, excused>>

\* The client has no e-mail address, or Resend no key: nothing goes out and
\* sendReminderEmail returns as if it had.
Skip(r) ==
    \E x \in runs[r].batch :
        /\ Take(r, x)
        /\ skipped' = Counting(skipped, x)
        /\ UNCHANGED <<now, due, appts, mails, lost, late, excused>>

\* Broken: without the try in the loop one failure ends the run.
SendFailsEndsRun(r) ==
    \E x \in runs[r].batch :
        /\ runs[r].pc = "loop"
        /\ runs' = [runs EXCEPT ![r].batch = {}]
        /\ lost' = IF lost[x[1]] < 2 THEN [lost EXCEPT ![x[1]] = @ + 1] ELSE lost
        /\ UNCHANGED <<now, due, appts, mails, skipped, late, excused>>

\* The e-mail service fails: the row is logged and left for the next run.
SendFails(r) ==
    \E x \in runs[r].batch :
        /\ runs[r].pc = "loop"
        /\ runs' = [runs EXCEPT ![r].batch = @ \ {x}]
        /\ lost' = IF lost[x[1]] < 2 THEN [lost EXCEPT ![x[1]] = @ + 1] ELSE lost
        /\ UNCHANGED <<now, due, appts, mails, skipped, late, excused>>

\* SQL_MARK_REMINDER_SENT: by id alone, whatever the row is now.
Mark(r) ==
    /\ runs[r].pc = "mark"
    /\ appts' = [appts EXCEPT ![runs[r].cur[1]].reminded = TRUE]
    /\ runs' = [runs EXCEPT ![r].pc = "loop"]
    /\ UNCHANGED <<now, due, mails, skipped, lost, late, excused>>

\* The mark fails after the e-mail went out: the next run sends it again.
MarkFails(r) ==
    /\ runs[r].pc = "mark"
    /\ runs' = [runs EXCEPT ![r].pc = "loop"]
    /\ excused' = [excused EXCEPT ![runs[r].cur[1]] = TRUE]
    /\ UNCHANGED <<now, due, appts, mails, skipped, lost, late>>

EndRun(r) ==
    /\ runs[r].pc = "loop" /\ runs[r].batch = {}
    /\ runs' = [runs EXCEPT ![r] = Resting]
    /\ UNCHANGED <<now, due, appts, mails, skipped, lost, late, excused>>

\* The process dies: the rows of its runs wait for the next hour.
Crash ==
    /\ \E r \in Runs : runs[r].pc # "idle"
    /\ runs' = [r \in Runs |-> Resting]
    /\ lost' = [i \in Ids |-> IF InBatch(i) /\ ~Marking(i) /\ lost[i] < 2 THEN lost[i] + 1 ELSE lost[i]]
    /\ excused' = [i \in Ids |-> excused[i] \/ Marking(i)]
    /\ UNCHANGED <<now, due, appts, mails, skipped, late>>

-----------------------------------------------------------------------------
(* The specification *)

Init ==
    /\ now = 0
    /\ due = FALSE
    /\ appts = [i \in Ids |-> [status |-> "free", starts |-> 0, reminded |-> FALSE]]
    /\ runs = [r \in Runs |-> Resting]
    /\ mails = [i \in Ids |-> 0]
    /\ skipped = [i \in Ids |-> 0]
    /\ lost = [i \in Ids |-> 0]
    /\ late = [i \in Ids |-> FALSE]
    /\ excused = [i \in Ids |-> FALSE]

Next ==
    \/ \E i \in Ids, t \in Starts :
        \/ \E s \in Statuses : Book(i, s, t)
        \/ Reschedule(i, t)
    \/ \E i \in Ids, s \in Statuses : SetStatus(i, s)
    \/ \E r \in Runs :
        \/ StartRun(r) \/ Send(r) \/ Skip(r) \/ SendFails(r)
        \/ Mark(r) \/ MarkFails(r) \/ EndRun(r)
    \/ Tick \/ MissRun \/ Crash

Spec == Init /\ [][Next]_vars

-----------------------------------------------------------------------------
(* Properties *)

TypeOK ==
    /\ now \in 0 .. MaxNow
    /\ due \in BOOLEAN
    /\ appts \in [Ids -> [status : Statuses \cup {"free"}, starts : Starts \cup {0}, reminded : BOOLEAN]]
    /\ runs \in [Runs -> Run]
    /\ mails \in [Ids -> 0 .. 2]
    /\ skipped \in [Ids -> 0 .. 2]
    /\ lost \in [Ids -> 0 .. 2]
    /\ late \in [Ids -> BOOLEAN]
    /\ excused \in [Ids -> BOOLEAN]

\* Unless the appointment was moved while a run had it, runs overlapped on it or
\* its mark was lost, exactly one reminder of its present time was sent, or
\* skipped for want of an address or a key, when the row says so or is about to,
\* and none otherwise, whatever its status is by then.
RemindedExactlyOnce ==
    \A i \in Ids :
        ~excused[i] => mails[i] + skipped[i] = IF appts[i].reminded \/ Marking(i) THEN 1 ELSE 0

\* An appointment confirmed before its window opened is left unmarked, neither
\* reminded nor skipped, only if two runs were lost for it: one failure is
\* always made good.
TwoChances ==
    \A i \in Ids :
        \/ appts[i].status # "confirmed"
        \/ appts[i].starts >= now + WindowFrom
        \/ appts[i].reminded \/ InBatch(i) \/ late[i] \/ excused[i]
        \/ lost[i] >= 2

\* "Busca citas confirmadas ~24h adelante y envia recordatorio": an appointment
\* marked as reminded was announced, or skipped, at the time it now has.
RemindedForItsTime ==
    \A i \in Ids : appts[i].reminded => mails[i] + skipped[i] > 0

=============================================================================
