---------------------------- MODULE AgendaConfig ----------------------------
(***************************************************************************)
(* The configuration of the agenda of the panel (agenda-page.tsx): the     *)
(* hours of each day of the week, how many customers an hour takes, and    *)
(* the days that are closed. The form has one block of hours per day; the  *)
(* business may have more. Saving is two requests, the hours and then the  *)
(* business; a closed day is a request, and a second one for the list.     *)
(*                                                                         *)
(* A block is <<day, time>>, the draft of a day its time and whether the   *)
(* day is open. An exception is <<date, id, closes>>, where closes says    *)
(* that it closes the whole business that day; those of a professional and *)
(* those with other hours are in the same list and the page leaves them    *)
(* out. Other users add and delete exceptions too. A request is answered   *)
(* or fails, and may fail after the server did what it asks (its answer    *)
(* was lost). Another opening of the page is another start of the model.   *)
(***************************************************************************)
EXTENDS Naturals, FiniteSets

CONSTANTS
    Days,           \* days of the week
    Times,          \* hours a block may have, the default one among them
    DefaultTime,    \* 09:00 to 18:00
    Dates,          \* dates that can be closed, in order
    Caps,           \* capacities, 1 among them
    PageSize,       \* pageSize of the list of exceptions (100 in the code)
    InitialHours,   \* the hours the business may have when the page opens
    MaxMade,        \* bound: exceptions made
    MaxEdits        \* bound: edits of the form

AgendaConfigAssumption ==
    /\ DefaultTime \in Times /\ 1 \in Caps
    /\ Dates \subseteq Nat /\ PageSize \in Nat /\ MaxMade \in Nat \ {0}
    /\ InitialHours \subseteq SUBSET (Days \X Times)

VARIABLES
    hours,          \* business_schedules: blocks
    cap,            \* max_bookings_per_slot
    exceptions,     \* schedule_exceptions of the business: <<date, id, closes>>
    page,           \* the page: at, business, draft, capField, list, open
    save,           \* handleSave: its step and what it sends
    add,            \* handleAddException: its step and the list it read
    drop,           \* handleDeleteException: the exceptions on their way out
    seen,           \* history: the blocks the page read
    touched,        \* history: days edited since
    gone,           \* history: blocks of days not edited that a save removed
    crossed,        \* history: a deleted day was listed after its answer, or an answer was lost
    others,         \* history: days others closed or opened since the list of the
                    \* page was read
    fits,           \* history: that list had every exception
    count           \* how many exceptions were made, and edits

hoursVars == <<hours, cap, save, seen, touched, gone>>
listVars == <<exceptions, add, drop, crossed, others, fits>>
vars == <<hoursVars, listVars, page, count>>

EmptyWeek == [d \in Days |-> [on |-> FALSE, time |-> DefaultTime]]

\* schedulesToDraft: the last block of a day is the one that stays.
Drafts(blocks) ==
    {w \in [Days -> [on : BOOLEAN, time : Times]] :
        \A d \in Days : LET own == {b \in blocks : b[1] = d}
                        IN  IF own = {} THEN w[d] = EmptyWeek[d]
                            ELSE w[d].on /\ \E b \in own : b[2] = w[d].time}

\* Broken: Sunday, whose number is 0, does not count as open.
BlocksOfTruthyDays(draft) == {<<d, draft[d].time>> : d \in {x \in Days : draft[x].on /\ x # 0}}

\* handleSave: a block for each day that is open.
Blocks(draft) == {<<d, draft[d].time>> : d \in {x \in Days : draft[x].on}}

\* The days closed for the business.
Closed == {r \in exceptions : r[3]}

\* LIMIT: the first rows by date, in no order among those of one date.
FirstRows(rows) ==
    IF Cardinality(rows) <= PageSize THEN {rows}
    ELSE {s \in SUBSET rows : /\ Cardinality(s) = PageSize
                              /\ \A r \in s, q \in rows \ s : r[1] <= q[1]}

\* What the page shows of a list: the filter comes after the LIMIT.
Shown(rows) == {r \in rows : r[3]}

AllFit == Cardinality(exceptions) <= PageSize

NoSave == [at |-> "none", blocks |-> {}, cap |-> 1, touched |-> {}]
NoAdd == [at |-> "none", date |-> 0, list |-> {}, fits |-> FALSE, since |-> {}]
NoPage == [at |-> "asked", business |-> FALSE, draft |-> EmptyWeek, capField |-> 1,
           list |-> {}, open |-> FALSE]

\* Nothing of the page is at the server.
Quiet == save.at = "none" /\ add.at = "none" /\ drop = {}

Ready == page.at = "there" /\ page.business

\* Both lists are read at the server.
ListsRead ==
    /\ page.at = "asked"
    /\ \E draft \in Drafts(hours), rows \in FirstRows(exceptions) :
          page' = [page EXCEPT !.at = "read", !.draft = draft, !.capField = cap,
                               !.list = Shown(rows)]
    /\ seen' = hours /\ others' = {} /\ fits' = AllFit
    /\ UNCHANGED <<hours, cap, save, touched, gone, exceptions, add, drop, crossed, count>>

\* Both are answered.
Loaded ==
    /\ page.at = "read"
    /\ page' = [page EXCEPT !.at = "there", !.business = TRUE]
    /\ UNCHANGED <<hoursVars, listVars, count>>

\* One of them fails: the page stays with the business and an empty week.
LoadFails ==
    /\ page.at # "there"
    /\ \E business \in BOOLEAN :
          page' = [NoPage EXCEPT !.at = "there", !.business = business]
    /\ seen' = {} /\ crossed' = TRUE
    /\ UNCHANGED <<hours, cap, save, touched, gone, exceptions, add, drop, others, fits, count>>

Configure ==
    /\ Ready /\ ~page.open
    /\ page' = [page EXCEPT !.open = TRUE]
    /\ UNCHANGED <<hoursVars, listVars, count>>

\* The draft stays as it was edited.
Close ==
    /\ page.open
    /\ page' = [page EXCEPT !.open = FALSE]
    /\ UNCHANGED <<hoursVars, listVars, count>>

\* A day is opened, closed or given other hours, also while a save is on its way.
EditDay(d) ==
    /\ page.open /\ count.edits < MaxEdits
    /\ \E row \in [on : BOOLEAN, time : Times] :
          /\ row # page.draft[d] /\ (row.time # page.draft[d].time => page.draft[d].on)
          /\ page' = [page EXCEPT !.draft[d] = row]
    /\ touched' = touched \cup {d}
    /\ count' = [count EXCEPT !.edits = @ + 1]
    /\ UNCHANGED <<hours, cap, save, seen, gone, listVars>>

EditCap ==
    /\ page.open /\ count.edits < MaxEdits
    /\ \E c \in Caps \ {page.capField} : page' = [page EXCEPT !.capField = c]
    /\ count' = [count EXCEPT !.edits = @ + 1]
    /\ UNCHANGED <<hoursVars, listVars>>

\* handleSave, with a capacity from 1 to 50; the button is off while it saves.
Save ==
    /\ page.open /\ save.at = "none"
    /\ save' = [at |-> "hours", blocks |-> Blocks(page.draft), cap |-> page.capField,
                touched |-> touched]
    /\ UNCHANGED <<hours, cap, seen, touched, gone, listVars, page, count>>

\* set-schedules: the week is replaced whole.
HoursSaved ==
    /\ save.at = "hours"
    /\ hours' = save.blocks
    /\ gone' = {b \in hours \ save.blocks : b[1] \notin save.touched}
    /\ save' = [save EXCEPT !.at = "business"]
    /\ UNCHANGED <<cap, seen, touched, listVars, page, count>>

\* update, and its answer: the form is closed.
BusinessSaved ==
    /\ save.at = "business"
    /\ cap' = save.cap
    /\ save' = NoSave
    /\ page' = [page EXCEPT !.open = FALSE]
    /\ UNCHANGED <<hours, seen, touched, gone, listVars, count>>

\* One of the two fails, or its answer is lost, and what was done stays.
SaveFails ==
    /\ save.at # "none"
    /\ cap' \in {cap} \cup IF save.at = "business" THEN {save.cap} ELSE {}
    /\ save' = NoSave
    /\ UNCHANGED <<hours, seen, touched, gone, listVars, page, count>>

AddException(date) ==
    /\ page.open /\ add.at = "none"
    /\ add' = [NoAdd EXCEPT !.at = "create", !.date = date]
    /\ UNCHANGED <<hoursVars, exceptions, drop, crossed, others, fits, page, count>>

\* INSERT: an exception with an id of its own.
Insert(r) ==
    /\ count.made < MaxMade /\ r[2] = count.made + 1
    /\ exceptions' = exceptions \cup {r}
    /\ count' = [count EXCEPT !.made = @ + 1]

ExceptionCreated ==
    /\ add.at = "create"
    /\ Insert(<<add.date, count.made + 1, TRUE>>)
    /\ add' = [add EXCEPT !.at = "list"]
    /\ UNCHANGED <<hoursVars, drop, crossed, others, fits, page>>

\* Broken: the list is not asked for again.
ExceptionsAssumed ==
    /\ add.at = "list"
    /\ add' = NoAdd
    /\ UNCHANGED <<hoursVars, exceptions, drop, crossed, others, fits, page, count>>

\* The list is read at the server.
ReadExceptions ==
    /\ add.at = "list"
    /\ \E rows \in FirstRows(exceptions) :
          add' = [add EXCEPT !.at = "answer", !.list = Shown(rows), !.fits = AllFit]
    /\ UNCHANGED <<hoursVars, exceptions, drop, crossed, others, fits, page, count>>

ExceptionsListed ==
    /\ add.at = "answer"
    /\ page' = [page EXCEPT !.list = add.list]
    /\ others' = add.since /\ fits' = add.fits
    /\ crossed' = \E r \in (add.list \ exceptions) \ add.since :
                     [row |-> r, done |-> TRUE] \notin drop
    /\ add' = NoAdd
    /\ UNCHANGED <<hoursVars, exceptions, drop, count>>

\* Either request fails: a day that was closed is not on the page.
AddFails ==
    /\ add.at # "none"
    /\ add' = NoAdd
    /\ crossed' = (crossed \/ add.at # "create")
    /\ UNCHANGED <<hoursVars, exceptions, drop, others, fits, page, count>>

\* The cross of a day that is shown; nothing keeps it from a second click.
DeleteException(e) ==
    /\ page.open /\ e \in page.list
    /\ drop' = drop \cup {[row |-> e, done |-> FALSE]}
    /\ UNCHANGED <<hoursVars, exceptions, add, crossed, others, fits, page, count>>

ExceptionDeleted(d) ==
    /\ ~d.done /\ d.row \in exceptions
    /\ exceptions' = exceptions \ {d.row}
    /\ drop' = (drop \ {d}) \cup {[d EXCEPT !.done = TRUE]}
    /\ UNCHANGED <<hoursVars, add, crossed, others, fits, page, count>>

\* The answer: it leaves the list of the page as it is by then.
DeleteAnswered(d) ==
    /\ d.done
    /\ page' = [page EXCEPT !.list = @ \ {d.row}]
    /\ drop' = drop \ {d}
    /\ UNCHANGED <<hoursVars, exceptions, add, crossed, others, fits, count>>

\* A 404, or no answer, though it may have been deleted.
DeleteFails(d) ==
    /\ drop' = drop \ {d}
    /\ crossed' = (crossed \/ d.done)
    /\ UNCHANGED <<hoursVars, exceptions, add, others, fits, page, count>>

\* Another user changes an exception, of the business or of a professional: history.
ChangedByOthers(r) ==
    /\ others' = others \cup Shown({r})
    /\ add' = IF add.at = "answer" THEN [add EXCEPT !.since = @ \cup Shown({r})] ELSE add
    /\ UNCHANGED <<hoursVars, drop, crossed, fits, page>>

OtherAdds(r) == Insert(r) /\ ChangedByOthers(r)

OtherDeletes(r) ==
    /\ r \in exceptions
    /\ exceptions' = exceptions \ {r}
    /\ ChangedByOthers(r)
    /\ UNCHANGED count

Init ==
    /\ hours \in InitialHours /\ cap \in Caps
    /\ exceptions \in {{}} \cup {{r} : r \in Dates \X {1} \X BOOLEAN}
    /\ page = NoPage /\ save = NoSave /\ add = NoAdd /\ drop = {}
    /\ seen = {} /\ touched = {} /\ gone = {}
    /\ crossed = FALSE /\ others = {} /\ fits = FALSE
    /\ count = [made |-> Cardinality(exceptions), edits |-> 0]

Next ==
    \/ ListsRead \/ Loaded \/ LoadFails \/ Configure \/ Close
    \/ \E d \in Days : EditDay(d)
    \/ EditCap \/ Save \/ HoursSaved \/ BusinessSaved \/ SaveFails
    \/ \E date \in Dates : AddException(date)
    \/ ExceptionCreated \/ ReadExceptions \/ ExceptionsListed \/ AddFails
    \/ \E e \in page.list : DeleteException(e)
    \/ \E d \in drop : ExceptionDeleted(d) \/ DeleteAnswered(d) \/ DeleteFails(d)
    \/ \E r \in Dates \X (1..MaxMade) \X BOOLEAN : OtherAdds(r) \/ OtherDeletes(r)

Spec == Init /\ [][Next]_vars

-----------------------------------------------------------------------------
(* Properties *)

\* Type correctness; the configuration is only open once the page is loaded.
TypeOK ==
    /\ hours \subseteq Days \X Times /\ cap \in Caps
    /\ exceptions \subseteq Dates \X (1..MaxMade) \X BOOLEAN
    /\ page.open => Ready
    /\ save.at \in {"none", "hours", "business"}
    /\ add.at \in {"none", "create", "list", "answer"}

\* A save removes from a day that was not edited only what the form could not
\* hold: hours the page had not read (its load failed), or all but one block of
\* a day with several (agenda-page.tsx:157-169, 260-278, 459-485).
UntouchedDaysAreKept ==
    \A b \in gone : b \notin seen \/ \E c \in seen \ gone : c[1] = b[1]

\* With nothing on its way, every day the page shows as closed is closed for the
\* business, and all of them are shown if the list it last read had room for every
\* exception there was, those of professionals and those with other hours among them
\* (the page leaves them out only after the server has counted to 100): what an
\* addition lists again and what a deletion takes out by itself agree in any order.
\* The exceptions are the days others closed or opened since that list was read, a
\* list that was read before a day was deleted and shown after that was answered, and
\* answers that were lost; the next list makes up for them (agenda-page.tsx:260-272,
\* 495-534, professionals.service.ts:257-293).
ClosedDaysAreShown ==
    Quiet /\ Ready /\ ~crossed =>
        /\ page.list \ Closed \subseteq others
        /\ fits => Closed \ page.list \subseteq others

=============================================================================
