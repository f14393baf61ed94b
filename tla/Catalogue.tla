----------------------------- MODULE Catalogue -----------------------------
(***************************************************************************)
(* A list of records of the business - its services, its professionals -   *)
(* as services.service.ts and professionals.service.ts keep it (and        *)
(* businesses.service.ts its one record), with the trail that audit        *)
(* writes, and the page of the panel that lists it, adds to it and takes   *)
(* from it (servicios-page.tsx, professionals-page.tsx).                   *)
(*                                                                         *)
(* A write and its line in the trail are two statements with no            *)
(* transaction. The page asks for the list again after each of its writes. *)
(* A record is what it says; the page's is the number of the form it was   *)
(* typed in, so that two records of one form are one typed twice.          *)
(***************************************************************************)
EXTENDS Naturals, FiniteSets

CONSTANTS
    Requests,       \* requests in flight
    MaxRecords,     \* bound: records made
    MaxChanges      \* bound: updates and removals

VARIABLES
    rows,           \* id -> [says, active], for the ids made so far
    trail,          \* audit_logs: [id, old, new]
    req,            \* request -> its step, the record, what it writes and what it read
    page,           \* items listed, the form, what it waits for
    made,           \* how many records were made
    changes,        \* how many updates and removals there were
    crossed,        \* history: what was written over a change that came after the row was read
    failed          \* history: what was written by requests that failed before the trail

vars == <<rows, trail, req, page, made, changes, crossed, failed>>

\* There is a record to begin with.
CatalogueAssumption == MaxRecords \in Nat \ {0} /\ MaxChanges \in Nat

Nothing == [says |-> 0, active |-> FALSE]
NoReq == [pc |-> "idle", op |-> "none", id |-> 0, says |-> 0, old |-> Nothing, list |-> {}]

Active == {i \in 1..made : rows[i].active}

\* The page's requests: an addition, which keeps the form, and removals.
Adding == {r \in Requests : req[r].op = "add"}
Removing == {r \in Requests : req[r].op = "remove"}

Begin(r, request) ==
    /\ req[r].pc = "idle"
    /\ req' = [req EXCEPT ![r] = request]

\* handleCreate: the button is off while one is on its way.
Add(r) ==
    /\ Adding = {} /\ made < MaxRecords
    /\ Begin(r, [NoReq EXCEPT !.pc = "insert", !.op = "add", !.says = page.form])
    /\ UNCHANGED <<rows, trail, page, made, changes, crossed, failed>>

\* create of the service, from the page.
Insert(r) ==
    /\ req[r].pc = "insert" /\ made < MaxRecords
    /\ made' = made + 1
    /\ rows' = [rows EXCEPT ![made + 1] = [says |-> req[r].says, active |-> TRUE]]
    /\ req' = [req EXCEPT ![r].pc = "log", ![r].id = made + 1]
    /\ UNCHANGED <<trail, page, changes, crossed, failed>>

\* update of the service, by whoever calls it: findById first.
Change(r, i) ==
    /\ i \in 1..made /\ changes < MaxChanges
    /\ Begin(r, [NoReq EXCEPT !.pc = "write", !.op = "change", !.id = i,
                              !.says = MaxRecords + changes + 1, !.old = rows[i]])
    /\ changes' = changes + 1
    /\ UNCHANGED <<rows, trail, page, made, crossed, failed>>

\* SQL_UPDATE_...: the field that is given, whatever the row was when it was read.
Write(r) ==
    /\ req[r].pc = "write"
    /\ rows' = [rows EXCEPT ![req[r].id].says = req[r].says]
    /\ req' = [req EXCEPT ![r].pc = "log"]
    /\ crossed' = IF rows[req[r].id] # req[r].old THEN crossed \cup {req[r].says} ELSE crossed
    /\ UNCHANGED <<trail, page, made, changes, failed>>

\* Broken: the answer does not wait for the trail.
LogLater(r) ==
    /\ req[r].pc = "log"
    /\ req' = [req EXCEPT ![r].pc = "answer"]
    /\ UNCHANGED <<rows, trail, page, made, changes, crossed, failed>>

\* audit.log: the row as it was read, and as the statement returned it.
Log(r) ==
    /\ req[r].pc = "log"
    /\ trail' = trail \cup {[id |-> req[r].id, old |-> req[r].old.says, new |-> req[r].says]}
    /\ req' = [req EXCEPT ![r].pc = "answer"]
    /\ UNCHANGED <<rows, page, made, changes, crossed, failed>>

\* handleRemove of an item that is listed; its own button is off while it is sent.
Remove(r, i) ==
    /\ i \in page.items /\ \A q \in Removing : req[q].id # i
    /\ changes < MaxChanges
    /\ Begin(r, [NoReq EXCEPT !.pc = "deactivate", !.op = "remove", !.id = i])
    /\ changes' = changes + 1
    /\ UNCHANGED <<rows, trail, page, made, crossed, failed>>

\* deactivate: one statement, and no line in the trail.
Deactivate(r) ==
    /\ req[r].pc = "deactivate"
    /\ rows' = [rows EXCEPT ![req[r].id].active = FALSE]
    /\ req' = [req EXCEPT ![r].pc = "answer"]
    /\ UNCHANGED <<trail, page, made, changes, crossed, failed>>

\* The answer: the form is emptied, and the page asks for the list.
Answered(r) ==
    /\ req[r].pc = "answer"
    /\ req' = IF req[r].op = "change" THEN [req EXCEPT ![r] = NoReq]
              ELSE [req EXCEPT ![r].pc = "list"]
    /\ page' = IF req[r].op = "add" THEN [page EXCEPT !.form = @ + 1] ELSE page
    /\ UNCHANGED <<rows, trail, made, changes, crossed, failed>>

\* findAll of the active ones; servicios-page asks for all and removes none.
List(r) ==
    /\ req[r].pc = "list"
    /\ req' = [req EXCEPT ![r].pc = "listed", ![r].list = Active]
    /\ UNCHANGED <<rows, trail, page, made, changes, crossed, failed>>

\* Lists are shown in the order in which they come.
Listed(r) ==
    /\ req[r].pc = "listed"
    /\ page' = [page EXCEPT !.items = req[r].list]
    /\ req' = [req EXCEPT ![r] = NoReq]
    /\ UNCHANGED <<rows, trail, made, changes, crossed, failed>>

\* The statement of the request, or its answer, or the list: what was done stays.
Fail(r) ==
    /\ req[r].pc # "idle"
    /\ req' = [req EXCEPT ![r] = NoReq]
    /\ failed' = IF req[r].pc = "log" THEN failed \cup {req[r].says} ELSE failed
    /\ UNCHANGED <<rows, trail, page, made, changes, crossed>>

Init ==
    /\ made = 1
    /\ rows = [i \in 1..MaxRecords |-> IF i = 1 THEN [says |-> 0, active |-> TRUE] ELSE Nothing]
    /\ trail = {} /\ req = [r \in Requests |-> NoReq]
    /\ page = [items |-> {1}, form |-> 1]
    /\ changes = 0 /\ crossed = {} /\ failed = {}

Next ==
    \/ \E r \in Requests : \/ Add(r) \/ Insert(r) \/ Write(r) \/ Log(r) \/ Deactivate(r)
                           \/ Answered(r) \/ List(r) \/ Listed(r) \/ Fail(r)
    \/ \E r \in Requests, i \in 1..MaxRecords : Change(r, i) \/ Remove(r, i)

Spec == Init /\ [][Next]_vars

-----------------------------------------------------------------------------
(* Properties *)

\* Type correctness; the trail is about records there are.
TypeOK ==
    /\ made \in 1..MaxRecords /\ changes \in 0..MaxChanges
    /\ \A l \in trail : l.id \in 1..made
    /\ page.items \subseteq 1..made
    /\ page.form \in 1..(MaxRecords + 1)

\* The trail tells what became of a record, though it is written after it: what
\* a record says is in it as soon as nothing is on its way and nothing failed,
\* and what it says it was before is what was overwritten, unless another update
\* came between the two (services.service.ts:115-146).
TrailTellsTheChange ==
    /\ \A i \in 1..made :
          \/ rows[i].says = 0 \/ \E l \in trail : l.id = i /\ l.new = rows[i].says
          \/ rows[i].says \in failed \/ \E r \in Requests : req[r].pc = "log" /\ req[r].id = i
    /\ \A l \in trail : l.new \notin crossed =>
          l.old = 0 \/ (\E m \in trail : m.id = l.id /\ m.new = l.old) \/ l.old \in failed
             \/ \E r \in Requests : req[r].pc = "log" /\ req[r].says = l.old

=============================================================================
