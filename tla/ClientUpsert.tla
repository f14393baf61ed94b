---------------------------- MODULE ClientUpsert ----------------------------
(***************************************************************************)
(* The clients of one business as confirmPortal keeps them                 *)
(* (AppointmentsService.upsertClient, inside the booking transaction) and  *)
(* as the staff edits them (clients/clients.service.ts), over the two      *)
(* partial unique indexes of the table.                                    *)
(*                                                                         *)
(* A booking looks its customer up by Google account or e-mail, writes the *)
(* row and commits with the appointment:                                   *)
(*                                                                         *)
(*   book           find -> write -> commit                                *)
(*                          write -> fallback -> refused                   *)
(*   create         write                                                  *)
(*   update,delete  find -> write                                          *)
(*                                                                         *)
(* PostgreSQL makes a write wait for an uncommitted one on the same row or *)
(* with the same key, and refuses it when that one commits.  A refused     *)
(* statement aborts its transaction: every later statement of it fails.    *)
(* Names, phones and notes are left out; e-mails are already lower case.   *)
(***************************************************************************)
EXTENDS Integers, FiniteSets

CONSTANTS
    Cids, NoCid,
    Emails, NoEmail,
    Subs, NoSub,
    Workers,
    Requests

VARIABLES
    clients,    \* the committed table
    draft,      \* the uncommitted write of each booking
    work,       \* the request each worker serves
    booked,     \* the clients that the committed appointments of an account have
    overtaken,  \* history: bookings the table changed under after their lookup
    moved       \* history: accounts whose client was given to another account

vars == <<clients, draft, work, booked, overtaken, moved>>

Client == [state : {"free", "row", "deleted"}, email : Emails \cup {NoEmail}, sub : Subs \cup {NoSub}]

Free == [state |-> "free", email |-> NoEmail, sub |-> NoSub]

\* Ids are random UUIDs: a deleted one does not come back.
Deleted == [Free EXCEPT !.state = "deleted"]

Stored(row) == [state |-> "row", email |-> row.email, sub |-> row.sub]

NoDraft == [cid |-> NoCid, email |-> NoEmail, sub |-> NoSub]

Ops == {"book", "create", "update", "delete"}

Request == [op : Ops, cid : Cids \cup {NoCid},
            email : Emails \cup {NoEmail}, sub : Subs \cup {NoSub}]

ClientUpsertAssumption ==
    /\ NoCid \notin Cids /\ NoEmail \notin Emails /\ NoSub \notin Subs
    /\ Requests \subseteq Request
    /\ \A r \in Requests :
        /\ r.op = "book" => r.sub \in Subs /\ r.email \in Emails
        /\ r.op \in {"update", "delete"} => r.cid \in Cids

Idle == [pc |-> "idle", op |-> "create", cid |-> NoCid, email |-> NoEmail, sub |-> NoSub]

IsRow(c) == clients[c].state = "row"

Go(w, pc) == work' = [work EXCEPT ![w].pc = pc]

\* A booking that has looked its client up.
Looked(v) == work[v].op = "book" /\ work[v].pc \notin {"idle", "find"}

\* The accounts that lose a client to another account, or to none.
Losing(table) ==
    {clients[c].sub : c \in {d \in Cids : /\ IsRow(d) /\ table[d].state = "row"
                                         /\ table[d].sub # clients[d].sub}} \ {NoSub}

\* COMMIT, ROLLBACK or the end of a request without a transaction, that leaves
\* the table as given.
Answer(w, table) ==
    /\ clients' = table
    /\ work' = [work EXCEPT ![w] = Idle]
    /\ overtaken' = (overtaken \cup {v \in Workers : table # clients /\ Looked(v)}) \ {w}
    /\ draft' = [draft EXCEPT ![w] = NoDraft]
    /\ moved' = moved \cup Losing(table)

Coalesce(value, null, old) == IF value = null THEN old ELSE value

-----------------------------------------------------------------------------
(* The unique indexes *)

\* Broken: the table has no unique index on the e-mail or the account.
NoIndex(a, b) == FALSE

\* uq_clients_business_email and uq_clients_business_google_sub.
Clash(a, b) ==
    \/ a.email # NoEmail /\ a.email = b.email
    \/ a.sub # NoSub /\ a.sub = b.sub

\* Another row already has one of the keys.
Duplicate(c, row) == \E d \in Cids \ {c} : IsRow(d) /\ Clash(row, clients[d])

\* An uncommitted write decides whether row may stand: it has the same client,
\* brings one of the keys or may take one of them away.
MustWait(w, c, row) ==
    \E v \in Workers \ {w} :
        /\ draft[v].cid # NoCid
        /\ \/ draft[v].cid = c
           \/ Clash(row, draft[v])
           \/ IsRow(draft[v].cid) /\ Clash(row, clients[draft[v].cid])

\* A row an insert may take.
Unused == {c \in Cids : clients[c].state = "free" /\ \A v \in Workers : draft[v].cid # c}

-----------------------------------------------------------------------------
(* Requests *)

Receive(w, r) ==
    /\ work[w].pc = "idle"
    /\ work' = [work EXCEPT ![w] = [pc |-> IF r.op = "create" THEN "write" ELSE "find",
                                   op |-> r.op, cid |-> r.cid, email |-> r.email, sub |-> r.sub]]
    /\ UNCHANGED <<clients, draft, booked, overtaken, moved>>

\* Broken: the lookup forgets the e-mail.
MatchesAccount(sub, email) == {c \in Cids : IsRow(c) /\ clients[c].sub = sub}

\* SQL_FIND_CLIENT_FOR_UPSERT: by account if there is one, else by e-mail.
Matches(sub, email) ==
    LET bySub   == {c \in Cids : IsRow(c) /\ clients[c].sub = sub}
        byEmail == {c \in Cids : IsRow(c) /\ clients[c].email = email}
    IN  IF bySub # {} THEN bySub ELSE byEmail

FindForUpsert(w) ==
    /\ work[w].pc = "find" /\ work[w].op = "book"
    /\ LET found == Matches(work[w].sub, work[w].email)
       IN  work' = [work EXCEPT ![w].pc = "write",
                                ![w].cid = IF found = {} THEN NoCid ELSE CHOOSE c \in found : TRUE]
    /\ UNCHANGED <<clients, draft, booked, overtaken, moved>>

\* SQL_UPDATE_CLIENT on the row found.  Its violation is not caught, and a row
\* deleted meanwhile leaves no client to book for.
UpsertUpdate(w) ==
    LET c   == work[w].cid
        row == [cid |-> c, email |-> work[w].email, sub |-> work[w].sub]
    IN  /\ work[w].pc = "write" /\ work[w].op = "book" /\ c # NoCid
        /\ ~MustWait(w, c, row)
        /\ IF ~IsRow(c) \/ Duplicate(c, row)
           THEN Go(w, "refused") /\ UNCHANGED draft
           ELSE Go(w, "commit") /\ draft' = [draft EXCEPT ![w] = row]
        /\ UNCHANGED <<clients, booked, overtaken, moved>>

\* SQL_INSERT_CLIENT, whose unique violation is caught.
UpsertInsert(w) ==
    \E c \in Unused :
        LET row == [cid |-> c, email |-> work[w].email, sub |-> work[w].sub]
        IN  /\ work[w].pc = "write" /\ work[w].op = "book" /\ work[w].cid = NoCid
            /\ ~MustWait(w, c, row)
            /\ IF Duplicate(c, row)
               THEN Go(w, "fallback") /\ UNCHANGED draft
               ELSE Go(w, "commit") /\ draft' = [draft EXCEPT ![w] = row]
            /\ UNCHANGED <<clients, booked, overtaken, moved>>

\* The select of the fallback runs in the aborted transaction and fails.
Fallback(w) ==
    /\ work[w].pc = "fallback"
    /\ Go(w, "refused")
    /\ UNCHANGED <<clients, draft, booked, overtaken, moved>>

\* The transaction rolls back and the customer gets an error.
Refuse(w) ==
    /\ work[w].pc = "refused"
    /\ Answer(w, clients)
    /\ UNCHANGED booked

\* The appointment is inserted for the client and both are committed.
CommitBooking(w) ==
    /\ work[w].pc = "commit"
    /\ LET d == draft[w]
       IN  /\ Answer(w, [clients EXCEPT ![d.cid] = Stored(d)])
           /\ booked' = [booked EXCEPT ![work[w].sub] = @ \cup {d.cid}]

\* A query fails or the process dies: the booking is rolled back.
Fail(w) ==
    /\ work[w].pc # "idle"
    /\ Answer(w, clients)
    /\ UNCHANGED booked

-----------------------------------------------------------------------------
(* The staff *)

\* ClientsService.create.
StaffCreate(w) ==
    \E c \in Unused :
        LET row == [cid |-> c, email |-> work[w].email, sub |-> work[w].sub]
        IN  /\ work[w].pc = "write" /\ work[w].op = "create"
            /\ ~MustWait(w, c, row)
            /\ Answer(w, IF Duplicate(c, row) THEN clients
                         ELSE [clients EXCEPT ![c] = Stored(row)])
            /\ UNCHANGED booked

\* findById before an update or a delete.
StaffFind(w) ==
    /\ work[w].pc = "find" /\ work[w].op \in {"update", "delete"}
    /\ IF IsRow(work[w].cid)
       THEN Go(w, "write") /\ UNCHANGED <<clients, draft, overtaken, moved>>
       ELSE Answer(w, clients)
    /\ UNCHANGED booked

\* ClientsService.update: what is not given stays.
StaffUpdate(w) ==
    LET c   == work[w].cid
        row == [cid |-> c, email |-> Coalesce(work[w].email, NoEmail, clients[c].email),
                sub |-> Coalesce(work[w].sub, NoSub, clients[c].sub)]
    IN  /\ work[w].pc = "write" /\ work[w].op = "update"
        /\ ~MustWait(w, c, row)
        /\ Answer(w, IF ~IsRow(c) \/ Duplicate(c, row) THEN clients
                     ELSE [clients EXCEPT ![c] = Stored(row)])
        /\ UNCHANGED booked

\* ClientsService.delete: refused while the client has appointments.
StaffDelete(w) ==
    LET c == work[w].cid
    IN  /\ work[w].pc = "write" /\ work[w].op = "delete"
        /\ \A v \in Workers \ {w} : draft[v].cid # c
        /\ Answer(w, IF \E s \in Subs : c \in booked[s] THEN clients
                     ELSE [clients EXCEPT ![c] = Deleted])
        /\ UNCHANGED booked

-----------------------------------------------------------------------------
(* The specification *)

Init ==
    /\ clients = [c \in Cids |-> Free]
    /\ draft = [w \in Workers |-> NoDraft]
    /\ work = [w \in Workers |-> Idle]
    /\ booked = [s \in Subs |-> {}]
    /\ overtaken = {} /\ moved = {}

Step(w) ==
    \/ FindForUpsert(w) \/ UpsertUpdate(w) \/ UpsertInsert(w)
    \/ Fallback(w) \/ Refuse(w) \/ CommitBooking(w)
    \/ StaffCreate(w) \/ StaffFind(w) \/ StaffUpdate(w) \/ StaffDelete(w)

Next ==
    \E w \in Workers :
        \/ \E r \in Requests : Receive(w, r)
        \/ Step(w) \/ Fail(w)

Spec == Init /\ [][Next]_vars

-----------------------------------------------------------------------------
(* Properties *)

TypeOK ==
    /\ clients \in [Cids -> Client]
    /\ \A w \in Workers :
        /\ draft[w].cid \in Cids \cup {NoCid}
        /\ draft[w].cid # NoCid <=> work[w].pc = "commit"
    /\ booked \in [Subs -> SUBSET Cids]
    /\ overtaken \subseteq Workers /\ moved \subseteq Subs

\* However bookings race each other and the staff's edits of names, e-mails and
\* accounts, all the appointments of one Google account belong to one client,
\* which still exists and is nobody else's, until that client is given to another
\* account: by the staff, or by a booking of that account which found the client
\* by its e-mail.
OneClientPerAccount ==
    \A s \in Subs \ moved :
        /\ Cardinality(booked[s]) <= 1
        /\ \A c \in booked[s] : IsRow(c) /\ clients[c].sub = s

\* One client has the account and another one the e-mail.
Split(sub, email) ==
    \E c, d \in Cids : /\ c # d /\ IsRow(c) /\ IsRow(d)
                       /\ clients[c].sub = sub /\ clients[d].email = email

\* A booking is refused because of its client only if another request changed the
\* table between its lookup and its write, or if its account and its e-mail are of
\* two different clients, as an edit of the staff may leave them; whatever rows
\* the staff registered, edited and deleted before.
BookingRefusedForCause ==
    \A w \in Workers :
        work[w].op = "book" /\ work[w].pc = "refused" =>
            w \in overtaken \/ Split(work[w].sub, work[w].email)

\* "Upsert de clients es tolerante a carrera": no booking is refused because of
\* the client it is for.
UpsertNeverRefused ==
    \A w \in Workers : work[w].op = "book" => work[w].pc # "refused"

=============================================================================
