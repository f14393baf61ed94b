------------------------- MODULE ClientUpsertProofs -------------------------
(***************************************************************************)
(* OneClientPerAccount and BookingRefusedForCause for any number of        *)
(* requests at once, accounts and clients.  What has to be kept is about   *)
(* the writes that are not committed yet: while a booking holds one, no    *)
(* other row and no other uncommitted write has its account or its e-mail  *)
(* (DraftOK, DraftsApart); and about a booking nobody overtook: the table  *)
(* still answers its lookup as it did (Fresh).                             *)
(***************************************************************************)
EXTENDS Server, FiniteSetTheorems, TLAPS

Work == [pc : {"idle", "find", "write", "fallback", "refused", "commit"}, op : Clients!Ops,
         cid : Cids \cup {NoCid}, email : Emails \cup {NoEmail}, sub : Subs \cup {NoSub}]

Draft == [cid : Cids \cup {NoCid}, email : Emails \cup {NoEmail}, sub : Subs \cup {NoSub}]

ClientTypes ==
    /\ clients \in [Cids -> Clients!Client]
    /\ draft \in [Workers -> Draft]
    /\ work \in [Workers -> Work]
    /\ booked \in [Subs -> SUBSET Cids]

\* A request brings the keys of its kind, and the client it found was once a row.
WorkOK(k) ==
    /\ k.op = "book" => k.sub \in Subs /\ k.email \in Emails
    /\ k.op \in {"update", "delete"} => k.cid \in Cids
    /\ k.pc = "commit" => k.op = "book"
    /\ k.pc = "write" /\ k.op # "create" /\ k.cid \in Cids => clients[k.cid].state # "free"

\* An uncommitted write is of the booking that holds it, on a row or a new one,
\* and no other row has one of its keys.
DraftOK(w) ==
    IF work[w].pc = "commit"
    THEN /\ draft[w].cid \in Cids
         /\ draft[w].email = work[w].email /\ draft[w].sub = work[w].sub
         /\ clients[draft[w].cid].state # "deleted"
         /\ \A c \in Cids \ {draft[w].cid} : Clients!IsRow(c) => ~Clients!Clash(draft[w], clients[c])
    ELSE draft[w].cid = NoCid

\* Two uncommitted writes have no row and no key in common.
DraftsApart ==
    \A v, w \in Workers :
        v # w /\ draft[v].cid # NoCid /\ draft[w].cid # NoCid =>
            draft[v].cid # draft[w].cid /\ ~Clients!Clash(draft[v], draft[w])

BookedOK ==
    \A s \in Subs \ moved :
        /\ \A c \in booked[s] : Clients!IsRow(c) /\ clients[c].sub = s
        /\ \A c, d \in booked[s] : c = d

ClientInv ==
    /\ ClientTypes /\ BookedOK /\ DraftsApart
    /\ \A w \in Workers : WorkOK(work[w]) /\ DraftOK(w)

-----------------------------------------------------------------------------

\* The cardinality of the module that is instanced is the one of the library.
LEMMA ClientsCardinality == \A S : Clients!Cardinality(S) = Cardinality(S)
  BY DEF Clients!Cardinality, Cardinality

\* A step of the server is a step of this part or none, if the part is in play.
LEMMA ClientsMoves ==
    ASSUME [ServerNext]_ServerVars, part' = "clients"
    PROVE  part = "clients" /\ [Clients!Next]_(Clients!vars)
  <1>1. CASE UNCHANGED ServerVars
    BY <1>1 DEF ServerVars, Clients!vars
  <1>2. CASE ServerNext
    BY <1>2
       DEF ServerNext, ClientsStep, JobStep, QueryStep, ListsStep, FilesStep, ResetStep,
           RecordsStep
  <1> QED
    BY <1>1, <1>2

LEMMA InvImpliesOneClient == ASSUME ClientInv PROVE Clients!OneClientPerAccount
  <1> SUFFICES ASSUME NEW s \in Subs \ moved PROVE Cardinality(booked[s]) <= 1
    BY ClientsCardinality DEF ClientInv, BookedOK, Clients!OneClientPerAccount
  <1>1. CASE booked[s] = {}
    BY <1>1, FS_EmptySet
  <1>2. CASE booked[s] # {}
    <2>1. PICK c \in booked[s] : booked[s] = {c}
      BY <1>2 DEF ClientInv, BookedOK
    <2>2. Cardinality({c}) = 1
      BY FS_Singleton
    <2> QED
      BY <2>1, <2>2
  <1> QED
    BY <1>1, <1>2

\* The keys of a write that may stand are of nobody else.
LEMMA NoWait ==
    ASSUME ClientInv, NEW w \in Workers, NEW c \in Cids, NEW row \in Draft,
           ~Clients!MustWait(w, c, row)
    PROVE  \A v \in Workers \ {w} : draft[v].cid # NoCid =>
               draft[v].cid # c /\ ~Clients!Clash(row, draft[v]) /\ ~Clients!Clash(draft[v], row)
  BY DEF Clients!MustWait, Clients!Clash

\* A request moves on and writes nothing.
LEMMA ClientQuiet ==
    ASSUME ClientInv, NEW w \in Workers, work[w].pc # "commit", NEW next \in Work,
           work' = [work EXCEPT ![w] = next], WorkOK(next), next.pc # "commit",
           UNCHANGED <<clients, draft, booked, moved>>
    PROVE  ClientInv'
  <1>1. /\ work' \in [Workers -> Work] /\ work'[w] = next
        /\ \A v \in Workers : v # w => work'[v] = work[v]
    BY DEF ClientInv, ClientTypes
  <1>2. ClientTypes' /\ BookedOK' /\ DraftsApart'
    BY <1>1 DEF ClientInv, ClientTypes, BookedOK, DraftsApart, Clients!IsRow
  <1>3. ASSUME NEW v \in Workers PROVE WorkOK(work[v])' /\ DraftOK(v)'
    <2>1. CASE v = w
      BY <1>1, <2>1 DEF ClientInv, WorkOK, DraftOK, Clients!IsRow
    <2>2. CASE v # w
      BY <1>1, <2>2 DEF ClientInv, WorkOK, DraftOK, Clients!IsRow
    <2> QED
      BY <2>1, <2>2
  <1> QED
    BY <1>2, <1>3 DEF ClientInv

\* A booking holds an uncommitted write.
LEMMA WriteStep ==
    ASSUME ClientInv, NEW w \in Workers, work[w].pc = "write", work[w].op = "book",
           NEW row \in Draft, row.cid \in Cids,
           row.email = work[w].email, row.sub = work[w].sub,
           clients[row.cid].state # "deleted",
           ~Clients!MustWait(w, row.cid, row), ~Clients!Duplicate(row.cid, row),
           Clients!Go(w, "commit"), draft' = [draft EXCEPT ![w] = row], UNCHANGED <<clients, booked, moved>>
    PROVE  ClientInv'
  <1>1. /\ work' \in [Workers -> Work] /\ work'[w].pc = "commit"
        /\ work'[w].op = work[w].op /\ work'[w].cid = work[w].cid
        /\ work'[w].email = work[w].email /\ work'[w].sub = work[w].sub
        /\ \A v \in Workers : v # w => work'[v] = work[v]
    BY DEF ClientInv, ClientTypes, Clients!Go, Work
  <1>2. /\ draft' \in [Workers -> Draft] /\ draft'[w] = row
        /\ \A v \in Workers : v # w => draft'[v] = draft[v]
    BY DEF ClientInv, ClientTypes
  <1>3. ClientTypes' /\ BookedOK'
    BY <1>1, <1>2 DEF ClientInv, ClientTypes, BookedOK, Clients!IsRow
  <1>4. DraftsApart'
    <2>1. \A v \in Workers \ {w} : draft[v].cid # NoCid =>
              draft[v].cid # row.cid /\ ~Clients!Clash(row, draft[v]) /\ ~Clients!Clash(draft[v], row)
      BY NoWait
    <2> QED
      BY <1>2, <2>1 DEF ClientInv, DraftsApart
  <1>5. ASSUME NEW v \in Workers PROVE WorkOK(work[v])' /\ DraftOK(v)'
    <2>1. CASE v = w
      <3>1. WorkOK(work[w])'
        BY <1>1 DEF ClientInv, WorkOK
      <3>2. DraftOK(w)'
        BY <1>1, <1>2 DEF DraftOK, Clients!IsRow, Clients!Duplicate
      <3> QED
        BY <2>1, <3>1, <3>2
    <2>2. CASE v # w
      BY <1>1, <1>2, <2>2 DEF ClientInv, WorkOK, DraftOK, Clients!IsRow
    <2> QED
      BY <2>1, <2>2
  <1> QED
    BY <1>3, <1>4, <1>5 DEF ClientInv

LEMMA IdleOK ==
    ASSUME Clients!ClientUpsertAssumption
    PROVE  /\ Clients!Idle \in Work /\ WorkOK(Clients!Idle) /\ Clients!Idle.pc = "idle"
           /\ Clients!NoDraft \in Draft /\ Clients!NoDraft.cid = NoCid
  BY DEF Clients!ClientUpsertAssumption, Clients!Idle, Work, WorkOK, Clients!Ops,
         Clients!NoDraft, Draft

\* An account that loses its client is marked.
LEMMA LosesClient ==
    ASSUME Clients!ClientUpsertAssumption, ClientInv, NEW w \in Workers, NEW c \in Cids,
           NEW row \in Clients!Client, row.state = "row",
           Clients!Answer(w, [clients EXCEPT ![c] = row])
    PROVE  /\ moved \subseteq moved'
           /\ \A t \in Subs \ moved' : Clients!IsRow(c) /\ clients[c].sub = t => row.sub = t
  <1> DEFINE table == [clients EXCEPT ![c] = row]
  <1>1. table[c] = row /\ moved' = moved \cup Clients!Losing(table)
    BY DEF Clients!Answer, ClientInv, ClientTypes
  <1> HIDE DEF table
  <1>2. ASSUME Clients!IsRow(c), clients[c].sub # NoSub, row.sub # clients[c].sub
        PROVE  clients[c].sub \in Clients!Losing(table)
    BY <1>1, <1>2 DEF Clients!Losing
  <1> QED
    BY <1>1, <1>2 DEF Clients!ClientUpsertAssumption

\* A request ends and changes one client, or none: the client is in nobody's
\* uncommitted write but its own, and takes no key another is about to write.
LEMMA AnswerStep ==
    ASSUME Clients!ClientUpsertAssumption, ClientInv, NEW w \in Workers, NEW c \in Cids,
           NEW row \in Clients!Client, Clients!Answer(w, [clients EXCEPT ![c] = row]),
           row = clients[c] \/ \A v \in Workers \ {w} : draft[v].cid # c,
           row.state # "free" \/ clients[c].state = "free",
           row.state = "row" /\ clients[c].state # "row" => clients[c].state = "free",
           row.state = "row" => \A v \in Workers \ {w} :
               draft[v].cid # NoCid /\ draft[v].cid # c => ~Clients!Clash(draft[v], row),
           BookedOK', booked' \in [Subs -> SUBSET Cids]
    PROVE  ClientInv'
  <1>1. /\ work' \in [Workers -> Work] /\ work'[w] = Clients!Idle
        /\ \A v \in Workers : v # w => work'[v] = work[v]
    BY IdleOK DEF ClientInv, ClientTypes, Clients!Answer
  <1>2. /\ draft' \in [Workers -> Draft] /\ draft'[w] = Clients!NoDraft
        /\ \A v \in Workers : v # w => draft'[v] = draft[v]
    BY IdleOK DEF ClientInv, ClientTypes, Clients!Answer
  <1>3. /\ clients' \in [Cids -> Clients!Client] /\ clients'[c] = row
        /\ \A d \in Cids : d # c => clients'[d] = clients[d]
    BY DEF ClientInv, ClientTypes, Clients!Answer
  <1>4. ClientTypes'
    BY <1>1, <1>2, <1>3 DEF ClientInv, ClientTypes, Clients!IsRow
  <1>5. DraftsApart'
    BY <1>2, IdleOK DEF ClientInv, DraftsApart
  <1>6. ASSUME NEW v \in Workers PROVE WorkOK(work[v])' /\ DraftOK(v)'
    <2>1. CASE v = w
      BY <1>1, <1>2, <2>1, IdleOK DEF WorkOK, DraftOK
    <2>2. CASE v # w
      <3>1. WorkOK(work[v]) /\ DraftOK(v) /\ work'[v] = work[v] /\ draft'[v] = draft[v]
        BY <1>1, <1>2, <2>2 DEF ClientInv
      <3>2. WorkOK(work[v])'
        BY <1>3, <3>1 DEF WorkOK, Clients!IsRow
      <3>3. DraftOK(v)'
        <4>1. CASE work[v].pc # "commit"
          BY <3>1, <4>1 DEF DraftOK
        <4>2. CASE work[v].pc = "commit"
          <5> DEFINE d == draft[v]
          <5>1. /\ d.cid \in Cids /\ d.cid # NoCid /\ d.email = work[v].email
                /\ d.sub = work[v].sub /\ clients[d.cid].state # "deleted"
                /\ \A e \in Cids \ {d.cid} : Clients!IsRow(e) => ~Clients!Clash(d, clients[e])
            BY <3>1, <4>2 DEF DraftOK, Clients!ClientUpsertAssumption
          <5>2. clients'[d.cid] = clients[d.cid]
            BY <1>3, <2>2, <5>1
          <5>3. \A e \in Cids \ {d.cid} : clients'[e].state = "row" => ~Clients!Clash(d, clients'[e])
            <6>1. d.cid # c /\ row.state = "row" => ~Clients!Clash(d, row)
              BY <2>2, <5>1
            <6> QED
              BY <1>3, <5>1, <6>1 DEF Clients!IsRow
          <5> QED
            BY <3>1, <4>2, <5>1, <5>2, <5>3 DEF DraftOK, Clients!IsRow, Clients!Clash
        <4> QED
          BY <4>1, <4>2
      <3> QED
        BY <3>2, <3>3
    <2> QED
      BY <2>1, <2>2
  <1> QED
    BY <1>4, <1>5, <1>6 DEF ClientInv

\* A request ends without having changed a client.
LEMMA AbortStep ==
    ASSUME Clients!ClientUpsertAssumption, ClientInv, NEW w \in Workers,
           Clients!Answer(w, clients),
           UNCHANGED booked
    PROVE  ClientInv'
  <1>1. /\ work' \in [Workers -> Work] /\ work'[w] = Clients!Idle
        /\ \A v \in Workers : v # w => work'[v] = work[v]
    BY IdleOK DEF ClientInv, ClientTypes, Clients!Answer
  <1>2. /\ draft' \in [Workers -> Draft] /\ draft'[w] = Clients!NoDraft
        /\ \A v \in Workers : v # w => draft'[v] = draft[v]
    BY IdleOK DEF ClientInv, ClientTypes, Clients!Answer
  <1>3. clients' = clients /\ moved \subseteq moved'
    BY DEF Clients!Answer
  <1>4. ClientTypes' /\ BookedOK' /\ DraftsApart'
    BY <1>1, <1>2, <1>3, IdleOK
       DEF ClientInv, ClientTypes, BookedOK, DraftsApart, Clients!IsRow
  <1>5. ASSUME NEW v \in Workers PROVE WorkOK(work[v])' /\ DraftOK(v)'
    <2>1. CASE v = w
      BY <1>1, <1>2, <2>1, IdleOK DEF WorkOK, DraftOK
    <2>2. CASE v # w
      BY <1>1, <1>2, <1>3, <2>2 DEF ClientInv, WorkOK, DraftOK, Clients!IsRow
    <2> QED
      BY <2>1, <2>2
  <1> QED
    BY <1>4, <1>5 DEF ClientInv

-----------------------------------------------------------------------------
(* The steps of a booking. *)

LEMMA ReceiveStep ==
    ASSUME Clients!ClientUpsertAssumption, ClientInv,
           NEW w \in Workers, NEW r \in Asks,
           Clients!Receive(w, r)
    PROVE  ClientInv'
  <1> DEFINE next == [pc |-> IF r.op = "create" THEN "write" ELSE "find",
                      op |-> r.op, cid |-> r.cid, email |-> r.email, sub |-> r.sub]
  <1>1. r \in Clients!Request
    BY DEF Clients!ClientUpsertAssumption
  <1>2. next \in Work /\ next.pc # "commit"
    BY <1>1 DEF Clients!Request, Work
  <1>3. WorkOK(next)
    BY <1>1 DEF Clients!ClientUpsertAssumption, WorkOK
  <1>4. work' = [work EXCEPT ![w] = next] /\ work[w].pc # "commit"
    BY DEF Clients!Receive
  <1> HIDE DEF next
  <1> QED
    BY <1>2, <1>3, <1>4, ClientQuiet DEF Clients!Receive

LEMMA MoveStep ==
    ASSUME ClientInv, NEW w \in Workers, NEW pc \in {"fallback", "refused"},
           work[w].pc # "commit", Clients!Go(w, pc), UNCHANGED <<clients, draft, booked, moved>>
    PROVE  ClientInv'
  <1> DEFINE next == [work[w] EXCEPT !.pc = pc]
  <1>1. work[w] \in Work /\ WorkOK(work[w])
    BY DEF ClientInv, ClientTypes
  <1>2. /\ next \in Work /\ next.pc = pc /\ next.op = work[w].op /\ next.cid = work[w].cid
        /\ next.email = work[w].email /\ next.sub = work[w].sub
    BY <1>1 DEF Work
  <1>3. work' = [work EXCEPT ![w] = next]
    BY DEF Clients!Go, ClientInv, ClientTypes
  <1> HIDE DEF next
  <1>4. WorkOK(next)
    BY <1>1, <1>2 DEF WorkOK
  <1> QED
    BY <1>2, <1>3, <1>4, ClientQuiet

\* Whoever is found is a client.
LEMMA FindStep ==
    ASSUME Clients!ClientUpsertAssumption, ClientInv, NEW w \in Workers,
           Clients!FindForUpsert(w)
    PROVE  ClientInv'
  <1> DEFINE found == Clients!Matches(work[w].sub, work[w].email)
             cid == IF found = {} THEN NoCid ELSE CHOOSE c \in found : TRUE
             next == [work[w] EXCEPT !.pc = "write", !.cid = cid]
  <1>1. /\ work[w] \in Work /\ WorkOK(work[w]) /\ work[w].pc = "find" /\ work[w].op = "book"
        /\ work[w].sub \in Subs /\ work[w].email \in Emails
    BY DEF ClientInv, ClientTypes, Clients!FindForUpsert, WorkOK
  <1>2. found \subseteq {c \in Cids : Clients!IsRow(c)}
    BY DEF Clients!Matches
  <1>3. cid = NoCid \/ cid \in found
    OBVIOUS
  <1>4. /\ cid \in Cids \cup {NoCid}
        /\ cid \in Cids => Clients!IsRow(cid)
    BY <1>2, <1>3 DEF Clients!ClientUpsertAssumption
  <1>5. work' = [work EXCEPT ![w] = next]
    BY DEF Clients!FindForUpsert, ClientInv, ClientTypes
  <1> HIDE DEF found, cid
  <1>6. /\ next \in Work /\ next.pc = "write" /\ next.op = "book" /\ next.cid = cid
        /\ next.email = work[w].email /\ next.sub = work[w].sub
    BY <1>1, <1>4 DEF Work
  <1> HIDE DEF next
  <1>7. WorkOK(next)
    BY <1>1, <1>4, <1>6 DEF WorkOK, Clients!IsRow
  <1> QED
    BY <1>1, <1>5, <1>6, <1>7, ClientQuiet DEF Clients!FindForUpsert

LEMMA UpdateStep ==
    ASSUME Clients!ClientUpsertAssumption, ClientInv, NEW w \in Workers,
           Clients!UpsertUpdate(w)
    PROVE  ClientInv'
  <1> DEFINE c == work[w].cid
             row == [cid |-> c, email |-> work[w].email, sub |-> work[w].sub]
  <1>1. /\ work[w] \in Work /\ WorkOK(work[w]) /\ work[w].pc = "write" /\ work[w].op = "book"
        /\ c # NoCid /\ c \in Cids
    BY DEF ClientInv, ClientTypes, Clients!UpsertUpdate, Work
  <1>2. CASE ~Clients!IsRow(c) \/ Clients!Duplicate(c, row)
    BY <1>1, <1>2, MoveStep DEF Clients!UpsertUpdate
  <1>3. CASE Clients!IsRow(c) /\ ~Clients!Duplicate(c, row)
    <2>1. /\ row \in Draft /\ row.cid = c /\ row.email = work[w].email /\ row.sub = work[w].sub
      BY <1>1 DEF Work, Draft
    <2>2. clients[c].state # "deleted"
      BY <1>3 DEF Clients!IsRow
    <2>3. /\ ~Clients!MustWait(w, c, row) /\ Clients!Go(w, "commit") /\ draft' = [draft EXCEPT ![w] = row]
          /\ UNCHANGED <<clients, booked, moved>>
      BY <1>3 DEF Clients!UpsertUpdate
    <2> HIDE DEF row
    <2> QED
      BY <1>1, <1>3, <2>1, <2>2, <2>3, WriteStep
  <1> QED
    BY <1>2, <1>3

LEMMA BookInsert ==
    ASSUME Clients!ClientUpsertAssumption, ClientInv, NEW w \in Workers,
           Clients!UpsertInsert(w)
    PROVE  ClientInv'
  <1> DEFINE row(c) == [cid |-> c, email |-> work[w].email, sub |-> work[w].sub]
  <1>1. work[w] \in Work /\ work[w].pc = "write" /\ work[w].op = "book"
    BY DEF ClientInv, ClientTypes, Clients!UpsertInsert
  <1>2. PICK c \in Clients!Unused :
            /\ ~Clients!MustWait(w, c, row(c)) /\ UNCHANGED <<clients, booked, moved>>
            /\ IF Clients!Duplicate(c, row(c)) THEN Clients!Go(w, "fallback") /\ UNCHANGED draft
               ELSE Clients!Go(w, "commit") /\ draft' = [draft EXCEPT ![w] = row(c)]
    BY DEF Clients!UpsertInsert
  <1>3. c \in Cids /\ clients[c].state = "free" /\ ~Clients!IsRow(c)
    BY DEF Clients!Unused, Clients!IsRow
  <1>4. row(c) \in Draft /\ row(c).cid = c /\ row(c).email = work[w].email
        /\ row(c).sub = work[w].sub
    BY <1>1, <1>3 DEF Work, Draft
  <1> HIDE DEF row
  <1>5. CASE Clients!Duplicate(c, row(c))
    BY <1>1, <1>2, <1>5, MoveStep
  <1>6. CASE ~Clients!Duplicate(c, row(c))
    BY <1>1, <1>2, <1>3, <1>4, <1>6, WriteStep
  <1> QED
    BY <1>5, <1>6

\* Another client with the account would clash; whose account the client had
\* before has lost it.
LEMMA BookCommit ==
    ASSUME Clients!ClientUpsertAssumption, ClientInv, NEW w \in Workers,
           Clients!CommitBooking(w)
    PROVE  ClientInv'
  <1> DEFINE d == draft[w]
             c == d.cid
             s == work[w].sub
             row == Clients!Stored(d)
  <1>1. /\ work[w].pc = "commit" /\ s \in Subs /\ s # NoSub
        /\ d.sub = s /\ d \in Draft /\ c \in Cids /\ c # NoCid
        /\ clients[c].state # "deleted"
        /\ \A e \in Cids \ {c} : Clients!IsRow(e) => ~Clients!Clash(d, clients[e])
    BY DEF Clients!CommitBooking, ClientInv, ClientTypes, WorkOK, DraftOK,
           Clients!ClientUpsertAssumption
  <1>2. row \in Clients!Client /\ row.state = "row" /\ row.email = d.email /\ row.sub = s
    BY <1>1 DEF Clients!Stored, Clients!Client, Draft
  <1>3. \A v \in Workers \ {w} : draft[v].cid # c /\ (draft[v].cid # NoCid => ~Clients!Clash(draft[v], d))
    BY <1>1 DEF ClientInv, DraftsApart
  <1>4. \A v \in Workers \ {w} : draft[v].cid # NoCid => ~Clients!Clash(draft[v], row)
    BY <1>1, <1>2, <1>3 DEF Clients!Clash
  <1>5. /\ Clients!Answer(w, [clients EXCEPT ![c] = row])
        /\ booked' = [booked EXCEPT ![s] = booked[s] \cup {c}]
    BY DEF Clients!CommitBooking
  <1>6. clients[c].state = "row" \/ clients[c].state = "free"
    BY <1>1 DEF ClientInv, ClientTypes, Clients!Client
  <1>7. /\ clients'[c] = row /\ \A e \in Cids : e # c => clients'[e] = clients[e]
    BY <1>1, <1>5 DEF Clients!Answer, ClientInv, ClientTypes
  <1>8. /\ booked' \in [Subs -> SUBSET Cids] /\ booked'[s] = booked[s] \cup {c}
        /\ \A t \in Subs : t # s => booked'[t] = booked[t]
    BY <1>1, <1>5 DEF ClientInv, ClientTypes
  <1> HIDE DEF row
  <1>9. BookedOK'
    <2>1. moved \subseteq moved' /\ \A t \in Subs \ moved' :
              Clients!IsRow(c) /\ clients[c].sub = t => row.sub = t
      BY <1>1, <1>2, <1>5, LosesClient
    <2>2. s \notin moved => \A e \in booked[s] : e = c
      <3> SUFFICES ASSUME s \notin moved, NEW e \in booked[s], e # c PROVE FALSE
        OBVIOUS
      <3>1. e \in Cids /\ Clients!IsRow(e) /\ clients[e].sub = s
        BY <1>1 DEF ClientInv, ClientTypes, BookedOK
      <3> QED
        BY <1>1, <3>1 DEF Clients!Clash
    <2>3. ASSUME NEW t \in Subs \ moved', t # s PROVE c \notin booked[t]
      <3> SUFFICES ASSUME c \in booked[t] PROVE FALSE
        OBVIOUS
      <3>1. Clients!IsRow(c) /\ clients[c].sub = t
        BY <2>1 DEF ClientInv, BookedOK
      <3> QED
        BY <1>2, <2>1, <2>3, <3>1
    <2>4. ASSUME NEW t \in Subs \ moved'
          PROVE  /\ \A e \in booked'[t] : clients'[e].state = "row" /\ clients'[e].sub = t
                 /\ \A e, f \in booked'[t] : e = f
      <3>1. CASE t = s
        BY <1>2, <1>7, <1>8, <2>1, <2>2, <3>1
      <3>2. CASE t # s
        BY <1>7, <1>8, <2>1, <2>3, <3>2 DEF ClientInv, ClientTypes, BookedOK, Clients!IsRow
      <3> QED
        BY <3>1, <3>2
    <2> QED
      BY <2>4 DEF BookedOK, Clients!IsRow
  <1> QED
    BY <1>1, <1>2, <1>3, <1>4, <1>5, <1>6, <1>8, <1>9, AnswerStep DEF Clients!IsRow

-----------------------------------------------------------------------------
(* The steps of the staff. *)

\* A new client has no key of an uncommitted write.
LEMMA CreateStep ==
    ASSUME Clients!ClientUpsertAssumption, ClientInv, NEW w \in Workers,
           Clients!StaffCreate(w)
    PROVE  ClientInv'
  <1> DEFINE draftOf(c) == [cid |-> c, email |-> work[w].email, sub |-> work[w].sub]
  <1>1. work[w] \in Work /\ WorkOK(work[w]) /\ work[w].op = "create"
    BY DEF ClientInv, ClientTypes, Clients!StaffCreate
  <1>2. PICK c \in Clients!Unused :
            /\ ~Clients!MustWait(w, c, draftOf(c)) /\ UNCHANGED booked
            /\ Clients!Answer(w, IF Clients!Duplicate(c, draftOf(c)) THEN clients
                         ELSE [clients EXCEPT ![c] = Clients!Stored(draftOf(c))])
    BY DEF Clients!StaffCreate
  <1>3. c \in Cids /\ clients[c].state = "free" /\ ~Clients!IsRow(c)
        /\ \A v \in Workers : draft[v].cid # c
    BY DEF Clients!Unused, Clients!IsRow
  <1>4. draftOf(c) \in Draft
    BY <1>1, <1>3 DEF Work, Draft
  <1>5. CASE Clients!Duplicate(c, draftOf(c))
    BY <1>2, <1>5, AbortStep
  <1>6. CASE ~Clients!Duplicate(c, draftOf(c))
    <2> DEFINE row == Clients!Stored(draftOf(c))
    <2>1. row \in Clients!Client /\ row.state = "row"
      BY <1>4 DEF Clients!Stored, Clients!Client, Draft
    <2>2. \A v \in Workers \ {w} : draft[v].cid # NoCid => ~Clients!Clash(draft[v], draftOf(c))
      BY <1>2, <1>3, <1>4, NoWait
    <2>3. \A v \in Workers \ {w} : draft[v].cid # NoCid => ~Clients!Clash(draft[v], row)
      BY <1>4, <2>2 DEF Clients!Clash, Clients!Stored
    <2>4. Clients!Answer(w, [clients EXCEPT ![c] = row])
      BY <1>2, <1>6
    <2>5. clients' = [clients EXCEPT ![c] = row] /\ booked' = booked /\ moved \subseteq moved'
      BY <1>2, <2>4 DEF Clients!Answer
    <2> HIDE DEF row
    <2>6. BookedOK' /\ booked' \in [Subs -> SUBSET Cids]
      BY <1>3, <2>5 DEF ClientInv, ClientTypes, BookedOK, Clients!IsRow
    <2> QED
      BY <1>3, <2>1, <2>3, <2>4, <2>6, AnswerStep DEF Clients!IsRow
  <1> QED
    BY <1>5, <1>6

LEMMA StaffFindStep ==
    ASSUME Clients!ClientUpsertAssumption, ClientInv, NEW w \in Workers,
           Clients!StaffFind(w)
    PROVE  ClientInv'
  <1> DEFINE next == [work[w] EXCEPT !.pc = "write"]
  <1>1. work[w] \in Work /\ WorkOK(work[w]) /\ work[w].pc = "find" /\ work[w].op # "book"
    BY DEF ClientInv, ClientTypes, Clients!StaffFind
  <1>2. CASE ~Clients!IsRow(work[w].cid)
    BY <1>2, AbortStep DEF Clients!StaffFind
  <1>3. CASE Clients!IsRow(work[w].cid)
    <2>1. work' = [work EXCEPT ![w] = next] /\ UNCHANGED <<clients, draft, booked, moved>>
      BY <1>3 DEF Clients!StaffFind, Clients!Go, ClientInv, ClientTypes
    <2>2. /\ next \in Work /\ next.pc = "write" /\ next.op = work[w].op /\ next.cid = work[w].cid
          /\ next.email = work[w].email /\ next.sub = work[w].sub
      BY <1>1 DEF Work
    <2> HIDE DEF next
    <2>3. WorkOK(next)
      BY <1>1, <1>3, <2>2 DEF WorkOK, Clients!IsRow
    <2> QED
      BY <1>1, <2>1, <2>2, <2>3, ClientQuiet
  <1> QED
    BY <1>2, <1>3

\* The row an edit writes.
Edited(w) ==
    LET c == work[w].cid
    IN  [cid |-> c, email |-> Clients!Coalesce(work[w].email, NoEmail, clients[c].email),
         sub |-> Clients!Coalesce(work[w].sub, NoSub, clients[c].sub)]

LEMMA EditedRow ==
    ASSUME ClientInv, NEW w \in Workers, Clients!StaffUpdate(w)
    PROVE  LET c == work[w].cid
           IN  /\ c \in Cids /\ Edited(w) \in Draft /\ ~Clients!MustWait(w, c, Edited(w))
               /\ Clients!Stored(Edited(w)) \in Clients!Client
               /\ Clients!Answer(w, IF ~Clients!IsRow(c) \/ Clients!Duplicate(c, Edited(w)) THEN clients
                                    ELSE [clients EXCEPT ![c] = Clients!Stored(Edited(w))])
               /\ booked' = booked
  <1>1. /\ work[w] \in Work /\ WorkOK(work[w]) /\ work[w].op = "update"
        /\ clients \in [Cids -> Clients!Client]
    BY DEF ClientInv, ClientTypes, Clients!StaffUpdate
  <1>2. work[w].cid \in Cids
    BY <1>1 DEF WorkOK
  <1>3. Edited(w) \in Draft /\ Clients!Stored(Edited(w)) \in Clients!Client
    BY <1>1, <1>2
       DEF Edited, Draft, Work, Clients!Client, Clients!Coalesce, Clients!Stored
  <1> QED
    BY <1>2, <1>3 DEF Clients!StaffUpdate, Edited

\* An edit takes no key of an uncommitted write, and an account whose client it
\* gives away has lost it.
LEMMA StaffUpdateStep ==
    ASSUME Clients!ClientUpsertAssumption, ClientInv, NEW w \in Workers,
           Clients!StaffUpdate(w)
    PROVE  ClientInv'
  <1> DEFINE c == work[w].cid
             row == Clients!Stored(Edited(w))
  <1>1. /\ c \in Cids /\ Edited(w) \in Draft /\ ~Clients!MustWait(w, c, Edited(w))
        /\ row \in Clients!Client /\ booked' = booked
    BY EditedRow
  <1>2. row.state = "row" /\ row.email = Edited(w).email /\ row.sub = Edited(w).sub
    BY DEF Clients!Stored
  <1>3. CASE ~Clients!IsRow(c) \/ Clients!Duplicate(c, Edited(w))
    BY <1>3, EditedRow, AbortStep
  <1>4. CASE Clients!IsRow(c) /\ ~Clients!Duplicate(c, Edited(w))
    <2>1. Clients!Answer(w, [clients EXCEPT ![c] = row])
      BY <1>4, EditedRow
    <2>2. \A v \in Workers \ {w} : draft[v].cid # NoCid =>
              draft[v].cid # c /\ ~Clients!Clash(draft[v], Edited(w))
      BY <1>1, NoWait
    <2>3. /\ \A v \in Workers \ {w} : draft[v].cid # c
          /\ \A v \in Workers \ {w} : draft[v].cid # NoCid => ~Clients!Clash(draft[v], row)
      BY <1>1, <1>2, <2>2 DEF Clients!Clash, Clients!ClientUpsertAssumption
    <2>4. clients'[c] = row /\ \A e \in Cids : e # c => clients'[e] = clients[e]
      BY <1>1, <2>1 DEF Clients!Answer, ClientInv, ClientTypes
    <2> HIDE DEF c, row
    <2>5. /\ moved \subseteq moved'
          /\ \A t \in Subs \ moved' : Clients!IsRow(c) /\ clients[c].sub = t => row.sub = t
      BY <1>1, <1>2, <2>1, LosesClient
    <2>6. BookedOK' /\ booked' \in [Subs -> SUBSET Cids]
      BY <1>1, <1>2, <2>4, <2>5 DEF ClientInv, ClientTypes, BookedOK, Clients!IsRow
    <2> QED
      BY <1>1, <1>2, <1>4, <2>1, <2>3, <2>6, AnswerStep DEF Clients!IsRow
  <1> QED
    BY <1>3, <1>4

\* Only a client without appointments goes, and no booking is writing it.
LEMMA StaffDeleteStep ==
    ASSUME Clients!ClientUpsertAssumption, ClientInv, NEW w \in Workers,
           Clients!StaffDelete(w)
    PROVE  ClientInv'
  <1> DEFINE c == work[w].cid
  <1>1. c \in Cids /\ \A v \in Workers \ {w} : draft[v].cid # c
    BY DEF ClientInv, WorkOK, Clients!StaffDelete
  <1>2. CASE \E s \in Subs : c \in booked[s]
    BY <1>2, AbortStep DEF Clients!StaffDelete
  <1>3. CASE \A s \in Subs : c \notin booked[s]
    <2>1. Clients!Answer(w, [clients EXCEPT ![c] = Clients!Deleted]) /\ booked' = booked
      BY <1>3 DEF Clients!StaffDelete
    <2>2. Clients!Deleted \in Clients!Client /\ Clients!Deleted.state = "deleted"
      BY DEF Clients!Deleted, Clients!Free, Clients!Client
    <2>3. clients' = [clients EXCEPT ![c] = Clients!Deleted] /\ moved \subseteq moved'
      BY <2>1 DEF Clients!Answer
    <2>4. BookedOK' /\ booked' \in [Subs -> SUBSET Cids]
      BY <1>1, <1>3, <2>1, <2>3 DEF ClientInv, ClientTypes, BookedOK, Clients!IsRow
    <2> QED
      BY <1>1, <2>1, <2>2, <2>4, AnswerStep
  <1> QED
    BY <1>2, <1>3

-----------------------------------------------------------------------------
(* The theorem. *)

LEMMA ClientInit == Clients!ClientUpsertAssumption /\ Clients!Init => ClientInv
  <1> SUFFICES ASSUME Clients!ClientUpsertAssumption, Clients!Init PROVE ClientInv
    OBVIOUS
  <1>1. Clients!Free \in Clients!Client /\ Clients!Free.state = "free"
    BY DEF Clients!Free, Clients!Client
  <1>2. ClientTypes
    BY <1>1, IdleOK DEF Clients!Init, ClientTypes
  <1>3. \A w \in Workers : WorkOK(work[w]) /\ DraftOK(w)
    BY IdleOK DEF Clients!Init, DraftOK
  <1> QED
    BY <1>1, <1>2, <1>3, IdleOK
       DEF Clients!Init, ClientInv, BookedOK, DraftsApart, Clients!IsRow

LEMMA ClientStep ==
    Clients!ClientUpsertAssumption /\ ClientInv /\ [Clients!Next]_(Clients!vars) => ClientInv'
  <1> SUFFICES ASSUME Clients!ClientUpsertAssumption, ClientInv,
                      [Clients!Next]_(Clients!vars) PROVE ClientInv'
    OBVIOUS
  <1>1. ASSUME NEW w \in Workers, NEW r \in Asks, Clients!Receive(w, r) PROVE ClientInv'
    BY <1>1, ReceiveStep
  <1>2. ASSUME NEW w \in Workers,
               Clients!FindForUpsert(w) \/ Clients!UpsertUpdate(w) \/ Clients!UpsertInsert(w)
        PROVE  ClientInv'
    BY <1>2, FindStep, UpdateStep, BookInsert
  <1>3. ASSUME NEW w \in Workers, Clients!Fallback(w) PROVE ClientInv'
    BY <1>3, MoveStep DEF Clients!Fallback
  <1>4. ASSUME NEW w \in Workers, Clients!Refuse(w) \/ Clients!Fail(w) PROVE ClientInv'
    BY <1>4, AbortStep DEF Clients!Refuse, Clients!Fail
  <1>5. ASSUME NEW w \in Workers, Clients!CommitBooking(w) PROVE ClientInv'
    BY <1>5, BookCommit
  <1>6. ASSUME NEW w \in Workers,
               Clients!StaffCreate(w) \/ Clients!StaffFind(w) \/ Clients!StaffUpdate(w) \/ Clients!StaffDelete(w)
        PROVE  ClientInv'
    BY <1>6, CreateStep, StaffFindStep, StaffUpdateStep, StaffDeleteStep
  <1>7. CASE UNCHANGED Clients!vars
    BY <1>7
       DEF Clients!vars, ClientInv, ClientTypes, BookedOK, DraftsApart,
           WorkOK, DraftOK, Clients!IsRow
  <1> QED
    BY <1>1, <1>2, <1>3, <1>4, <1>5, <1>6, <1>7 DEF Clients!Next, Clients!Step

\* However many bookings race and whatever the staff edits, all the appointments
\* of a Google account belong to one client, which exists and is nobody else's,
\* until that client is given to another account (AppointmentsService.upsertClient,
\* ClientsService and the unique indexes of the table).
THEOREM OneClient ==
    /\ Clients!Spec => []Clients!OneClientPerAccount
    /\ ServerSpec => []OneClientPerAccount
  <1> USE ServerAssumption
  <1>1. Clients!Init => ClientInv
    BY ClientInit
  <1>2. ClientInv /\ [Clients!Next]_(Clients!vars) => ClientInv'
    BY ClientStep
  <1>3. ClientInv => Clients!OneClientPerAccount
    BY InvImpliesOneClient
  <1>4. Clients!Spec => []Clients!OneClientPerAccount
    BY <1>1, <1>2, <1>3, PTL DEF Clients!Spec
  <1>5. ServerSpec => []OneClientPerAccount
    <2> DEFINE Inv == part = "clients" => ClientInv
    <2>1. ServerInit => Inv
      BY <1>1 DEF ServerInit
    <2>2. Inv /\ [ServerNext]_ServerVars => Inv'
      BY <1>2, ClientsMoves
    <2>3. Inv => OneClientPerAccount
      BY <1>3 DEF OneClientPerAccount
    <2> QED
      BY <2>1, <2>2, <2>3, PTL DEF ServerSpec
  <1> QED
    BY <1>4, <1>5

-----------------------------------------------------------------------------
(* What a booking that was not overtaken knows. *)

\* The unique indexes.
Unique ==
    \A c, d \in Cids : c # d /\ Clients!IsRow(c) /\ Clients!IsRow(d) => ~Clients!Clash(clients[c], clients[d])

\* The table still answers its lookup as it did.
Fresh(w) ==
    work[w].op = "book" /\ w \notin overtaken =>
        /\ work[w].pc # "fallback"
        /\ work[w].pc = "refused" => Clients!Split(work[w].sub, work[w].email)
        /\ work[w].pc = "write" =>
              IF work[w].cid = NoCid THEN Clients!Matches(work[w].sub, work[w].email) = {}
              ELSE work[w].cid \in Clients!Matches(work[w].sub, work[w].email)

FreshInv == Unique /\ \A w \in Workers : Fresh(w)

\* The client that was found has one of the keys, and another client has the
\* other only if the customer is split between the two.
LEMMA FoundFits ==
    ASSUME Clients!ClientUpsertAssumption, ClientInv, Unique, NEW s \in Subs,
           NEW email \in Emails, NEW c \in Clients!Matches(s, email), NEW row,
           row.email = email, row.sub = s, ~Clients!Split(s, email)
    PROVE  Clients!IsRow(c) /\ ~Clients!Duplicate(c, row)
  <1>1. c \in Cids /\ Clients!IsRow(c) /\ email # NoEmail /\ s # NoSub
    BY DEF Clients!Matches, Clients!ClientUpsertAssumption
  <1>2. ASSUME NEW e \in Cids \ {c}, Clients!IsRow(e)
        PROVE  ~Clients!Clash(row, clients[e])
    <2>1. CASE clients[c].sub = s
      <3>1. clients[e].sub # s
        BY <1>1, <1>2, <2>1 DEF Unique, Clients!Clash
      <3>2. clients[e].email # email
        BY <1>1, <1>2, <2>1 DEF Clients!Split
      <3> QED
        BY <3>1, <3>2 DEF Clients!Clash
    <2>2. CASE clients[c].sub # s
      <3>1. clients[c].email = email /\ clients[e].sub # s
        BY <1>2, <2>2 DEF Clients!Matches
      <3>2. clients[e].email # email
        BY <1>1, <1>2, <3>1 DEF Unique, Clients!Clash
      <3> QED
        BY <3>1, <3>2 DEF Clients!Clash
    <2> QED
      BY <2>1, <2>2
  <1> QED
    BY <1>1, <1>2 DEF Clients!Duplicate

\* No client has a key of a customer that was not found.
LEMMA NobodyFound ==
    ASSUME NEW s, NEW email, Clients!Matches(s, email) = {}, NEW row, NEW c,
           row.email = email, row.sub = s
    PROVE  ~Clients!Duplicate(c, row)
  BY DEF Clients!Matches, Clients!Duplicate, Clients!Clash

\* A request goes on and the table stays.
LEMMA FreshGo ==
    ASSUME ClientInv, FreshInv, NEW w \in Workers, NEW next \in Work,
           work' = [work EXCEPT ![w] = next], UNCHANGED <<clients, overtaken>>,
           next.op = "book" /\ w \notin overtaken =>
               /\ next.pc # "fallback"
               /\ next.pc = "refused" => Clients!Split(next.sub, next.email)
               /\ next.pc = "write" =>
                     IF next.cid = NoCid THEN Clients!Matches(next.sub, next.email) = {}
                     ELSE next.cid \in Clients!Matches(next.sub, next.email)
    PROVE  FreshInv'
  <1>1. work'[w] = next /\ \A v \in Workers : v # w => work'[v] = work[v]
    BY DEF ClientInv, ClientTypes
  <1>2. Unique'
    BY DEF FreshInv, Unique, Clients!IsRow, Clients!Clash
  <1>3. \A s, email : /\ Clients!Matches(s, email)' = Clients!Matches(s, email)
                      /\ Clients!Split(s, email)' = Clients!Split(s, email)
    BY DEF Clients!Matches, Clients!Split, Clients!IsRow
  <1>4. Fresh(w)'
    BY <1>1, <1>3 DEF Fresh
  <1>5. \A v \in Workers \ {w} : Fresh(v)'
    BY <1>1, <1>3 DEF FreshInv, Fresh
  <1> QED
    BY <1>2, <1>4, <1>5 DEF FreshInv

\* A request ends: if the table changed, every booking past its lookup is
\* overtaken.
LEMMA FreshAnswer ==
    ASSUME Clients!ClientUpsertAssumption, ClientInv, FreshInv, NEW w \in Workers,
           NEW table,
           Clients!Answer(w, table), Unique'
    PROVE  FreshInv'
  <1>1. /\ work'[w] = Clients!Idle /\ \A v \in Workers : v # w => work'[v] = work[v]
        /\ clients' = table
        /\ overtaken' = (overtaken \cup {v \in Workers : table # clients /\ Clients!Looked(v)}) \ {w}
    BY DEF Clients!Answer, ClientInv, ClientTypes
  <1>2. Fresh(w)'
    BY <1>1 DEF Fresh, Clients!Idle
  <1>3. ASSUME NEW v \in Workers, v # w
        PROVE  Fresh(v)'
    <2>1. Fresh(v) /\ work'[v] = work[v]
      BY <1>1, <1>3 DEF FreshInv
    <2>2. CASE table = clients
      <3>1. \A s, email : /\ Clients!Matches(s, email)' = Clients!Matches(s, email)
                          /\ Clients!Split(s, email)' = Clients!Split(s, email)
        BY <1>1, <2>2 DEF Clients!Matches, Clients!Split, Clients!IsRow
      <3>2. v \in overtaken' <=> v \in overtaken
        BY <1>1, <1>3, <2>2
      <3> QED
        BY <2>1, <3>1, <3>2 DEF Fresh
    <2>3. CASE table # clients
      <3>1. Clients!Looked(v) => v \in overtaken'
        BY <1>1, <1>3, <2>3
      <3> QED
        BY <2>1, <3>1 DEF Fresh, Clients!Looked
    <2> QED
      BY <2>2, <2>3
  <1> QED
    BY <1>2, <1>3 DEF FreshInv

\* A client is written with keys no other has, or deleted.
LEMMA UniqueWrite ==
    ASSUME ClientInv, Unique, NEW c \in Cids, NEW row,
           clients' = [clients EXCEPT ![c] = row],
           row.state = "row" => \A d \in Cids \ {c} : Clients!IsRow(d) => ~Clients!Clash(row, clients[d])
    PROVE  Unique'
  <1>1. clients'[c] = row /\ \A d \in Cids : d # c => clients'[d] = clients[d]
    BY DEF ClientInv, ClientTypes
  <1> QED
    BY <1>1 DEF Unique, Clients!IsRow, Clients!Clash

-----------------------------------------------------------------------------
(* Every step keeps it. *)

LEMMA FreshReceive ==
    ASSUME Clients!ClientUpsertAssumption, ClientInv, FreshInv,
           NEW w \in Workers,
           NEW r \in Asks, Clients!Receive(w, r)
    PROVE  FreshInv'
  <1> DEFINE next == [pc |-> IF r.op = "create" THEN "write" ELSE "find",
                      op |-> r.op, cid |-> r.cid, email |-> r.email, sub |-> r.sub]
  <1>1. r \in Clients!Request
    BY DEF Clients!ClientUpsertAssumption
  <1>2. next \in Work /\ (next.op = "book" => next.pc = "find")
    BY <1>1 DEF Clients!Request, Work
  <1>3. work' = [work EXCEPT ![w] = next] /\ UNCHANGED <<clients, overtaken>>
    BY DEF Clients!Receive
  <1> HIDE DEF next
  <1> QED
    BY <1>2, <1>3, FreshGo

LEMMA FreshFind ==
    ASSUME Clients!ClientUpsertAssumption, ClientInv, FreshInv, NEW w \in Workers,
           Clients!FindForUpsert(w)
    PROVE  FreshInv'
  <1> DEFINE found == Clients!Matches(work[w].sub, work[w].email)
             cid == IF found = {} THEN NoCid ELSE CHOOSE c \in found : TRUE
             next == [work[w] EXCEPT !.pc = "write", !.cid = cid]
  <1>1. work[w] \in Work
    BY DEF ClientInv, ClientTypes
  <1>2. found \subseteq Cids
    BY DEF Clients!Matches
  <1>3. IF found = {} THEN cid = NoCid ELSE cid \in found /\ cid # NoCid
    BY <1>2 DEF Clients!ClientUpsertAssumption
  <1>4. work' = [work EXCEPT ![w] = next] /\ UNCHANGED <<clients, overtaken>>
    BY DEF Clients!FindForUpsert, ClientInv, ClientTypes
  <1> HIDE DEF cid
  <1>5. /\ next \in Work /\ next.pc = "write" /\ next.cid = cid
        /\ next.email = work[w].email /\ next.sub = work[w].sub
    BY <1>1, <1>2, <1>3 DEF Work
  <1> HIDE DEF next
  <1> QED
    BY <1>3, <1>4, <1>5, FreshGo

\* A request that moves to pc.
LEMMA FreshMove ==
    ASSUME ClientInv, FreshInv, NEW w \in Workers,
           NEW pc \in {"fallback", "refused", "commit", "write"}, Clients!Go(w, pc),
           UNCHANGED <<clients, overtaken>>,
           \/ work[w].op # "book" \/ w \in overtaken \/ pc = "commit"
           \/ pc = "refused" /\ Clients!Split(work[w].sub, work[w].email)
    PROVE  FreshInv'
  <1> DEFINE next == [work[w] EXCEPT !.pc = pc]
  <1>1. work[w] \in Work
    BY DEF ClientInv, ClientTypes
  <1>2. /\ next \in Work /\ next.pc = pc /\ next.op = work[w].op
        /\ next.sub = work[w].sub /\ next.email = work[w].email
    BY <1>1 DEF Work
  <1>3. work' = [work EXCEPT ![w] = next]
    BY DEF Clients!Go, ClientInv, ClientTypes
  <1> HIDE DEF next
  <1> QED
    BY <1>2, <1>3, FreshGo

LEMMA FreshUpdate ==
    ASSUME Clients!ClientUpsertAssumption, ClientInv, FreshInv, NEW w \in Workers,
           Clients!UpsertUpdate(w)
    PROVE  FreshInv'
  <1> DEFINE c == work[w].cid
             row == [cid |-> c, email |-> work[w].email, sub |-> work[w].sub]
  <1>1. /\ work[w].op = "book" /\ work[w].pc = "write" /\ c # NoCid
        /\ work[w].sub \in Subs /\ work[w].email \in Emails
        /\ UNCHANGED <<clients, overtaken>>
    BY DEF Clients!UpsertUpdate, ClientInv, WorkOK
  <1>2. CASE ~Clients!IsRow(c) \/ Clients!Duplicate(c, row)
    <2>1. w \in overtaken \/ Clients!Split(work[w].sub, work[w].email)
      <3>1. SUFFICES ASSUME w \notin overtaken, ~Clients!Split(work[w].sub, work[w].email)
                     PROVE  Clients!IsRow(c) /\ ~Clients!Duplicate(c, row)
        BY <1>2
      <3>2. c \in Clients!Matches(work[w].sub, work[w].email)
        BY <1>1, <3>1 DEF FreshInv, Fresh
      <3>3. row.email = work[w].email /\ row.sub = work[w].sub
        OBVIOUS
      <3> HIDE DEF row
      <3> QED
        BY <1>1, <3>1, <3>2, <3>3, FoundFits DEF FreshInv
    <2>2. Clients!Go(w, "refused")
      BY <1>2 DEF Clients!UpsertUpdate
    <2> QED
      BY <1>1, <2>1, <2>2, FreshMove
  <1>3. CASE Clients!IsRow(c) /\ ~Clients!Duplicate(c, row)
    <2>1. Clients!Go(w, "commit")
      BY <1>3 DEF Clients!UpsertUpdate
    <2> QED
      BY <1>1, <2>1, FreshMove
  <1> QED
    BY <1>2, <1>3

LEMMA FreshInsert ==
    ASSUME Clients!ClientUpsertAssumption, ClientInv, FreshInv, NEW w \in Workers,
           Clients!UpsertInsert(w)
    PROVE  FreshInv'
  <1> DEFINE row(c) == [cid |-> c, email |-> work[w].email, sub |-> work[w].sub]
  <1>1. PICK c \in Clients!Unused :
          /\ work[w].pc = "write" /\ work[w].op = "book" /\ work[w].cid = NoCid
          /\ IF Clients!Duplicate(c, row(c)) THEN Clients!Go(w, "fallback") ELSE Clients!Go(w, "commit")
          /\ UNCHANGED <<clients, overtaken>>
    BY DEF Clients!UpsertInsert
  <1>2. w \notin overtaken => ~Clients!Duplicate(c, row(c))
    <2>1. SUFFICES ASSUME w \notin overtaken
                   PROVE  ~Clients!Duplicate(c, row(c))
      OBVIOUS
    <2>2. Clients!Matches(work[w].sub, work[w].email) = {}
      BY <1>1, <2>1 DEF FreshInv, Fresh
    <2>3. row(c).email = work[w].email /\ row(c).sub = work[w].sub
      OBVIOUS
    <2> HIDE DEF row
    <2> QED
      BY <2>2, <2>3, NobodyFound
  <1> HIDE DEF row
  <1>3. CASE Clients!Duplicate(c, row(c))
    BY <1>1, <1>2, <1>3, FreshMove
  <1>4. CASE ~Clients!Duplicate(c, row(c))
    BY <1>1, <1>4, FreshMove
  <1> QED
    BY <1>3, <1>4

LEMMA FreshCommit ==
    ASSUME Clients!ClientUpsertAssumption, ClientInv, FreshInv, NEW w \in Workers,
           Clients!CommitBooking(w)
    PROVE  FreshInv'
  <1> DEFINE d == draft[w]
             row == Clients!Stored(d)
  <1>1. /\ d.cid \in Cids
        /\ \A e \in Cids \ {d.cid} : Clients!IsRow(e) => ~Clients!Clash(d, clients[e])
    BY DEF Clients!CommitBooking, ClientInv, DraftOK
  <1>2. \A e \in Cids \ {d.cid} : Clients!IsRow(e) => ~Clients!Clash(row, clients[e])
    BY <1>1 DEF Clients!Stored, Clients!Clash
  <1>3. Clients!Answer(w, [clients EXCEPT ![d.cid] = row])
    BY DEF Clients!CommitBooking
  <1>4. Unique'
    <2>1. clients' = [clients EXCEPT ![d.cid] = row]
      BY <1>3 DEF Clients!Answer
    <2> HIDE DEF row
    <2> QED
      BY <1>1, <1>2, <2>1, UniqueWrite DEF FreshInv
  <1> QED
    BY <1>3, <1>4, FreshAnswer

LEMMA FreshAbort ==
    ASSUME Clients!ClientUpsertAssumption, ClientInv, FreshInv, NEW w \in Workers,
           Clients!Answer(w, clients)
    PROVE  FreshInv'
  <1>1. Unique'
    BY DEF Clients!Answer, FreshInv, Unique, Clients!IsRow, Clients!Clash
  <1> QED
    BY <1>1, FreshAnswer

LEMMA FreshCreate ==
    ASSUME Clients!ClientUpsertAssumption, ClientInv, FreshInv, NEW w \in Workers,
           Clients!StaffCreate(w)
    PROVE  FreshInv'
  <1> DEFINE draftOf(c) == [cid |-> c, email |-> work[w].email, sub |-> work[w].sub]
  <1>1. PICK c \in Clients!Unused :
          Clients!Answer(w, IF Clients!Duplicate(c, draftOf(c)) THEN clients
                    ELSE [clients EXCEPT ![c] = Clients!Stored(draftOf(c))])
    BY DEF Clients!StaffCreate
  <1>2. CASE Clients!Duplicate(c, draftOf(c))
    BY <1>1, <1>2, FreshAbort
  <1>3. CASE ~Clients!Duplicate(c, draftOf(c))
    <2> DEFINE row == Clients!Stored(draftOf(c))
    <2>1. Clients!Answer(w, [clients EXCEPT ![c] = row])
      BY <1>1, <1>3
    <2>2. clients' = [clients EXCEPT ![c] = row] /\ c \in Cids
      BY <2>1 DEF Clients!Answer, Clients!Unused
    <2>3. \A e \in Cids \ {c} : Clients!IsRow(e) => ~Clients!Clash(row, clients[e])
      BY <1>3 DEF Clients!Duplicate, Clients!Stored, Clients!Clash
    <2> HIDE DEF row
    <2>4. Unique'
      BY <2>2, <2>3, UniqueWrite DEF FreshInv
    <2> QED
      BY <2>1, <2>4, FreshAnswer
  <1> QED
    BY <1>2, <1>3

LEMMA FreshEdit ==
    ASSUME Clients!ClientUpsertAssumption, ClientInv, FreshInv, NEW w \in Workers,
           Clients!StaffUpdate(w)
    PROVE  FreshInv'
  <1> DEFINE c == work[w].cid
             row == Clients!Stored(Edited(w))
  <1>1. CASE ~Clients!IsRow(c) \/ Clients!Duplicate(c, Edited(w))
    BY <1>1, EditedRow, FreshAbort
  <1>2. CASE Clients!IsRow(c) /\ ~Clients!Duplicate(c, Edited(w))
    <2>1. Clients!Answer(w, [clients EXCEPT ![c] = row]) /\ c \in Cids
      BY <1>2, EditedRow
    <2>2. clients' = [clients EXCEPT ![c] = row]
      BY <2>1 DEF Clients!Answer
    <2>3. \A e \in Cids \ {c} : Clients!IsRow(e) => ~Clients!Clash(row, clients[e])
      BY <1>2 DEF Clients!Duplicate, Clients!Stored, Clients!Clash
    <2> HIDE DEF c, row
    <2>4. Unique'
      BY <2>1, <2>2, <2>3, UniqueWrite DEF FreshInv
    <2> QED
      BY <2>1, <2>4, FreshAnswer
  <1> QED
    BY <1>1, <1>2

LEMMA FreshDelete ==
    ASSUME Clients!ClientUpsertAssumption, ClientInv, FreshInv, NEW w \in Workers,
           Clients!StaffDelete(w)
    PROVE  FreshInv'
  <1> DEFINE c == work[w].cid
  <1>1. CASE \E s \in Subs : c \in booked[s]
    BY <1>1, FreshAbort DEF Clients!StaffDelete
  <1>2. CASE \A s \in Subs : c \notin booked[s]
    <2>1. Clients!Answer(w, [clients EXCEPT ![c] = Clients!Deleted]) /\ c \in Cids
      BY <1>2 DEF Clients!StaffDelete, ClientInv, WorkOK
    <2>2. Clients!Deleted.state = "deleted"
      BY DEF Clients!Deleted, Clients!Free
    <2>3. clients' = [clients EXCEPT ![c] = Clients!Deleted]
      BY <2>1 DEF Clients!Answer
    <2>4. Unique'
      BY <2>1, <2>2, <2>3, UniqueWrite DEF FreshInv
    <2> QED
      BY <2>1, <2>4, FreshAnswer
  <1> QED
    BY <1>1, <1>2

LEMMA FreshStep ==
    ASSUME Clients!ClientUpsertAssumption, ClientInv, FreshInv,
           [Clients!Next]_(Clients!vars)
    PROVE  FreshInv'
  <1>1. ASSUME NEW w \in Workers, NEW r \in Asks, Clients!Receive(w, r) PROVE FreshInv'
    BY <1>1, FreshReceive
  <1>2. ASSUME NEW w \in Workers,
               \/ Clients!FindForUpsert(w) \/ Clients!UpsertUpdate(w) \/ Clients!UpsertInsert(w)
               \/ Clients!CommitBooking(w) \/ Clients!StaffCreate(w) \/ Clients!StaffUpdate(w)
               \/ Clients!StaffDelete(w)
        PROVE  FreshInv'
    BY <1>2, FreshFind, FreshUpdate, FreshInsert, FreshCommit, FreshCreate, FreshEdit, FreshDelete
  <1>3. ASSUME NEW w \in Workers, Clients!Fallback(w) PROVE FreshInv'
    <2>1. work[w].op # "book" \/ w \in overtaken
      BY <1>3 DEF Clients!Fallback, FreshInv, Fresh
    <2> QED
      BY <1>3, <2>1, FreshMove DEF Clients!Fallback
  <1>4. ASSUME NEW w \in Workers, Clients!Refuse(w) \/ Clients!Fail(w) PROVE FreshInv'
    BY <1>4, FreshAbort DEF Clients!Refuse, Clients!Fail
  <1>5. ASSUME NEW w \in Workers, Clients!StaffFind(w) PROVE FreshInv'
    <2>1. CASE Clients!IsRow(work[w].cid)
      BY <1>5, <2>1, FreshMove DEF Clients!StaffFind
    <2>2. CASE ~Clients!IsRow(work[w].cid)
      BY <1>5, <2>2, FreshAbort DEF Clients!StaffFind
    <2> QED
      BY <2>1, <2>2
  <1>6. CASE UNCHANGED Clients!vars
    <2>1. \A s, email : /\ Clients!Matches(s, email)' = Clients!Matches(s, email)
                        /\ Clients!Split(s, email)' = Clients!Split(s, email)
      BY <1>6 DEF Clients!vars, Clients!Matches, Clients!Split, Clients!IsRow
    <2>2. Unique'
      BY <1>6 DEF Clients!vars, FreshInv, Unique, Clients!IsRow
    <2>3. \A w \in Workers : Fresh(w)'
      BY <1>6, <2>1 DEF Clients!vars, FreshInv, Fresh
    <2> QED
      BY <2>2, <2>3 DEF FreshInv
  <1> QED
    BY <1>1, <1>2, <1>3, <1>4, <1>5, <1>6 DEF Clients!Next, Clients!Step

\* However bookings and the staff's edits of any key interleave, a booking is
\* refused for its client only if another request changed the table between its
\* lookup and its write, or if its account and its e-mail are of two clients
\* (AppointmentsService.upsertClient).
THEOREM RefusedForCauseOnly ==
    /\ Clients!Spec => []Clients!BookingRefusedForCause
    /\ ServerSpec => []BookingRefusedForCause
  <1> USE ServerAssumption
  <1>1. Clients!Init => ClientInv /\ FreshInv
    <2>1. ASSUME Clients!Init PROVE FreshInv
      BY <2>1
         DEF Clients!Init, FreshInv, Unique, Fresh, Clients!IsRow, Clients!Free,
             Clients!Idle
    <2> QED
      BY <2>1, ClientInit
  <1>2. ClientInv /\ FreshInv /\ [Clients!Next]_(Clients!vars) => ClientInv' /\ FreshInv'
    BY ClientStep, FreshStep
  <1>3. FreshInv => Clients!BookingRefusedForCause
    BY DEF FreshInv, Fresh, Clients!BookingRefusedForCause
  <1>4. Clients!Spec => []Clients!BookingRefusedForCause
    BY <1>1, <1>2, <1>3, PTL DEF Clients!Spec
  <1>5. ServerSpec => []BookingRefusedForCause
    <2> DEFINE Inv == part = "clients" => (ClientInv /\ FreshInv)
    <2>1. ServerInit => Inv
      BY <1>1 DEF ServerInit
    <2>2. Inv /\ [ServerNext]_ServerVars => Inv'
      BY <1>2, ClientsMoves
    <2>3. Inv => BookingRefusedForCause
      BY <1>3 DEF BookingRefusedForCause
    <2> QED
      BY <2>1, <2>2, <2>3, PTL DEF ServerSpec
  <1> QED
    BY <1>4, <1>5

\* The table, the uncommitted writes and the appointments of an account keep their types.
LEMMA ClientsTyped == ServerSpec => [](part = "clients" => Clients!TypeOK)
  <1> USE ServerAssumption
  <1> DEFINE Marks == overtaken \subseteq Workers /\ moved \subseteq Subs
  <1>1. Clients!Init => ClientInv /\ Marks
    BY ClientInit DEF Clients!Init
  <1>2. ClientInv /\ Marks /\ [Clients!Next]_(Clients!vars) => ClientInv' /\ Marks'
    <2> SUFFICES ASSUME ClientInv, Marks, [Clients!Next]_(Clients!vars)
                 PROVE  Marks'
      BY ClientStep
    <2>0. \A table : Clients!Losing(table) \subseteq Subs
      BY DEF Clients!Losing, ClientInv, ClientTypes, Clients!Client
    <2>1. CASE UNCHANGED Clients!vars
      BY <2>1 DEF Clients!vars
    <2>2. ASSUME NEW w \in Workers, NEW table, Clients!Answer(w, table)
          PROVE  Marks'
      BY <2>0, <2>2 DEF Clients!Answer
    <2>3. ASSUME NEW w \in Workers, NEW r \in Asks, Clients!Receive(w, r)
          PROVE  Marks'
      BY <2>3 DEF Clients!Receive
    <2>4. ASSUME NEW w \in Workers, Clients!Step(w) \/ Clients!Fail(w)
          PROVE  Marks'
      BY <2>2, <2>4
         DEF Clients!Step, Clients!Fail, Clients!FindForUpsert, Clients!UpsertUpdate,
             Clients!UpsertInsert, Clients!Fallback, Clients!Refuse, Clients!CommitBooking,
             Clients!StaffCreate, Clients!StaffFind, Clients!StaffUpdate, Clients!StaffDelete
    <2> QED
      BY <2>1, <2>3, <2>4 DEF Clients!Next
  <1>3. ClientInv /\ Marks => Clients!TypeOK
    BY DEF ClientInv, ClientTypes, DraftOK, BookedOK, Draft, Clients!TypeOK,
           Clients!ClientUpsertAssumption
  <1> DEFINE Inv == part = "clients" => ClientInv /\ Marks
  <1>4. ServerInit => Inv
    BY <1>1 DEF ServerInit
  <1>5. Inv /\ [ServerNext]_ServerVars => Inv'
    BY <1>2, ClientsMoves
  <1>6. Inv => (part = "clients" => Clients!TypeOK)
    BY <1>3
  <1> QED
    BY <1>4, <1>5, <1>6, PTL DEF ServerSpec

=============================================================================
