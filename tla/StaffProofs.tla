---------------------------- MODULE StaffProofs ----------------------------
(***************************************************************************)
(* The pages of the panel, for any days, appointments, hours, requests and *)
(* customers, as components and in the panel that opens one of them.       *)
(*                                                                         *)
(* Each page patches what it shows and reads it again, and what is proved  *)
(* is that the two agree once nothing is on its way. That needs to be said *)
(* of every moment before: what each request asked and what it will bring, *)
(* and what changed since (DaysInv, CitasInv, CustomersInv); which closed  *)
(* days the page holds while one is added or deleted, and that the draft of*)
(* a day nobody edited is a block that was read (ConfigInv); that the query*)
(* under way is the one of the form, and that one call at a time may book, *)
(* for a draft that has not booked yet (ModalInv).                         *)
(***************************************************************************)
EXTENDS Staff, FiniteSetTheorems, WellFoundedInduction, TLAPS

-----------------------------------------------------------------------------
(* The days of the agenda (AgendaDays) *)

\* Appointments with their status, as a request brings them.
Lists == UNION {[A -> DayStatuses] : A \in SUBSET Appts}

DayRequest ==
    [pc : {"idle", "sent", "read"}, range : Agenda!Ranges \cup {None}, items : Lists]

DaysTypes ==
    /\ Agenda!TypeOK /\ list \in Lists
    /\ fetch \in [Fetches -> DayRequest]
    /\ month \in [pc : {"idle", "sent", "read"}, items : Lists]
    /\ modal \in [open : BOOLEAN, id : Appts \cup {None}, st : DayStatuses, busy : BOOLEAN]
    /\ act \in [pc : {"idle", "sent", "done", "refused"}, id : Appts \cup {None}, to : DayStatuses]
    /\ modal.open => modal.id \in Appts
    /\ act.pc # "idle" => act.id \in Appts

\* The list is that of a range, but for a change it was not told of.
ListOf(r) ==
    /\ DOMAIN list = {i \in Appts : dayOf[i] \in Agenda!DaysIn(r)}
    /\ \A i \in DOMAIN list : list[i] = status[i] \/ (act.pc = "done" /\ i = act.id)

\* What is not known to be wrong is the list of some range, and with nothing in
\* flight of the one asked for.
ListOK ==
    "list" \notin stale =>
        /\ \E r \in Agenda!Ranges : ListOf(r)
        /\ (\A f \in Fetches : fetch[f].pc = "idle") => ListOf(qry)

DayMarks(d) == {status[i] : i \in {j \in Appts : dayOf[j] = d}}

\* The same for the marks of each day.
MarksOK ==
    "month" \notin stale =>
        \A d \in Days : marks[d] = DayMarks(d) \/ (act.pc = "done" /\ d = dayOf[act.id])

DaysInv == DaysTypes /\ ListOK /\ MarksOK

\* The days of the agenda are consecutive.
LEMMA DaysConstants ==
    /\ Days \subseteq Nat /\ \E first, final \in Days : Days = first..final
    /\ DayStatuses # {}
  BY StaffAssumption DEF Agenda!AgendaDaysAssumption

\* A step of the panel is a step of this page or none, if the page is in play.
LEMMA AgendaMoves ==
    ASSUME [StaffNext]_StaffVars, part' = "days"
    PROVE  part = "days" /\ [Agenda!Next]_(Agenda!vars)
  <1>1. CASE UNCHANGED StaffVars
    BY <1>1 DEF StaffVars, Agenda!vars, Agenda!server, Agenda!page
  <1>2. CASE StaffNext
    BY <1>2 DEF StaffNext, AgendaStep, ConfigStep, CitasStep, ModalStep, ClientesStep
  <1> QED
    BY <1>1, <1>2

LEMMA FreshIsAStatus == Agenda!Fresh \in DayStatuses
  BY DaysConstants DEF Agenda!Fresh

LEMMA NothingIsAList == Agenda!Nothing \in Lists /\ DOMAIN Agenda!Nothing = {}
  <1>1. Agenda!Nothing \in [{} -> DayStatuses] /\ {} \in SUBSET Appts
    BY DEF Agenda!Nothing
  <1> QED
    BY <1>1 DEF Lists

LEMMA ItemsAreALists ==
    ASSUME NEW r, status \in [Appts -> DayStatuses]
    PROVE  Agenda!Items(r) \in Lists
  <1> DEFINE own == {j \in Appts : dayOf[j] \in Agenda!DaysIn(r)}
  <1>1. Agenda!Items(r) = [i \in own |-> status[i]] /\ own \in SUBSET Appts
    BY DEF Agenda!Items
  <1> HIDE DEF own
  <1>2. Agenda!Items(r) \in [own -> DayStatuses]
    BY <1>1
  <1> QED
    BY <1>1, <1>2 DEF Lists

LEMMA ListHolds ==
    ASSUME NEW l \in Lists
    PROVE  DOMAIN l \subseteq Appts /\ \A i \in DOMAIN l : l[i] \in DayStatuses
  <1>1. PICK A \in SUBSET Appts : l \in [A -> DayStatuses]
    BY DEF Lists
  <1> QED
    BY <1>1

LEMMA MarksAreStatuses ==
    ASSUME NEW l \in Lists
    PROVE  Agenda!Marks(l) \in [Days -> SUBSET DayStatuses]
  <1>1. \A d \in Days : {l[i] : i \in {j \in DOMAIN l : dayOf[j] = d}} \subseteq DayStatuses
    BY ListHolds
  <1> QED
    BY <1>1 DEF Agenda!Marks

\* The month is every day.
LEMMA WholeIsAll ==
    ASSUME dayOf \in [Appts -> Days], status \in [Appts -> DayStatuses]
    PROVE  /\ Agenda!Whole \in Lists
           /\ \A d \in Days : Agenda!Marks(Agenda!Whole)[d] = DayMarks(d)
  <1> DEFINE lo == CHOOSE d \in Days : \A e \in Days : d <= e
             hi == CHOOSE d \in Days : \A e \in Days : d >= e
  <1>1. /\ Days \subseteq Nat
        /\ \E first, final \in Days : Days = first..final
    BY DaysConstants
  <1>2. PICK first, final \in Days : Days = first..final
    BY <1>1
  <1>3. first \in Nat /\ final \in Nat /\ \A e \in Days : first <= e /\ e <= final
    BY <1>1, <1>2
  <1>4. /\ lo \in Days /\ \A e \in Days : lo <= e
        /\ hi \in Days /\ \A e \in Days : hi >= e
    <2>1. \E d \in Days : \A e \in Days : d <= e
      BY <1>3
    <2>2. \E d \in Days : \A e \in Days : d >= e
      BY <1>1, <1>3
    <2> QED
      BY <2>1, <2>2
  <1>5. Agenda!Whole = Agenda!Items(<<lo, hi>>)
    BY DEF Agenda!Whole
  <1> HIDE DEF lo, hi
  <1>6. \A d \in Days : d \in Agenda!DaysIn(<<lo, hi>>)
    BY <1>1, <1>2, <1>3, <1>4 DEF Agenda!DaysIn
  <1>7. {j \in Appts : dayOf[j] \in Agenda!DaysIn(<<lo, hi>>)} = Appts
    BY <1>6
  <1>8. Agenda!Whole = [i \in Appts |-> status[i]]
    BY <1>5, <1>7 DEF Agenda!Items
  <1>9. \A d \in Days : Agenda!Marks(Agenda!Whole)[d] = DayMarks(d)
    BY <1>8 DEF Agenda!Marks, DayMarks
  <1> QED
    BY <1>5, <1>9, ItemsAreALists

LEMMA DaysInit == Agenda!Init => DaysInv
  <1> SUFFICES ASSUME Agenda!Init
               PROVE  DaysInv
    OBVIOUS
  <1>1. PICK today \in Days, f \in Fetches :
           /\ \A d \in Days : today <= d
           /\ qry = <<today, today>>
           /\ fetch = [g \in Fetches |-> IF g = f
                         THEN [Agenda!NoFetch EXCEPT !.pc = "sent", !.range = <<today, today>>]
                         ELSE Agenda!NoFetch]
    BY DEF Agenda!Init
  <1> DEFINE first == [Agenda!NoFetch EXCEPT !.pc = "sent", !.range = <<today, today>>]
  <1>2. qry \in Agenda!Ranges
    BY <1>1 DEF Agenda!Ranges
  <1>3. Agenda!NoFetch \in DayRequest /\ first \in DayRequest
    BY <1>1, <1>2, NothingIsAList DEF Agenda!NoFetch, DayRequest
  <1>4. fetch \in [Fetches -> DayRequest]
    BY <1>1, <1>3
  <1>5. /\ list \in Lists /\ DOMAIN list = {}
        /\ marks \in [Days -> SUBSET DayStatuses]
    BY NothingIsAList, MarksAreStatuses DEF Agenda!Init
  <1>6. /\ month \in [pc : {"idle", "sent", "read"}, items : Lists]
        /\ modal \in [open : BOOLEAN, id : Appts \cup {None}, st : DayStatuses, busy : BOOLEAN]
        /\ ~modal.open /\ ~modal.busy /\ act.pc = "idle"
        /\ act \in [pc : {"idle", "sent", "done", "refused"}, id : Appts \cup {None},
                    to : DayStatuses]
    BY NothingIsAList, FreshIsAStatus DEF Agenda!Init, Agenda!NoMonth, Agenda!NoAct
  <1>7. Agenda!TypeOK
    BY <1>2, <1>5, <1>6 DEF Agenda!Init, Agenda!TypeOK
  <1>8. DaysTypes
    BY <1>4, <1>5, <1>6, <1>7 DEF DaysTypes
  <1>9. ListOK /\ MarksOK
    BY DEF Agenda!Init, ListOK, MarksOK
  <1> QED
    BY <1>8, <1>9 DEF DaysInv

\* A step that leaves the appointments, the list and the change in flight alone.
LEMMA ListKept ==
    ASSUME ListOK, UNCHANGED <<dayOf, status, list, act>>,
           "list" \notin stale' => "list" \notin stale,
           (\A f \in Fetches : fetch'[f].pc = "idle") =>
               qry' = qry /\ \A f \in Fetches : fetch[f].pc = "idle"
    PROVE  ListOK'
  <1>1. \A r : ListOf(r)' = ListOf(r)
    BY DEF ListOf, Agenda!DaysIn
  <1> QED
    BY <1>1 DEF ListOK

LEMMA MarksKept ==
    ASSUME MarksOK, UNCHANGED <<dayOf, status, marks, act>>,
           "month" \notin stale' => "month" \notin stale
    PROVE  MarksOK'
  BY DEF MarksOK, DayMarks

\* The requests of the list and of the marks, and their answers.
LEMMA DayAnswers ==
    ASSUME DaysInv,
           \/ \E f \in Fetches :
                 Agenda!ReadList(f) \/ Agenda!ListAnswered(f) \/ Agenda!ListFails(f)
           \/ Agenda!ReadMonth
           \/ Agenda!MonthAnswered
           \/ Agenda!MonthFails
           \/ Agenda!AskMonth
    PROVE  DaysInv'
  <1> USE DEF DaysInv
  <1>1. UNCHANGED <<dayOf, status, qry, modal, act>>
    BY DEF Agenda!ReadList, Agenda!ListAnswered, Agenda!ListFails, Agenda!ReadMonth,
           Agenda!MonthAnswered, Agenda!MonthFails, Agenda!AskMonth, Agenda!server
  <1>2. dayOf \in [Appts -> Days] /\ status \in [Appts -> DayStatuses]
    BY DEF DaysTypes, Agenda!TypeOK
  <1>3. ASSUME fetch' \in [Fetches -> DayRequest],
               month' \in [pc : {"idle", "sent", "read"}, items : Lists],
               list' \in Lists, marks' \in [Days -> SUBSET DayStatuses],
               stale' \subseteq {"list", "month"}
        PROVE  DaysTypes'
    <2>1. Agenda!TypeOK'
      BY <1>1, <1>3, ListHolds DEF DaysTypes, Agenda!TypeOK, Agenda!Ranges
    <2> QED
      BY <1>1, <1>3, <2>1 DEF DaysTypes
  <1>4. CASE \E f \in Fetches : Agenda!ReadList(f)
    <2>1. PICK f \in Fetches : Agenda!ReadList(f)
      BY <1>4
    <2> DEFINE read == [fetch[f] EXCEPT !.pc = "read", !.items = Agenda!Items(fetch[f].range)]
    <2>2. fetch[f] \in DayRequest /\ Agenda!Items(fetch[f].range) \in Lists
      BY <1>2, ItemsAreALists DEF DaysTypes
    <2>3. read \in DayRequest /\ read.pc = "read"
      BY <2>2 DEF DayRequest
    <2>4. fetch' = [fetch EXCEPT ![f] = read] /\ UNCHANGED <<list, marks, month, stale>>
      BY <2>1, <2>2 DEF Agenda!ReadList, Agenda!page, DayRequest, DaysTypes
    <2> HIDE DEF read
    <2>5. fetch' \in [Fetches -> DayRequest] /\ fetch'[f].pc # "idle"
      BY <2>3, <2>4 DEF DaysTypes
    <2>6. DaysTypes'
      BY <1>3, <2>4, <2>5 DEF DaysTypes, Agenda!TypeOK
    <2>7. ListOK' /\ MarksOK'
      BY <1>1, <2>4, <2>5, ListKept, MarksKept
    <2> QED
      BY <2>6, <2>7
  <1>5. CASE \E f \in Fetches : Agenda!ListAnswered(f)
    <2>1. PICK f \in Fetches : Agenda!ListAnswered(f)
      BY <1>5
    <2>2. /\ fetch[f].pc = "read" /\ list' = fetch[f].items
          /\ fetch' = [fetch EXCEPT ![f] = Agenda!NoFetch]
          /\ stale' = Agenda!Outdated("list", fetch[f].items # Agenda!Items(qry))
          /\ UNCHANGED <<marks, month>>
      BY <2>1 DEF Agenda!ListAnswered
    <2>3. fetch' \in [Fetches -> DayRequest] /\ list' \in Lists
      <3>1. Agenda!NoFetch \in DayRequest
        BY NothingIsAList DEF Agenda!NoFetch, DayRequest
      <3> QED
        BY <2>2, <3>1 DEF DaysTypes, DayRequest
    <2>4. /\ stale' \subseteq {"list", "month"}
          /\ "month" \notin stale' => "month" \notin stale
      BY <2>2 DEF Agenda!Outdated, DaysTypes, Agenda!TypeOK
    <2>5. DaysTypes'
      BY <1>3, <2>2, <2>3, <2>4 DEF DaysTypes, Agenda!TypeOK
    <2>6. "list" \notin stale' => list' = Agenda!Items(qry)
      BY <2>2 DEF Agenda!Outdated
    <2>7. "list" \notin stale' => ListOf(qry)'
      BY <1>1, <2>6 DEF ListOf, Agenda!Items, Agenda!DaysIn
    <2>8. ListOK'
      BY <1>1, <2>7 DEF ListOK, DaysTypes, Agenda!TypeOK
    <2>9. MarksOK'
      BY <1>1, <2>2, <2>4, MarksKept
    <2> QED
      BY <2>5, <2>8, <2>9
  <1>6. CASE \E f \in Fetches : Agenda!ListFails(f)
    <2>1. PICK f \in Fetches : Agenda!ListFails(f)
      BY <1>6
    <2>2. /\ list' = Agenda!Nothing /\ fetch' = [fetch EXCEPT ![f] = Agenda!NoFetch]
          /\ stale' = stale \cup {"list"} /\ UNCHANGED <<marks, month>>
      BY <2>1 DEF Agenda!ListFails
    <2>3. fetch' \in [Fetches -> DayRequest] /\ list' \in Lists
      <3>1. Agenda!NoFetch \in DayRequest
        BY NothingIsAList DEF Agenda!NoFetch, DayRequest
      <3> QED
        BY <2>2, <3>1, NothingIsAList DEF DaysTypes
    <2>4. DaysTypes'
      BY <1>3, <2>2, <2>3 DEF DaysTypes, Agenda!TypeOK
    <2>5. ListOK'
      BY <2>2 DEF ListOK
    <2>6. MarksOK'
      BY <1>1, <2>2, MarksKept
    <2> QED
      BY <2>4, <2>5, <2>6
  <1>7. CASE Agenda!ReadMonth \/ Agenda!AskMonth
    <2>1. UNCHANGED <<list, marks, fetch, stale>>
      BY <1>7 DEF Agenda!ReadMonth, Agenda!AskMonth, Agenda!page
    <2>2. month' \in [pc : {"idle", "sent", "read"}, items : Lists]
      BY <1>2, <1>7, WholeIsAll, NothingIsAList
         DEF Agenda!ReadMonth, Agenda!AskMonth, Agenda!NoMonth
    <2>3. DaysTypes'
      BY <1>3, <2>1, <2>2 DEF DaysTypes, Agenda!TypeOK
    <2> QED
      BY <1>1, <2>1, <2>3, ListKept, MarksKept
  <1>8. CASE Agenda!MonthAnswered
    <2>1. /\ month.pc = "read"
          /\ marks' = Agenda!Marks(month.items)
          /\ month' = Agenda!NoMonth
          /\ stale' = Agenda!Outdated("month", month.items # Agenda!Whole)
          /\ UNCHANGED <<list, fetch>>
      BY <1>8 DEF Agenda!MonthAnswered
    <2>2. /\ month' \in [pc : {"idle", "sent", "read"}, items : Lists]
          /\ marks' \in [Days -> SUBSET DayStatuses]
      BY <2>1, NothingIsAList, MarksAreStatuses DEF Agenda!NoMonth, DaysTypes
    <2>3. /\ stale' \subseteq {"list", "month"}
          /\ "list" \notin stale' => "list" \notin stale
          /\ "month" \notin stale' => month.items = Agenda!Whole
      BY <2>1 DEF Agenda!Outdated, DaysTypes, Agenda!TypeOK
    <2>4. DaysTypes'
      BY <1>3, <2>1, <2>2, <2>3 DEF DaysTypes, Agenda!TypeOK
    <2>5. ListOK'
      BY <1>1, <2>1, <2>3, ListKept
    <2>6. \A d \in Days : DayMarks(d)' = DayMarks(d)
      BY <1>1 DEF DayMarks
    <2>7. "month" \notin stale' => \A d \in Days : marks'[d] = DayMarks(d)
      BY <1>2, <2>1, <2>3, WholeIsAll
    <2>8. MarksOK'
      BY <2>6, <2>7 DEF MarksOK
    <2> QED
      BY <2>4, <2>5, <2>8
  <1>9. CASE Agenda!MonthFails
    <2>1. /\ marks' = Agenda!Marks(Agenda!Nothing)
          /\ month' = Agenda!NoMonth
          /\ stale' = stale \cup {"month"}
          /\ UNCHANGED <<list, fetch>>
      BY <1>9 DEF Agenda!MonthFails
    <2>2. /\ month' \in [pc : {"idle", "sent", "read"}, items : Lists]
          /\ marks' \in [Days -> SUBSET DayStatuses]
      BY <2>1, NothingIsAList, MarksAreStatuses DEF Agenda!NoMonth
    <2>3. DaysTypes'
      BY <1>3, <2>1, <2>2 DEF DaysTypes, Agenda!TypeOK
    <2>4. ListOK'
      BY <1>1, <2>1, ListKept
    <2> QED
      BY <2>1, <2>3, <2>4 DEF MarksOK
  <1> QED
    BY <1>4, <1>5, <1>6, <1>7, <1>8, <1>9

\* Days are picked, and an appointment of theirs is opened and closed.
LEMMA DayPicks ==
    ASSUME DaysInv,
           \/ (\E r \in Agenda!Ranges : Agenda!Commit(r))
           \/ (\E i \in Appts : Agenda!OpenAppointment(i))
           \/ Agenda!CloseModal
    PROVE  DaysInv'
  <1> USE DEF DaysInv
  <1>1. UNCHANGED <<dayOf, status, list, marks, month, act, stale>>
    BY DEF Agenda!Commit, Agenda!OpenAppointment, Agenda!CloseModal, Agenda!server,
           Agenda!page
  <1>2. CASE \E r \in Agenda!Ranges : Agenda!Commit(r)
    <2>1. PICK r \in Agenda!Ranges, f \in Fetches :
             /\ qry' = r /\ modal' = modal
             /\ fetch' = [fetch EXCEPT ![f] = [Agenda!NoFetch EXCEPT !.pc = "sent", !.range = r]]
      BY <1>2 DEF Agenda!Commit, Agenda!Ask
    <2> DEFINE sent == [Agenda!NoFetch EXCEPT !.pc = "sent", !.range = r]
    <2>2. sent \in DayRequest /\ sent.pc = "sent"
      BY NothingIsAList DEF Agenda!NoFetch, DayRequest
    <2> HIDE DEF sent
    <2>3. fetch' \in [Fetches -> DayRequest] /\ fetch'[f].pc # "idle"
      BY <2>1, <2>2 DEF DaysTypes, sent
    <2>4. Agenda!TypeOK'
      BY <1>1, <2>1 DEF DaysTypes, Agenda!TypeOK, Agenda!Ranges
    <2>5. DaysTypes'
      BY <1>1, <2>1, <2>3, <2>4 DEF DaysTypes
    <2> QED
      BY <1>1, <2>3, <2>5, ListKept, MarksKept
  <1>3. CASE (\E i \in Appts : Agenda!OpenAppointment(i)) \/ Agenda!CloseModal
    <2>1. UNCHANGED <<qry, fetch>>
      BY <1>3 DEF Agenda!OpenAppointment, Agenda!CloseModal
    <2>2. /\ modal' \in [open : BOOLEAN, id : Appts \cup {None}, st : DayStatuses, busy : BOOLEAN]
          /\ modal'.busy = modal.busy /\ (modal'.open => modal'.id \in Appts)
      <3>1. CASE \E i \in Appts : Agenda!OpenAppointment(i)
        <4>1. PICK i \in Appts : Agenda!OpenAppointment(i)
          BY <3>1
        <4>2. list[i] \in DayStatuses
          BY <4>1 DEF Agenda!OpenAppointment, DaysTypes, Agenda!TypeOK
        <4> QED
          BY <4>1, <4>2 DEF Agenda!OpenAppointment, DaysTypes
      <3>2. CASE Agenda!CloseModal
        BY <3>2, FreshIsAStatus DEF Agenda!CloseModal, DaysTypes
      <3> QED
        BY <1>3, <3>1, <3>2
    <2>3. Agenda!TypeOK'
      BY <1>1, <2>1, <2>2 DEF DaysTypes, Agenda!TypeOK, Agenda!Ranges
    <2>4. DaysTypes'
      BY <1>1, <2>1, <2>2, <2>3 DEF DaysTypes
    <2> QED
      BY <1>1, <2>1, <2>4, ListKept, MarksKept
  <1> QED
    BY <1>2, <1>3

\* A change of status is asked for, made or refused.
LEMMA DayChanges ==
    ASSUME \/ DaysInv, (\E to \in DayStatuses : Agenda!Change(to))
           \/ Agenda!ServeChange
           \/ Agenda!RefuseChange
    PROVE  DaysInv'
  <1> USE DEF DaysInv
  <1>1. UNCHANGED <<dayOf, qry, list, marks, fetch, month, stale>>
    BY DEF Agenda!Change, Agenda!ServeChange, Agenda!RefuseChange, Agenda!server,
           Agenda!page
  <1> DEFINE Acts == [pc : {"idle", "sent", "done", "refused"}, id : Appts \cup {None},
                      to : DayStatuses]
             Modals == [open : BOOLEAN, id : Appts \cup {None}, st : DayStatuses, busy : BOOLEAN]
  <1>2. ASSUME act' \in Acts, act'.pc # "idle", act'.id \in Appts,
               modal' \in Modals, modal'.busy, modal'.open => modal'.id \in Appts,
               status' \in [Appts -> DayStatuses]
        PROVE  DaysTypes'
    <2>1. Agenda!TypeOK'
      BY <1>1, <1>2 DEF DaysTypes, Agenda!TypeOK, Agenda!Ranges
    <2> QED
      BY <1>1, <1>2, <2>1 DEF DaysTypes
  <1>3. CASE (\E to \in DayStatuses : Agenda!Change(to)) \/ Agenda!RefuseChange
    <2>1. /\ status' = status /\ act.pc # "done"
          /\ act' \in Acts /\ act'.pc \in {"sent", "refused"} /\ act'.id \in Appts
          /\ modal' \in Modals /\ modal'.busy /\ (modal'.open => modal'.id \in Appts)
      <3>1. CASE \E to \in DayStatuses : Agenda!Change(to)
        <4>1. PICK to \in DayStatuses : Agenda!Change(to)
          BY <3>1
        <4>2. /\ modal.open /\ ~modal.busy /\ modal' = [modal EXCEPT !.busy = TRUE]
              /\ act' = [pc |-> "sent", id |-> modal.id, to |-> to] /\ status' = status
          BY <4>1 DEF Agenda!Change, Agenda!server
        <4>3. modal.id \in Appts /\ act.pc = "idle"
          BY <4>2 DEF DaysTypes, Agenda!TypeOK
        <4>4. modal' \in Modals /\ modal'.busy /\ modal'.open /\ modal'.id = modal.id
          BY <4>2 DEF DaysTypes
        <4> QED
          BY <4>2, <4>3, <4>4
      <3>2. CASE Agenda!RefuseChange
        BY <3>2 DEF Agenda!RefuseChange, DaysTypes, Agenda!TypeOK, Agenda!server
      <3> QED
        BY <1>3, <3>1, <3>2
    <2>2. DaysTypes'
      BY <1>2, <2>1 DEF DaysTypes, Agenda!TypeOK
    <2>3. act'.pc # "done"
      BY <2>1
    <2>4. \A r : ListOf(r)' = ListOf(r)
      BY <1>1, <2>1, <2>3 DEF ListOf, Agenda!DaysIn
    <2>5. ListOK'
      BY <1>1, <2>4 DEF ListOK
    <2>6. MarksOK'
      BY <1>1, <2>1 DEF MarksOK, DayMarks
    <2> QED
      BY <2>2, <2>5, <2>6
  <1>4. CASE Agenda!ServeChange
    <2>1. /\ act.pc = "sent" /\ status' = [status EXCEPT ![act.id] = act.to]
          /\ act' = [act EXCEPT !.pc = "done"] /\ modal' = modal
      BY <1>4 DEF Agenda!ServeChange
    <2>2. /\ act.id \in Appts /\ act.to \in DayStatuses /\ modal.busy
          /\ status \in [Appts -> DayStatuses] /\ dayOf \in [Appts -> Days]
      BY <2>1 DEF DaysTypes, Agenda!TypeOK
    <2>3. act' \in Acts /\ act'.pc = "done" /\ act'.id = act.id
      BY <2>1 DEF DaysTypes
    <2>4. /\ status' \in [Appts -> DayStatuses]
          /\ \A i \in Appts \ {act.id} : status'[i] = status[i]
      BY <2>1, <2>2
    <2>5. DaysTypes'
      BY <1>2, <2>1, <2>2, <2>3, <2>4 DEF DaysTypes
    <2>6. \A r : ListOf(r) => ListOf(r)'
      <3> SUFFICES ASSUME NEW r, ListOf(r)
                   PROVE  ListOf(r)'
        OBVIOUS
      <3>1. DOMAIN list = {i \in Appts : dayOf[i] \in Agenda!DaysIn(r)}
        BY DEF ListOf
      <3>2. \A i \in DOMAIN list : list[i] = status[i]
        BY <2>1 DEF ListOf
      <3>3. \A i \in DOMAIN list : list[i] = status'[i] \/ i = act.id
        BY <2>4, <3>1, <3>2
      <3> QED
        BY <1>1, <2>3, <3>1, <3>3 DEF ListOf, Agenda!DaysIn
    <2>7. ListOK'
      BY <1>1, <2>6 DEF ListOK
    <2>8. \A d \in Days : d # dayOf[act.id] => DayMarks(d)' = DayMarks(d)
      BY <1>1, <2>2, <2>4 DEF DayMarks
    <2>9. MarksOK'
      BY <1>1, <2>1, <2>3, <2>8 DEF MarksOK
    <2> QED
      BY <2>5, <2>7, <2>9
  <1> QED
    BY <1>3, <1>4

\* The page is told of its change, or of a failure, or nobody tells it.
LEMMA DayTold ==
    ASSUME DaysInv,
           \/ Agenda!Changed
           \/ Agenda!ChangeFails
           \/ \E i \in Appts, to \in DayStatuses : Agenda!OthersChange(i, to)
    PROVE  DaysInv'
  <1> USE DEF DaysInv
  <1>1. UNCHANGED <<dayOf, qry, fetch, month>>
    BY DEF Agenda!Changed, Agenda!ChangeFails, Agenda!OthersChange, Agenda!server,
           Agenda!page
  <1> DEFINE Acts == [pc : {"idle", "sent", "done", "refused"}, id : Appts \cup {None},
                      to : DayStatuses]
             Modals == [open : BOOLEAN, id : Appts \cup {None}, st : DayStatuses, busy : BOOLEAN]
  <1>2. Agenda!NoAct \in Acts /\ Agenda!NoAct.pc = "idle"
    BY FreshIsAStatus DEF Agenda!NoAct
  <1>3. CASE Agenda!Changed
    <2> DEFINE next == IF act.id \in DOMAIN list THEN [list EXCEPT ![act.id] = act.to] ELSE list
    <2>1. /\ act.pc = "done" /\ list' = next
          /\ marks' = [marks EXCEPT ![dayOf[act.id]] = Agenda!Marks(next)[dayOf[act.id]]]
          /\ stale' = Agenda!Doubted
          /\ modal' = [modal EXCEPT !.busy = FALSE, !.id = act.id, !.st = act.to]
          /\ act' = Agenda!NoAct /\ status' = status
      BY <1>3 DEF Agenda!Changed, Agenda!server
    <2>2. /\ act.id \in Appts /\ act.to \in DayStatuses
          /\ status \in [Appts -> DayStatuses] /\ dayOf \in [Appts -> Days]
      BY <2>1 DEF DaysTypes, Agenda!TypeOK
    <2>3. /\ next \in Lists /\ DOMAIN next = DOMAIN list
          /\ act.id \in DOMAIN list => next[act.id] = act.to
          /\ \A i \in DOMAIN list \ {act.id} : next[i] = list[i]
      <3>1. PICK A \in SUBSET Appts : list \in [A -> DayStatuses]
        BY DEF DaysTypes, Lists
      <3>2. next \in [A -> DayStatuses]
        BY <2>2, <3>1
      <3> QED
        BY <3>1, <3>2 DEF Lists
    <2> HIDE DEF next
    <2>4. marks' \in [Days -> SUBSET DayStatuses]
      <3>1. Agenda!Marks(next) \in [Days -> SUBSET DayStatuses] /\ dayOf[act.id] \in Days
        BY <2>2, <2>3, MarksAreStatuses
      <3> QED
        BY <2>1, <3>1 DEF DaysTypes, Agenda!TypeOK
    <2>5. /\ modal' \in Modals /\ ~modal'.busy /\ modal'.id \in Appts
      BY <2>1, <2>2 DEF DaysTypes
    <2>6. stale' \subseteq {"list", "month"}
      BY <2>1 DEF Agenda!Doubted, DaysTypes, Agenda!TypeOK
    <2>7. Agenda!TypeOK'
      BY <1>1, <1>2, <2>1, <2>2, <2>3, <2>4, <2>5, <2>6, ListHolds
         DEF DaysTypes, Agenda!TypeOK, Agenda!Ranges
    <2>8. DaysTypes'
      BY <1>1, <1>2, <2>1, <2>3, <2>5, <2>7 DEF DaysTypes
    <2>9. "list" \notin stale' => status[act.id] = act.to /\ "list" \notin stale
      BY <2>1 DEF Agenda!Doubted
    <2>10. \A r : status[act.id] = act.to /\ ListOf(r) =>
             /\ DOMAIN next = {i \in Appts : dayOf[i] \in Agenda!DaysIn(r)}
             /\ \A i \in DOMAIN next : next[i] = status[i]
      BY <2>3 DEF ListOf
    <2>11. \A r : status[act.id] = act.to /\ ListOf(r) => ListOf(r)'
      BY <1>1, <2>1, <2>10 DEF ListOf, Agenda!DaysIn
    <2>12. ListOK'
      BY <1>1, <2>9, <2>11 DEF ListOK
    <2>13. "month" \notin stale' =>
             /\ status[act.id] = act.to /\ "month" \notin stale /\ "list" \notin stale
             /\ act.id \in DOMAIN list
      BY <2>1 DEF Agenda!Doubted
    <2>14. \A d \in Days : DayMarks(d)' = DayMarks(d)
      BY <1>1, <2>1 DEF DayMarks
    <2>15. ASSUME "month" \notin stale', NEW d \in Days
           PROVE  marks'[d] = DayMarks(d)
      <3>1. CASE d # dayOf[act.id]
        <4>1. marks'[d] = marks[d]
          BY <2>1, <3>1 DEF DaysTypes, Agenda!TypeOK
        <4> QED
          BY <2>13, <2>15, <3>1, <4>1 DEF MarksOK
      <3>2. CASE d = dayOf[act.id]
        <4>1. PICK r \in Agenda!Ranges : ListOf(r)
          BY <2>13, <2>15 DEF ListOK
        <4>2. /\ DOMAIN next = {i \in Appts : dayOf[i] \in Agenda!DaysIn(r)}
              /\ \A i \in DOMAIN next : next[i] = status[i]
          BY <2>10, <2>13, <2>15, <4>1
        <4>3. d \in Agenda!DaysIn(r)
          BY <2>3, <2>13, <2>15, <3>2, <4>2
        <4>4. {j \in DOMAIN next : dayOf[j] = d} = {j \in Appts : dayOf[j] = d}
          BY <4>2, <4>3
        <4>5. Agenda!Marks(next)[d] = {next[i] : i \in {j \in DOMAIN next : dayOf[j] = d}}
          BY DEF Agenda!Marks
        <4>6. Agenda!Marks(next)[d] = DayMarks(d)
          BY <4>2, <4>4, <4>5 DEF DayMarks
        <4>7. marks'[d] = Agenda!Marks(next)[d]
          BY <2>1, <3>2 DEF DaysTypes, Agenda!TypeOK
        <4> QED
          BY <4>6, <4>7
      <3> QED
        BY <3>1, <3>2
    <2>16. MarksOK'
      BY <2>14, <2>15 DEF MarksOK
    <2> QED
      BY <2>8, <2>12, <2>16
  <1>4. CASE Agenda!ChangeFails
    <2>1. /\ act.pc # "idle"
          /\ modal' = [modal EXCEPT !.busy = FALSE]
          /\ act' = Agenda!NoAct
          /\ stale' = IF act.pc = "done" THEN {"list", "month"} ELSE stale
          /\ UNCHANGED <<status, list, marks>>
      BY <1>4 DEF Agenda!ChangeFails, Agenda!server, Agenda!page
    <2>2. /\ modal' \in Modals
          /\ ~modal'.busy
          /\ modal'.id = modal.id
          /\ modal'.st = modal.st
          /\ modal'.open = modal.open
      BY <2>1 DEF DaysTypes
    <2>3. Agenda!TypeOK'
      BY <1>1, <1>2, <2>1, <2>2 DEF DaysTypes, Agenda!TypeOK, Agenda!Ranges
    <2>4. DaysTypes'
      BY <1>1, <1>2, <2>1, <2>2, <2>3 DEF DaysTypes
    <2>5. CASE act.pc = "done"
      BY <2>1, <2>4, <2>5 DEF ListOK, MarksOK
    <2>6. CASE act.pc # "done"
      <3>1. act'.pc # "done"
        BY <1>2, <2>1
      <3>2. \A r : ListOf(r)' = ListOf(r)
        BY <1>1, <2>1, <2>6, <3>1 DEF ListOf, Agenda!DaysIn
      <3>3. ListOK'
        BY <1>1, <2>1, <2>6, <3>2 DEF ListOK
      <3>4. MarksOK'
        BY <1>1, <2>1, <2>6 DEF MarksOK, DayMarks
      <3> QED
        BY <2>4, <3>3, <3>4
    <2> QED
      BY <2>5, <2>6
  <1>5. CASE \E i \in Appts, to \in DayStatuses : Agenda!OthersChange(i, to)
    <2>1. /\ stale' = {"list", "month"} /\ UNCHANGED <<list, marks, modal, act>>
          /\ status' \in [Appts -> DayStatuses]
      BY <1>5 DEF Agenda!OthersChange, Agenda!page, DaysTypes, Agenda!TypeOK
    <2>2. Agenda!TypeOK'
      BY <1>1, <2>1 DEF DaysTypes, Agenda!TypeOK, Agenda!Ranges
    <2>3. DaysTypes'
      BY <1>1, <2>1, <2>2 DEF DaysTypes
    <2> QED
      BY <2>1, <2>3 DEF ListOK, MarksOK
  <1> QED
    BY <1>3, <1>4, <1>5

LEMMA DaysNext == DaysInv /\ [Agenda!Next]_(Agenda!vars) => DaysInv'
  <1> SUFFICES ASSUME DaysInv, [Agenda!Next]_(Agenda!vars)
               PROVE  DaysInv'
    OBVIOUS
  <1>1. CASE UNCHANGED Agenda!vars
    <2>1. UNCHANGED <<dayOf, status, qry, list, marks, fetch, month, modal, act, stale>>
      BY <1>1 DEF Agenda!vars, Agenda!server, Agenda!page
    <2>2. DaysTypes'
      BY <2>1 DEF DaysInv, DaysTypes, Agenda!TypeOK, Agenda!Ranges
    <2> QED
      BY <2>1, <2>2, ListKept, MarksKept DEF DaysInv
  <1>2. CASE Agenda!Next
    BY <1>2, DayAnswers, DayPicks, DayChanges, DayTold DEF Agenda!Next
  <1> QED
    BY <1>1, <1>2

LEMMA DaysImply == DaysInv => Agenda!TypeOK /\ Agenda!PageIsTruthful
  <1> SUFFICES ASSUME DaysInv
               PROVE  Agenda!TypeOK /\ Agenda!PageIsTruthful
    OBVIOUS
  <1>1. Agenda!TypeOK
    BY DEF DaysInv, DaysTypes
  <1>2. list \in [DOMAIN list -> DayStatuses] /\ marks \in [Days -> SUBSET DayStatuses]
    BY DEF DaysInv, DaysTypes, Agenda!TypeOK, Lists
  <1>3. ASSUME Agenda!Quiet, "list" \notin stale
        PROVE  list = Agenda!Items(qry)
    <2>1. ListOf(qry) /\ act.pc # "done"
      BY <1>3 DEF DaysInv, ListOK, Agenda!Quiet
    <2> QED
      BY <1>2, <2>1 DEF ListOf, Agenda!Items
  <1>4. ASSUME Agenda!Quiet, "month" \notin stale
        PROVE  marks = Agenda!Marks(Agenda!Whole)
    <2>1. \A d \in Days : marks[d] = DayMarks(d)
      BY <1>4 DEF DaysInv, MarksOK, Agenda!Quiet
    <2>2. \A d \in Days : Agenda!Marks(Agenda!Whole)[d] = DayMarks(d)
      BY <1>1, WholeIsAll DEF Agenda!TypeOK
    <2>3. Agenda!Marks(Agenda!Whole) = [d \in Days |-> Agenda!Marks(Agenda!Whole)[d]]
      BY DEF Agenda!Marks
    <2> QED
      BY <1>2, <2>1, <2>2, <2>3
  <1> QED
    BY <1>1, <1>3, <1>4 DEF Agenda!PageIsTruthful

\* The invariant, of the page and of its part in the panel.
LEMMA DaysAlways ==
    /\ Agenda!Spec => []DaysInv
    /\ StaffSpec => [](part = "days" => DaysInv)
  <1> DEFINE Inv == part = "days" => DaysInv
  <1>1. Agenda!Spec => []DaysInv
    BY DaysInit, DaysNext, PTL DEF Agenda!Spec
  <1>2. StaffInit => Inv
    BY DaysInit DEF StaffInit
  <1>3. Inv /\ [StaffNext]_StaffVars => Inv'
    BY DaysNext, AgendaMoves
  <1>4. StaffSpec => []Inv
    BY <1>2, <1>3, PTL DEF StaffSpec
  <1> QED
    BY <1>1, <1>4

\* With nothing on its way the list and the marks of the agenda are those of the
\* server, unless somebody else changed one, an answer failed or came out of order, or
\* the days a change belongs to were left (agenda-page.tsx:290-332, 705-732).
THEOREM DaysTruthful ==
    /\ Agenda!Spec => []Agenda!PageIsTruthful
    /\ StaffSpec => []PageIsTruthful
  <1>1. DaysInv => Agenda!PageIsTruthful
    BY DaysImply
  <1>2. (part = "days" => DaysInv) => PageIsTruthful
    BY <1>1 DEF PageIsTruthful
  <1> QED
    BY <1>1, <1>2, DaysAlways, PTL

\* The appointments, the list and the marks of the days keep their types.
LEMMA AgendaTyped == StaffSpec => [](part = "days" => Agenda!TypeOK)
  <1>1. DaysInv => Agenda!TypeOK
    BY DaysImply
  <1> QED
    BY <1>1, DaysAlways, PTL

-----------------------------------------------------------------------------
(* The configuration of the agenda (AgendaConfig) *)

ExceptionRows == Dates \X (1..MaxMade) \X BOOLEAN

AgendaPage ==
    [at : {"asked", "read", "there"}, business : BOOLEAN,
     draft : [Weekdays -> [on : BOOLEAN, time : BlockTimes]], capField : Caps,
     list : SUBSET ExceptionRows, open : BOOLEAN]

HoursSent ==
    [at : {"none", "hours", "business"}, blocks : SUBSET (Weekdays \X BlockTimes), cap : Caps,
     touched : SUBSET Weekdays]

DayAdded ==
    [at : {"none", "create", "list", "answer"}, date : Dates \cup {0},
     list : SUBSET ExceptionRows, fits : BOOLEAN, since : SUBSET ExceptionRows]

DayDropped == [row : ExceptionRows, done : BOOLEAN]

ConfigTypes ==
    /\ Config!TypeOK
    /\ page \in AgendaPage /\ save \in HoursSent /\ add \in DayAdded
    /\ add.at = "create" => add.date \in Dates
    /\ drop \subseteq DayDropped
    /\ seen \subseteq Weekdays \X BlockTimes /\ touched \subseteq Weekdays
    /\ count \in [made : 0..MaxMade, edits : Nat]
    /\ crossed \in BOOLEAN /\ fits \in BOOLEAN /\ others \subseteq ExceptionRows

\* Nothing is done before the page is loaded.
LoadsFirst ==
    page.at # "there" =>
       /\ ~page.open /\ save.at = "none" /\ add.at = "none" /\ drop = {}
       /\ touched = {} /\ gone = {}

\* The draft of a day that was not edited is one of its blocks.
DraftIsRead ==
    \A b \in seen : b[1] \notin touched =>
        page.draft[b[1]].on /\ <<b[1], page.draft[b[1]].time>> \in seen

\* So is the one that is being saved.
SentIsRead ==
    save.at = "hours" =>
        \A b \in seen :
           b[1] \notin save.touched => \E c \in seen \cap save.blocks : c[1] = b[1]

\* An exception is one of those ever made, and does not come back; the lists hold
\* days closed for the business.
ExceptionsOK ==
    /\ \A r \in exceptions \cup page.list \cup add.list : r[2] <= count.made
    /\ \A r \in page.list \cup add.list : r[3]
    /\ \A d \in drop : d.row[2] <= count.made /\ (d.done => d.row \notin exceptions)

Deleted(r) == [row |-> r, done |-> TRUE] \in drop

\* What the page shows is closed, or was deleted and not answered for, or was opened by
\* others; what it does not show was closed by others, if its list had everything.
PageShowsOK ==
    /\ page.at # "asked" /\ ~crossed =>
          /\ \A r \in page.list : r \in exceptions \/ Deleted(r) \/ r \in others
          /\ fits /\ add.at \in {"none", "create"} =>
                Config!Closed \subseteq page.list \cup others
    /\ add.at = "answer" /\ add.fits => Config!Closed \subseteq add.list \cup add.since

ConfigInv ==
    /\ ConfigTypes /\ LoadsFirst /\ DraftIsRead /\ SentIsRead
    /\ Config!UntouchedDaysAreKept /\ ExceptionsOK /\ PageShowsOK

\* The number of elements means the same in the page and here.
LEMMA ConfigCardinality == \A S : Config!Cardinality(S) = Cardinality(S)
  BY DEF Config!Cardinality, Cardinality

\* There is an hour by default and a capacity of one.
LEMMA ConfigConstants ==
    /\ DefaultTime \in BlockTimes /\ 1 \in Caps
    /\ Dates \subseteq Nat /\ PageSize \in Nat /\ MaxMade \in Nat \ {0}
    /\ InitialHours \subseteq SUBSET (Weekdays \X BlockTimes)
  BY StaffAssumption DEF Config!AgendaConfigAssumption

\* A step of the panel is a step of this page or none, if the page is in play.
LEMMA ConfigMoves ==
    ASSUME [StaffNext]_StaffVars, part' = "config"
    PROVE  part = "config" /\ [Config!Next]_(Config!vars)
  <1>1. CASE UNCHANGED StaffVars
    BY <1>1 DEF StaffVars, Config!vars, Config!hoursVars, Config!listVars
  <1>2. CASE StaffNext
    BY <1>2 DEF StaffNext, AgendaStep, ConfigStep, CitasStep, ModalStep, ClientesStep
  <1> QED
    BY <1>1, <1>2

\* A list brings exceptions there are, of which days closed for the business are shown,
\* and all of these if every exception fits.
LEMMA ListBrings ==
    ASSUME NEW rows \in Config!FirstRows(exceptions)
    PROVE  /\ Config!Shown(rows) \subseteq Config!Closed
           /\ Config!AllFit => Config!Shown(rows) = Config!Closed
  <1>1. rows \subseteq exceptions /\ (Config!AllFit => rows = exceptions)
    BY DEF Config!FirstRows, Config!AllFit
  <1> QED
    BY <1>1 DEF Config!Shown, Config!Closed

LEMMA ConfigInit == Config!Init => ConfigInv
  <1> SUFFICES ASSUME Config!Init
               PROVE  ConfigInv
    OBVIOUS
  <1> USE ConfigConstants
  <1>1. exceptions = {} \/ \E r \in Dates \X {1} \X BOOLEAN : exceptions = {r}
    BY DEF Config!Init
  <1>2. /\ exceptions \subseteq ExceptionRows /\ Cardinality(exceptions) \in 0..1
        /\ \A r \in exceptions : r[2] <= Cardinality(exceptions)
    <2>1. CASE exceptions = {}
      BY <2>1, FS_EmptySet
    <2>2. CASE \E r \in Dates \X {1} \X BOOLEAN : exceptions = {r}
      <3>1. PICK r \in Dates \X {1} \X BOOLEAN : exceptions = {r}
        BY <2>2
      <3>2. Cardinality(exceptions) = 1
        BY <3>1, FS_Singleton
      <3>3. r \in ExceptionRows /\ r[2] = 1
        BY DEF ExceptionRows
      <3> QED
        BY <3>1, <3>2, <3>3
    <2> QED
      BY <1>1, <2>1, <2>2
  <1>3. /\ count.made = Cardinality(exceptions) /\ Cardinality(exceptions) \in 0..MaxMade
        /\ count \in [made : 0..MaxMade, edits : Nat]
    BY <1>2, ConfigCardinality, ConfigConstants DEF Config!Init
  <1>4. /\ page \in AgendaPage /\ page.list = {} /\ page.at = "asked" /\ ~page.open
        /\ ~page.business
    BY DEF Config!Init, AgendaPage, Config!NoPage, Config!EmptyWeek
  <1>5. /\ save \in HoursSent /\ save.at = "none" /\ add \in DayAdded /\ add.at = "none"
        /\ add.list = {}
    BY DEF Config!Init, Config!NoSave, Config!NoAdd, HoursSent, DayAdded
  <1>6. hours \subseteq Weekdays \X BlockTimes /\ cap \in Caps
    BY DEF Config!Init
  <1>7. Config!TypeOK
    BY <1>2, <1>4, <1>5, <1>6 DEF Config!TypeOK, ExceptionRows
  <1>8. ConfigTypes
    BY <1>2, <1>3, <1>4, <1>5, <1>7 DEF Config!Init, ConfigTypes
  <1>9. LoadsFirst /\ DraftIsRead /\ SentIsRead /\ Config!UntouchedDaysAreKept
    BY <1>4, <1>5
       DEF Config!Init, LoadsFirst, DraftIsRead, SentIsRead, Config!UntouchedDaysAreKept
  <1>10. ExceptionsOK
    BY <1>2, <1>3, <1>4, <1>5 DEF Config!Init, ExceptionsOK
  <1>11. PageShowsOK
    BY <1>4, <1>5 DEF PageShowsOK
  <1> QED
    BY <1>8, <1>9, <1>10, <1>11 DEF ConfigInv

\* A step of the hours leaves the closed days alone.
LEMMA RowsKept ==
    ASSUME ExceptionsOK, UNCHANGED <<exceptions, drop, add>>, count'.made = count.made,
           page'.list = page.list
    PROVE  ExceptionsOK'
  BY DEF ExceptionsOK

LEMMA ShownKept ==
    ASSUME PageShowsOK, UNCHANGED <<exceptions, drop, add, crossed, others, fits>>,
           page'.list = page.list, page'.at # "asked" => page.at # "asked"
    PROVE  PageShowsOK'
  BY DEF PageShowsOK, Deleted, Config!Closed

LEMMA LoadStep ==
    ASSUME ConfigInv, Config!ListsRead \/ Config!Loaded \/ Config!LoadFails
    PROVE  ConfigInv'
  <1> USE DEF ConfigInv
  <1>1. /\ page.at # "there"
        /\ UNCHANGED <<hours, cap, exceptions, save, add, drop, touched, gone, count>>
    BY DEF Config!ListsRead, Config!Loaded, Config!LoadFails, Config!hoursVars,
           Config!listVars
  <1>2. /\ ~page.open /\ save.at = "none" /\ add.at = "none" /\ drop = {}
        /\ touched = {} /\ gone = {}
    BY <1>1 DEF LoadsFirst
  <1>3. CASE Config!ListsRead
    <2>1. PICK week \in Config!Drafts(hours), rows \in Config!FirstRows(exceptions) :
             page' = [page EXCEPT !.at = "read", !.draft = week, !.capField = cap,
                                  !.list = Config!Shown(rows)]
      BY <1>3 DEF Config!ListsRead
    <2>2. /\ seen' = hours /\ crossed' = crossed /\ others' = {}
          /\ fits' = Config!AllFit
      BY <1>3 DEF Config!ListsRead
    <2>3. week \in [Weekdays -> [on : BOOLEAN, time : BlockTimes]] /\ cap \in Caps
      BY DEF Config!Drafts, ConfigTypes, Config!TypeOK
    <2>4. /\ Config!Shown(rows) \subseteq Config!Closed
          /\ Config!AllFit => Config!Shown(rows) = Config!Closed
          /\ Config!Closed \subseteq exceptions /\ exceptions \subseteq ExceptionRows
          /\ \A r \in Config!Closed : r[3]
      BY ListBrings DEF ConfigTypes, Config!TypeOK, ExceptionRows, Config!Closed
    <2>5. /\ page' \in AgendaPage /\ page'.at = "read" /\ page'.draft = week
          /\ page'.list = Config!Shown(rows) /\ page'.open = page.open
      BY <2>1, <2>3, <2>4 DEF ConfigTypes, AgendaPage
    <2>6. Config!TypeOK'
      BY <1>1, <1>2, <2>5 DEF ConfigTypes, Config!TypeOK, Config!Ready
    <2>7. ConfigTypes'
      <3>1. fits' \in BOOLEAN
        BY <2>2 DEF Config!AllFit
      <3> QED
        BY <1>1, <2>2, <2>5, <2>6, <3>1 DEF ConfigTypes, Config!TypeOK
    <2>8. LoadsFirst' /\ SentIsRead' /\ Config!UntouchedDaysAreKept'
      BY <1>1, <1>2, <2>5 DEF LoadsFirst, SentIsRead, Config!UntouchedDaysAreKept
    <2>9. DraftIsRead'
      <3> SUFFICES ASSUME NEW b \in hours
                   PROVE  week[b[1]].on /\ <<b[1], week[b[1]].time>> \in hours
        BY <2>2, <2>5 DEF DraftIsRead
      <3>1. hours \subseteq Weekdays \X BlockTimes
        BY DEF ConfigTypes, Config!TypeOK
      <3> DEFINE own == {c \in hours : c[1] = b[1]}
      <3>2. b[1] \in Weekdays /\ own # {}
        BY <3>1
      <3>3. week[b[1]].on /\ \E c \in own : c[2] = week[b[1]].time
        BY <3>2 DEF Config!Drafts
      <3> QED
        BY <3>1, <3>3
    <2>10. ExceptionsOK'
      BY <1>1, <1>2, <2>4, <2>5 DEF ExceptionsOK
    <2>11. Config!Closed' = Config!Closed
      BY <1>1 DEF Config!Closed
    <2>12. PageShowsOK'
      BY <1>1, <1>2, <2>2, <2>4, <2>5, <2>11 DEF PageShowsOK
    <2> QED
      BY <2>7, <2>8, <2>9, <2>10, <2>12
  <1>4. CASE Config!Loaded
    <2>1. page.at = "read" /\ page' = [page EXCEPT !.at = "there", !.business = TRUE]
      BY <1>4 DEF Config!Loaded
    <2>2. UNCHANGED <<seen, crossed, others, fits>>
      BY <1>4 DEF Config!Loaded, Config!hoursVars, Config!listVars
    <2>3. /\ page' \in AgendaPage /\ page'.at = "there" /\ page'.draft = page.draft
          /\ page'.list = page.list /\ page'.open = page.open
      BY <2>1 DEF ConfigTypes, AgendaPage
    <2>4. Config!TypeOK'
      BY <1>1, <1>2, <2>3 DEF ConfigTypes, Config!TypeOK
    <2>5. ConfigTypes'
      BY <1>1, <2>2, <2>3, <2>4 DEF ConfigTypes
    <2>6. LoadsFirst' /\ SentIsRead' /\ Config!UntouchedDaysAreKept' /\ DraftIsRead'
      BY <1>1, <1>2, <2>2, <2>3
         DEF LoadsFirst, SentIsRead, Config!UntouchedDaysAreKept, DraftIsRead
    <2>7. ExceptionsOK' /\ PageShowsOK'
      BY <1>1, <2>1, <2>2, <2>3, RowsKept, ShownKept
    <2> QED
      BY <2>5, <2>6, <2>7
  <1>5. CASE Config!LoadFails
    <2>1. PICK business \in BOOLEAN :
             page' = [Config!NoPage EXCEPT !.at = "there", !.business = business]
      BY <1>5 DEF Config!LoadFails
    <2>2. seen' = {} /\ crossed' = TRUE /\ UNCHANGED <<others, fits>>
      BY <1>5 DEF Config!LoadFails
    <2>3. page' \in AgendaPage /\ page'.at = "there" /\ page'.list = {} /\ ~page'.open
      BY <2>1, ConfigConstants DEF AgendaPage, Config!NoPage, Config!EmptyWeek
    <2>4. Config!TypeOK'
      BY <1>1, <1>2, <2>3 DEF ConfigTypes, Config!TypeOK
    <2>5. ConfigTypes'
      BY <1>1, <2>2, <2>3, <2>4 DEF ConfigTypes
    <2>6. LoadsFirst' /\ SentIsRead' /\ Config!UntouchedDaysAreKept' /\ DraftIsRead'
      BY <1>1, <1>2, <2>2, <2>3
         DEF LoadsFirst, SentIsRead, Config!UntouchedDaysAreKept, DraftIsRead
    <2>7. ExceptionsOK'
      BY <1>1, <1>2, <2>3 DEF ExceptionsOK
    <2>8. PageShowsOK'
      BY <1>1, <1>2, <2>2 DEF PageShowsOK
    <2> QED
      BY <2>5, <2>6, <2>7, <2>8
  <1> QED
    BY <1>3, <1>4, <1>5

LEMMA EditStep ==
    ASSUME \/ ConfigInv, Config!Configure
           \/ Config!Close
           \/ (\E d \in Weekdays : Config!EditDay(d))
           \/ Config!EditCap
    PROVE  ConfigInv'
  <1> USE DEF ConfigInv
  <1>1. UNCHANGED <<hours, cap, exceptions, save, add, drop, seen, gone, crossed, others, fits>>
    BY DEF Config!Configure, Config!Close, Config!EditDay, Config!EditCap,
           Config!hoursVars, Config!listVars
  <1>2. /\ page' \in AgendaPage
        /\ page'.at = page.at
        /\ page'.business = page.business
        /\ page'.list = page.list /\ page.at = "there" /\ Config!Ready
    <2>1. CASE Config!Configure
      BY <2>1 DEF Config!Configure, Config!Ready, ConfigTypes, AgendaPage
    <2>2. CASE Config!Close
      BY <2>2 DEF Config!Close, Config!Ready, ConfigTypes, AgendaPage, Config!TypeOK
    <2>3. CASE \E d \in Weekdays : Config!EditDay(d)
      <3>1. PICK d \in Weekdays, row \in [on : BOOLEAN, time : BlockTimes] :
               page.open /\ page' = [page EXCEPT !.draft[d] = row]
        BY <2>3 DEF Config!EditDay
      <3> DEFINE week == [page.draft EXCEPT ![d] = row]
      <3>2. week \in [Weekdays -> [on : BOOLEAN, time : BlockTimes]]
        BY DEF ConfigTypes, AgendaPage
      <3>3. page' = [page EXCEPT !.draft = week]
        BY <3>1
      <3> HIDE DEF week
      <3> QED
        BY <3>1, <3>2, <3>3 DEF Config!Ready, ConfigTypes, AgendaPage, Config!TypeOK
    <2>4. CASE Config!EditCap
      BY <2>4 DEF Config!EditCap, Config!Ready, ConfigTypes, AgendaPage, Config!TypeOK
    <2> QED
      BY <2>1, <2>2, <2>3, <2>4
  <1>3. Config!Ready'
    BY <1>2 DEF Config!Ready
  <1>4. /\ count' \in [made : 0..MaxMade, edits : Nat] /\ count'.made = count.made
        /\ touched' \subseteq Weekdays
    BY DEF Config!Configure, Config!Close, Config!EditDay, Config!EditCap, ConfigTypes,
           Config!hoursVars
  <1>5. Config!TypeOK'
    BY <1>1, <1>3 DEF ConfigTypes, Config!TypeOK
  <1>6. ConfigTypes'
    BY <1>1, <1>2, <1>4, <1>5 DEF ConfigTypes
  <1>7. DraftIsRead'
    <2>1. CASE Config!Configure \/ Config!Close \/ Config!EditCap
      <3>1. page'.draft = page.draft /\ touched' = touched
        BY <2>1
           DEF Config!Configure, Config!Close, Config!EditCap, ConfigTypes, AgendaPage,
               Config!hoursVars
      <3> QED
        BY <1>1, <3>1 DEF DraftIsRead
    <2>2. CASE \E d \in Weekdays : Config!EditDay(d)
      <3>1. PICK d \in Weekdays, row \in [on : BOOLEAN, time : BlockTimes] :
               page' = [page EXCEPT !.draft[d] = row] /\ touched' = touched \cup {d}
        BY <2>2 DEF Config!EditDay
      <3>2. page.draft \in [Weekdays -> [on : BOOLEAN, time : BlockTimes]]
        BY DEF ConfigTypes, AgendaPage
      <3>3. page'.draft = [page.draft EXCEPT ![d] = row]
        BY <3>1 DEF ConfigTypes, AgendaPage
      <3>4. \A e \in Weekdays \ {d} : page'.draft[e] = page.draft[e]
        BY <3>2, <3>3
      <3>5. \A b \in seen : b[1] \in Weekdays
        BY DEF ConfigTypes
      <3> QED
        BY <1>1, <3>1, <3>4, <3>5 DEF DraftIsRead
    <2> QED
      BY <2>1, <2>2
  <1>8. LoadsFirst' /\ SentIsRead' /\ Config!UntouchedDaysAreKept'
    BY <1>1, <1>2 DEF LoadsFirst, SentIsRead, Config!UntouchedDaysAreKept
  <1>9. ExceptionsOK' /\ PageShowsOK'
    BY <1>1, <1>2, <1>4, RowsKept, ShownKept
  <1> QED
    BY <1>6, <1>7, <1>8, <1>9

LEMMA SaveStep ==
    ASSUME \/ ConfigInv, Config!Save
           \/ Config!HoursSaved
           \/ Config!BusinessSaved
           \/ Config!SaveFails
    PROVE  ConfigInv'
  <1> USE DEF ConfigInv
  <1>1. UNCHANGED <<exceptions, add, drop, seen, touched, crossed, others, fits, count>>
    BY DEF Config!Save, Config!HoursSaved, Config!BusinessSaved, Config!SaveFails,
           Config!listVars
  <1>2. page.at = "there"
    BY DEF Config!Save, Config!HoursSaved, Config!BusinessSaved, Config!SaveFails,
           LoadsFirst, HoursSent, ConfigTypes, Config!TypeOK, Config!Ready
  <1>3. /\ page' \in AgendaPage
        /\ page'.at = page.at
        /\ page'.business = page.business
        /\ page'.draft = page.draft /\ page'.list = page.list /\ (page'.open => page.open)
    BY DEF Config!Save, Config!HoursSaved, Config!BusinessSaved, Config!SaveFails,
           ConfigTypes, AgendaPage
  <1>4. hours' \subseteq Weekdays \X BlockTimes /\ cap' \in Caps /\ save' \in HoursSent
    <2>1. CASE Config!Save
      <3>1. /\ page.draft \in [Weekdays -> [on : BOOLEAN, time : BlockTimes]]
            /\ page.capField \in Caps
        BY DEF ConfigTypes, AgendaPage
      <3>2. Config!Blocks(page.draft) \subseteq Weekdays \X BlockTimes
        BY <3>1 DEF Config!Blocks
      <3>3. touched \subseteq Weekdays
        BY DEF ConfigTypes
      <3> QED
        BY <2>1, <3>1, <3>2, <3>3 DEF Config!Save, ConfigTypes, Config!TypeOK, HoursSent
    <2>2. CASE Config!HoursSaved
      BY <2>2 DEF Config!HoursSaved, ConfigTypes, Config!TypeOK, HoursSent
    <2>3. Config!NoSave \in HoursSent
      BY ConfigConstants DEF Config!NoSave, HoursSent
    <2>4. CASE Config!BusinessSaved
      BY <2>3, <2>4 DEF Config!BusinessSaved, ConfigTypes, Config!TypeOK, HoursSent
    <2>5. CASE Config!SaveFails
      <3>1. hours' = hours /\ save' = Config!NoSave /\ cap' \in {cap, save.cap}
        BY <2>5 DEF Config!SaveFails
      <3> QED
        BY <2>3, <3>1 DEF ConfigTypes, Config!TypeOK, HoursSent
    <2> QED
      BY <2>1, <2>2, <2>4, <2>5
  <1>5. Config!TypeOK'
    BY <1>1, <1>3, <1>4 DEF ConfigTypes, Config!TypeOK, Config!Ready, HoursSent
  <1>6. ConfigTypes'
    BY <1>1, <1>3, <1>4, <1>5 DEF ConfigTypes
  <1>7. LoadsFirst' /\ DraftIsRead'
    BY <1>1, <1>2, <1>3 DEF LoadsFirst, DraftIsRead
  <1>8. SentIsRead' /\ Config!UntouchedDaysAreKept'
    <2>1. CASE Config!Save
      <3>1. /\ save'.blocks = Config!Blocks(page.draft) /\ save'.touched = touched
            /\ gone' = gone
        BY <2>1 DEF Config!Save
      <3>2. ASSUME NEW b \in seen, b[1] \notin touched
            PROVE  \E c \in seen \cap Config!Blocks(page.draft) : c[1] = b[1]
        <4>1. page.draft[b[1]].on /\ <<b[1], page.draft[b[1]].time>> \in seen
          BY <3>2 DEF DraftIsRead
        <4>2. b[1] \in Weekdays
          BY DEF ConfigTypes
        <4>3. <<b[1], page.draft[b[1]].time>> \in Config!Blocks(page.draft)
          BY <4>1, <4>2 DEF Config!Blocks
        <4> QED
          BY <4>1, <4>3
      <3> QED
        BY <1>1, <3>1, <3>2 DEF SentIsRead, Config!UntouchedDaysAreKept
    <2>2. CASE Config!HoursSaved
      <3>1. /\ save.at = "hours" /\ save'.at = "business"
            /\ gone' = {b \in hours \ save.blocks : b[1] \notin save.touched}
        BY <2>2 DEF Config!HoursSaved, ConfigTypes, HoursSent
      <3>2. ASSUME NEW b \in gone', b \in seen
            PROVE  \E c \in seen \ gone' : c[1] = b[1]
        <4>1. PICK c \in seen \cap save.blocks : c[1] = b[1]
          BY <3>1, <3>2 DEF SentIsRead
        <4> QED
          BY <3>1, <4>1
      <3> QED
        BY <1>1, <3>1, <3>2 DEF SentIsRead, Config!UntouchedDaysAreKept
    <2>3. CASE Config!BusinessSaved \/ Config!SaveFails
      BY <1>1, <2>3
         DEF Config!BusinessSaved, Config!SaveFails, Config!NoSave, SentIsRead,
             Config!UntouchedDaysAreKept
    <2> QED
      BY <2>1, <2>2, <2>3
  <1>9. ExceptionsOK' /\ PageShowsOK'
    BY <1>1, <1>3, RowsKept, ShownKept DEF Config!Ready
  <1> QED
    BY <1>6, <1>7, <1>8, <1>9

\* A step of the closed days leaves the hours alone.
LEMMA HoursKept ==
    ASSUME DraftIsRead, SentIsRead, Config!UntouchedDaysAreKept,
           UNCHANGED <<seen, save, touched, gone>>,
           page'.draft = page.draft
    PROVE  DraftIsRead' /\ SentIsRead' /\ Config!UntouchedDaysAreKept'
  BY DEF DraftIsRead, SentIsRead, Config!UntouchedDaysAreKept

\* One more exception has an id of its own.
LEMMA InsertStep ==
    ASSUME ConfigInv, NEW r \in ExceptionRows, Config!Insert(r),
           UNCHANGED <<drop, page>>, add'.list = add.list
    PROVE  /\ exceptions' \subseteq ExceptionRows /\ exceptions' = exceptions \cup {r}
           /\ count' \in [made : 0..MaxMade, edits : Nat]
           /\ ExceptionsOK'
  <1> USE DEF ConfigInv
  <1>1. /\ count.made < MaxMade /\ r[2] = count.made + 1
        /\ exceptions' = exceptions \cup {r}
        /\ count' = [count EXCEPT !.made = @ + 1]
    BY DEF Config!Insert
  <1>2. count \in [made : 0..MaxMade, edits : Nat] /\ MaxMade \in Nat
    BY ConfigConstants DEF ConfigTypes
  <1>3. /\ count' \in [made : 0..MaxMade, edits : Nat] /\ count.made \in Nat
        /\ count'.made = count.made + 1
    BY <1>1, <1>2
  <1>4. exceptions \subseteq ExceptionRows
    BY DEF ConfigTypes, Config!TypeOK, ExceptionRows
  <1>5. \A q \in ExceptionRows : q[2] \in Nat
    BY ConfigConstants DEF ExceptionRows
  <1>6. /\ \A q \in exceptions \cup page.list \cup add.list : q[2] \in Nat
        /\ \A d \in drop : d.row[2] \in Nat
    BY <1>4, <1>5 DEF ConfigTypes, AgendaPage, DayAdded, DayDropped
  <1>7. \A d \in drop : d.row # r
    BY <1>1, <1>3, <1>6 DEF ExceptionsOK
  <1>8. \A q \in exceptions' \cup page'.list \cup add'.list : q[2] <= count'.made
    BY <1>1, <1>3, <1>6 DEF ExceptionsOK
  <1>9. \A d \in drop' : d.row[2] <= count'.made /\ (d.done => d.row \notin exceptions')
    BY <1>1, <1>3, <1>6, <1>7 DEF ExceptionsOK
  <1> QED
    BY <1>1, <1>3, <1>4, <1>8, <1>9 DEF ExceptionsOK

LEMMA AddStep ==
    ASSUME ConfigInv,
           \/ \E date \in Dates : Config!AddException(date)
           \/ Config!ExceptionCreated
           \/ Config!ReadExceptions
           \/ Config!ExceptionsListed
           \/ Config!AddFails
    PROVE  ConfigInv'
  <1> USE DEF ConfigInv
  <1>1. UNCHANGED <<hours, cap, save, drop, seen, touched, gone>>
    BY DEF Config!AddException, Config!ExceptionCreated, Config!ReadExceptions,
           Config!ExceptionsListed, Config!AddFails, Config!hoursVars
  <1>2. page.at = "there"
    BY DEF Config!AddException, Config!ExceptionCreated, Config!ReadExceptions,
           Config!ExceptionsListed, Config!AddFails, LoadsFirst
  <1>3. /\ page' \in AgendaPage
        /\ page'.at = page.at
        /\ page'.business = page.business
        /\ page'.draft = page.draft /\ page'.open = page.open
    <2>1. add.list \subseteq ExceptionRows
      BY DEF ConfigTypes, DayAdded
    <2> QED
      BY <2>1
         DEF Config!AddException, Config!ExceptionCreated, Config!ReadExceptions,
             Config!ExceptionsListed, Config!AddFails, ConfigTypes, AgendaPage
  <1> DEFINE Rest ==
        /\ exceptions' \subseteq ExceptionRows /\ add' \in DayAdded
        /\ count' \in [made : 0..MaxMade, edits : Nat]
        /\ add'.at = "create" => add'.date \in Dates
        /\ crossed' \in BOOLEAN /\ fits' \in BOOLEAN /\ others' \subseteq ExceptionRows
  <1>4. ASSUME Rest
        PROVE  /\ ConfigTypes'
               /\ LoadsFirst' /\ DraftIsRead' /\ SentIsRead' /\ Config!UntouchedDaysAreKept'
    <2>1. Config!TypeOK'
      BY <1>1, <1>3, <1>4
         DEF ConfigTypes, Config!TypeOK, Config!Ready, DayAdded, ExceptionRows
    <2> QED
      BY <1>1, <1>2, <1>3, <1>4, <2>1, HoursKept DEF LoadsFirst, ConfigTypes
  <1>5. /\ Config!NoAdd \in DayAdded /\ Config!NoAdd.at = "none" /\ Config!NoAdd.list = {}
        /\ exceptions \subseteq ExceptionRows
        /\ count \in [made : 0..MaxMade, edits : Nat]
        /\ crossed \in BOOLEAN /\ fits \in BOOLEAN /\ others \subseteq ExceptionRows
    BY DEF Config!NoAdd, DayAdded, ConfigTypes, Config!TypeOK, ExceptionRows
  <1>6. CASE \E date \in Dates : Config!AddException(date)
    <2>1. PICK date \in Dates : Config!AddException(date)
      BY <1>6
    <2>2. /\ UNCHANGED <<exceptions, crossed, others, fits, page, count>>
          /\ add.at = "none" /\ add'.at = "create" /\ add'.list = {}
          /\ add' \in DayAdded /\ add'.date \in Dates
      BY <2>1, <1>5 DEF Config!AddException, Config!NoAdd, DayAdded
    <2>3. ExceptionsOK' /\ PageShowsOK'
      BY <1>1, <2>2 DEF ExceptionsOK, PageShowsOK, Deleted, Config!Closed
    <2> QED
      BY <1>4, <1>5, <2>2, <2>3
  <1>7. CASE Config!ExceptionCreated
    <2> DEFINE new == <<add.date, count.made + 1, TRUE>>
    <2>1. /\ Config!Insert(new) /\ add.at = "create"
          /\ add'.at = "list" /\ add'.list = add.list /\ add' \in DayAdded
          /\ UNCHANGED <<page, crossed, others, fits>>
      BY <1>7 DEF Config!ExceptionCreated, ConfigTypes, DayAdded
    <2>2. new \in ExceptionRows
      <3>1. count.made < MaxMade /\ count.made \in 0..MaxMade /\ MaxMade \in Nat
        BY <2>1, ConfigConstants DEF Config!Insert, ConfigTypes
      <3>2. add.date \in Dates
        BY <2>1 DEF ConfigTypes
      <3>3. count.made + 1 \in 1..MaxMade
        BY <3>1
      <3> QED
        BY <3>2, <3>3 DEF ExceptionRows
    <2> HIDE DEF new
    <2>3. /\ exceptions' \subseteq ExceptionRows /\ exceptions' = exceptions \cup {new}
          /\ count' \in [made : 0..MaxMade, edits : Nat] /\ ExceptionsOK'
      BY <1>1, <2>1, <2>2, InsertStep
    <2>4. PageShowsOK'
      BY <1>1, <2>1, <2>3 DEF PageShowsOK, Deleted
    <2> QED
      BY <1>4, <1>5, <2>1, <2>3, <2>4
  <1>8. CASE Config!ReadExceptions
    <2>1. PICK rows \in Config!FirstRows(exceptions) :
             add' = [add EXCEPT !.at = "answer", !.list = Config!Shown(rows),
                                !.fits = Config!AllFit]
      BY <1>8 DEF Config!ReadExceptions
    <2>2. UNCHANGED <<exceptions, crossed, others, fits, page, count>>
      BY <1>8 DEF Config!ReadExceptions
    <2>3. /\ Config!Shown(rows) \subseteq Config!Closed
          /\ Config!AllFit => Config!Shown(rows) = Config!Closed
          /\ Config!Closed \subseteq exceptions /\ \A r \in Config!Closed : r[3]
          /\ Config!AllFit \in BOOLEAN
      BY ListBrings DEF Config!Closed, Config!AllFit
    <2>4. /\ add'.at = "answer" /\ add'.list = Config!Shown(rows)
          /\ add'.fits = Config!AllFit /\ add' \in DayAdded
      BY <1>5, <2>1, <2>3 DEF ConfigTypes, DayAdded
    <2>5. ExceptionsOK'
      BY <1>1, <2>2, <2>3, <2>4 DEF ExceptionsOK
    <2>6. Config!Closed' = Config!Closed
      BY <2>2 DEF Config!Closed
    <2>7. PageShowsOK'
      BY <1>1, <2>2, <2>3, <2>4, <2>6 DEF PageShowsOK, Deleted
    <2> QED
      BY <1>4, <1>5, <2>2, <2>4, <2>5, <2>7
  <1>9. CASE Config!ExceptionsListed
    <2>1. /\ UNCHANGED <<exceptions, count>> /\ add' = Config!NoAdd
          /\ add.at = "answer" /\ page'.list = add.list
          /\ others' = add.since /\ fits' = add.fits
          /\ crossed' = \E r \in (add.list \ exceptions) \ add.since : ~Deleted(r)
      BY <1>9 DEF Config!ExceptionsListed, ConfigTypes, AgendaPage, Deleted
    <2>2. add.since \subseteq ExceptionRows /\ add.fits \in BOOLEAN /\ crossed' \in BOOLEAN
      BY <2>1 DEF ConfigTypes, DayAdded
    <2>3. ExceptionsOK'
      BY <1>1, <1>5, <2>1 DEF ExceptionsOK
    <2>4. \A r : Deleted(r)' <=> Deleted(r)
      BY <1>1 DEF Deleted
    <2>5. PageShowsOK'
      <3>1. Config!Closed' = Config!Closed
        BY <2>1 DEF Config!Closed
      <3>2. ~crossed' => \A r \in page'.list : r \in exceptions' \/ Deleted(r)' \/ r \in others'
        BY <2>1, <2>4
      <3> QED
        BY <1>5, <2>1, <3>1, <3>2 DEF PageShowsOK
    <2> QED
      BY <1>4, <1>5, <2>1, <2>2, <2>3, <2>5
  <1>10. CASE Config!AddFails
    <2>1. /\ UNCHANGED <<exceptions, others, fits, page, count>> /\ add' = Config!NoAdd
          /\ (~crossed' => ~crossed /\ add.at \in {"none", "create"})
          /\ crossed' = (crossed \/ add.at # "create")
      BY <1>10 DEF Config!AddFails
    <2>2. ExceptionsOK'
      BY <1>1, <1>5, <2>1 DEF ExceptionsOK
    <2>3. PageShowsOK'
      BY <1>1, <1>5, <2>1 DEF PageShowsOK, Deleted, Config!Closed
    <2> QED
      BY <1>4, <1>5, <2>1, <2>2, <2>3
  <1> QED
    BY <1>6, <1>7, <1>8, <1>9, <1>10

\* Others close and open days: what changed is known as theirs.
LEMMA OtherUsersStep ==
    ASSUME ConfigInv,
           \E r \in ExceptionRows : Config!OtherAdds(r) \/ Config!OtherDeletes(r)
    PROVE  ConfigInv'
  <1> USE DEF ConfigInv
  <1>1. PICK r \in ExceptionRows : Config!OtherAdds(r) \/ Config!OtherDeletes(r)
    OBVIOUS
  <1>2. Config!ChangedByOthers(r)
    BY <1>1 DEF Config!OtherAdds, Config!OtherDeletes
  <1>3. /\ UNCHANGED <<hours, cap, save, seen, touched, gone, drop, crossed, fits, page>>
        /\ others' = others \cup Config!Shown({r}) /\ Config!Shown({r}) \subseteq {r}
        /\ r[3] => Config!Shown({r}) = {r}
    BY <1>2 DEF Config!ChangedByOthers, Config!hoursVars, Config!Shown
  <1>4. /\ add' \in DayAdded /\ add'.at = add.at /\ add'.list = add.list
        /\ add'.date = add.date /\ add'.fits = add.fits /\ add.since \subseteq add'.since
        /\ add.at = "answer" => add'.since = add.since \cup Config!Shown({r})
    BY <1>2, <1>3 DEF Config!ChangedByOthers, ConfigTypes, DayAdded
  <1>5. /\ exceptions' \subseteq ExceptionRows
        /\ exceptions' \subseteq exceptions \cup {r} /\ exceptions \subseteq exceptions' \cup {r}
        /\ count' \in [made : 0..MaxMade, edits : Nat]
        /\ ExceptionsOK'
    <2>1. CASE Config!OtherAdds(r)
      <3>1. Config!Insert(r)
        BY <2>1 DEF Config!OtherAdds
      <3> QED
        BY <1>3, <1>4, <3>1, InsertStep
    <2>2. CASE Config!OtherDeletes(r)
      <3>1. exceptions' = exceptions \ {r} /\ count' = count
        BY <2>2 DEF Config!OtherDeletes
      <3> QED
        BY <1>3, <1>4, <3>1
           DEF ConfigTypes, Config!TypeOK, ExceptionRows, ExceptionsOK
    <2> QED
      BY <1>1, <2>1, <2>2
  <1>6. ConfigTypes'
    <2>1. Config!TypeOK'
      BY <1>3, <1>4, <1>5 DEF ConfigTypes, Config!TypeOK, Config!Ready, ExceptionRows
    <2> QED
      BY <1>3, <1>4, <1>5, <2>1 DEF ConfigTypes
  <1>7. LoadsFirst' /\ DraftIsRead' /\ SentIsRead' /\ Config!UntouchedDaysAreKept'
    BY <1>3, <1>4, HoursKept DEF LoadsFirst
  <1>8. \A q \in page.list \cup add.list : q[3]
    BY DEF ExceptionsOK
  <1>9. Config!Closed' \subseteq Config!Closed \cup Config!Shown({r})
    BY <1>5 DEF Config!Closed, Config!Shown
  <1>10. \A q : Deleted(q)' <=> Deleted(q)
    BY <1>3 DEF Deleted
  <1>11. PageShowsOK'
    <2>1. ASSUME page'.at # "asked", ~crossed', NEW q \in page'.list
          PROVE  q \in exceptions' \/ Deleted(q)' \/ q \in others'
      BY <1>3, <1>5, <1>8, <1>10, <2>1 DEF PageShowsOK
    <2>2. ASSUME page'.at # "asked", ~crossed', fits', add'.at \in {"none", "create"}
          PROVE  Config!Closed' \subseteq page'.list \cup others'
      BY <1>3, <1>4, <1>9, <2>2 DEF PageShowsOK
    <2>3. ASSUME add'.at = "answer", add'.fits
          PROVE  Config!Closed' \subseteq add'.list \cup add'.since
      BY <1>4, <1>9, <2>3 DEF PageShowsOK
    <2> QED
      BY <2>1, <2>2, <2>3 DEF PageShowsOK
  <1> QED
    BY <1>5, <1>6, <1>7, <1>11

LEMMA DropStep ==
    ASSUME ConfigInv,
           \/ \E e \in page.list : Config!DeleteException(e)
           \/ \E d \in drop :
                 \/ Config!ExceptionDeleted(d)
                 \/ Config!DeleteAnswered(d)
                 \/ Config!DeleteFails(d)
    PROVE  ConfigInv'
  <1> USE DEF ConfigInv
  <1>1. UNCHANGED <<hours, cap, save, add, seen, touched, gone, count, others, fits>>
    BY DEF Config!DeleteException, Config!ExceptionDeleted, Config!DeleteAnswered,
           Config!DeleteFails, Config!hoursVars
  <1>2. page.at = "there"
    BY DEF Config!DeleteException, LoadsFirst
  <1>3. /\ page' \in AgendaPage
        /\ page'.at = page.at
        /\ page'.business = page.business
        /\ page'.draft = page.draft
        /\ page'.open = page.open
        /\ page'.list \subseteq page.list
    BY DEF Config!DeleteException, Config!ExceptionDeleted, Config!DeleteAnswered,
           Config!DeleteFails, ConfigTypes, AgendaPage
  <1>4. drop' \subseteq DayDropped /\ exceptions' \subseteq exceptions /\ crossed' \in BOOLEAN
    <2>1. CASE \E e \in page.list : Config!DeleteException(e)
      <3>1. PICK e \in page.list : drop' = drop \cup {[row |-> e, done |-> FALSE]}
        BY <2>1 DEF Config!DeleteException
      <3>2. exceptions' = exceptions /\ crossed' = crossed
        BY <2>1 DEF Config!DeleteException
      <3>3. e \in ExceptionRows
        BY DEF ConfigTypes, AgendaPage
      <3>4. [row |-> e, done |-> FALSE] \in DayDropped
        BY <3>3 DEF DayDropped
      <3> QED
        BY <3>1, <3>2, <3>4 DEF ConfigTypes
    <2>2. CASE \E d \in drop :
                  \/ Config!ExceptionDeleted(d)
                  \/ Config!DeleteAnswered(d)
                  \/ Config!DeleteFails(d)
      BY <2>2
         DEF Config!ExceptionDeleted, Config!DeleteAnswered, Config!DeleteFails,
             ConfigTypes, DayDropped
    <2> QED
      BY <2>1, <2>2
  <1>5. Config!TypeOK'
    BY <1>1, <1>3, <1>4 DEF ConfigTypes, Config!TypeOK, Config!Ready
  <1>6. ConfigTypes'
    BY <1>1, <1>3, <1>4, <1>5 DEF ConfigTypes
  <1>7. LoadsFirst' /\ DraftIsRead' /\ SentIsRead' /\ Config!UntouchedDaysAreKept'
    BY <1>1, <1>2, <1>3, HoursKept DEF LoadsFirst
  <1>8. Config!Closed' \subseteq Config!Closed
    BY <1>4 DEF Config!Closed
  <1>9. CASE \E e \in page.list : Config!DeleteException(e)
    <2>1. PICK e \in page.list : drop' = drop \cup {[row |-> e, done |-> FALSE]}
      BY <1>9 DEF Config!DeleteException
    <2>2. UNCHANGED <<exceptions, crossed, page>>
      BY <1>9 DEF Config!DeleteException
    <2>3. ExceptionsOK'
      BY <1>1, <2>1, <2>2 DEF ExceptionsOK
    <2>4. \A r : Deleted(r) => Deleted(r)'
      BY <2>1 DEF Deleted
    <2>5. PageShowsOK'
      BY <1>1, <1>8, <2>2, <2>4 DEF PageShowsOK
    <2> QED
      BY <1>6, <1>7, <2>3, <2>5
  <1>10. ASSUME NEW d \in drop, Config!ExceptionDeleted(d)
         PROVE  ConfigInv'
    <2> DEFINE done == [d EXCEPT !.done = TRUE]
    <2>1. /\ ~d.done /\ d.row \in exceptions /\ exceptions' = exceptions \ {d.row}
          /\ drop' = (drop \ {d}) \cup {done} /\ UNCHANGED <<page, crossed>>
      BY <1>10 DEF Config!ExceptionDeleted
    <2>2. d \in DayDropped
      BY DEF ConfigTypes
    <2>3. done = [row |-> d.row, done |-> TRUE] /\ done.row = d.row /\ done.done
      <3>1. done \in DayDropped /\ done.row = d.row /\ done.done = TRUE
        BY <2>2 DEF DayDropped
      <3> HIDE DEF done
      <3> QED
        BY <3>1 DEF DayDropped
    <2> HIDE DEF done
    <2>4. ExceptionsOK'
      BY <1>1, <2>1, <2>3 DEF ExceptionsOK
    <2>5. \A r : Deleted(r) => Deleted(r)'
      BY <2>1 DEF Deleted
    <2>6. Deleted(d.row)'
      BY <2>1, <2>3 DEF Deleted
    <2>7. PageShowsOK'
      BY <1>1, <1>8, <2>1, <2>5, <2>6 DEF PageShowsOK
    <2> QED
      BY <1>6, <1>7, <2>4, <2>7
  <1>11. ASSUME NEW d \in drop, Config!DeleteAnswered(d)
         PROVE  ConfigInv'
    <2>1. /\ d.done /\ page'.list = page.list \ {d.row} /\ drop' = drop \ {d}
          /\ UNCHANGED <<exceptions, crossed>>
      BY <1>11 DEF Config!DeleteAnswered, ConfigTypes, AgendaPage
    <2>2. d.row \notin exceptions /\ d.row \notin Config!Closed
      BY <2>1 DEF ExceptionsOK, Config!Closed
    <2>3. ExceptionsOK'
      BY <1>1, <2>1 DEF ExceptionsOK
    <2>4. \A r : Deleted(r) /\ r # d.row => Deleted(r)'
      BY <2>1 DEF Deleted
    <2>5. PageShowsOK'
      BY <1>1, <1>2, <1>8, <2>1, <2>2, <2>4 DEF PageShowsOK
    <2> QED
      BY <1>6, <1>7, <2>3, <2>5
  <1>12. ASSUME NEW d \in drop, Config!DeleteFails(d)
         PROVE  ConfigInv'
    <2>1. /\ drop' = drop \ {d} /\ (~crossed' => ~crossed /\ ~d.done)
          /\ UNCHANGED <<exceptions, page>>
      BY <1>12 DEF Config!DeleteFails
    <2>2. ExceptionsOK'
      BY <1>1, <2>1 DEF ExceptionsOK
    <2>3. ~d.done => \A r : Deleted(r) => Deleted(r)'
      BY <2>1 DEF Deleted
    <2>4. PageShowsOK'
      BY <1>1, <1>8, <2>1, <2>3 DEF PageShowsOK
    <2> QED
      BY <1>6, <1>7, <2>2, <2>4
  <1> QED
    BY <1>9, <1>10, <1>11, <1>12

LEMMA ConfigNext == ConfigInv /\ [Config!Next]_(Config!vars) => ConfigInv'
  <1> SUFFICES ASSUME ConfigInv, [Config!Next]_(Config!vars)
               PROVE  ConfigInv'
    OBVIOUS
  <1>1. CASE Config!ListsRead \/ Config!Loaded \/ Config!LoadFails
    BY <1>1, LoadStep
  <1>2. CASE \/ Config!Configure
             \/ Config!Close
             \/ (\E d \in Weekdays : Config!EditDay(d))
             \/ Config!EditCap
    BY <1>2, EditStep
  <1>3. CASE Config!Save \/ Config!HoursSaved \/ Config!BusinessSaved \/ Config!SaveFails
    BY <1>3, SaveStep
  <1>4. CASE \/ \E date \in Dates : Config!AddException(date)
             \/ Config!ExceptionCreated
             \/ Config!ReadExceptions
             \/ Config!ExceptionsListed
             \/ Config!AddFails
    BY <1>4, AddStep
  <1>5. CASE \/ \E e \in page.list : Config!DeleteException(e)
             \/ \E d \in drop :
                   \/ Config!ExceptionDeleted(d)
                   \/ Config!DeleteAnswered(d)
                   \/ Config!DeleteFails(d)
    BY <1>5, DropStep
  <1>7. CASE \E r \in ExceptionRows : Config!OtherAdds(r) \/ Config!OtherDeletes(r)
    BY <1>7, OtherUsersStep
  <1>6. CASE UNCHANGED Config!vars
    BY <1>6
       DEF Config!vars, Config!hoursVars, Config!listVars, Config!Closed, ConfigInv, ConfigTypes, Config!TypeOK, Config!Ready, LoadsFirst,
           DraftIsRead, SentIsRead, Config!UntouchedDaysAreKept, ExceptionsOK,
           PageShowsOK, Deleted
  <1> QED
    BY <1>1, <1>2, <1>3, <1>4, <1>5, <1>6, <1>7 DEF Config!Next, ExceptionRows

LEMMA ConfigImplies ==
    ASSUME ConfigInv
    PROVE  Config!TypeOK /\ Config!UntouchedDaysAreKept /\ Config!ClosedDaysAreShown
  <1>1. Config!ClosedDaysAreShown
    <2> SUFFICES ASSUME Config!Quiet, Config!Ready, ~crossed
                 PROVE  /\ page.list \ Config!Closed \subseteq others
                        /\ fits => Config!Closed \ page.list \subseteq others
      BY DEF Config!ClosedDaysAreShown
    <2>1. add.at = "none" /\ drop = {} /\ page.at = "there"
      BY DEF Config!Quiet, Config!Ready
    <2> QED
      BY <2>1 DEF ConfigInv, PageShowsOK, Deleted, ExceptionsOK, Config!Closed
  <1> QED
    BY <1>1 DEF ConfigInv, ConfigTypes

\* The invariant, of the page and of its part in the panel.
LEMMA ConfigAlways ==
    /\ Config!Spec => []ConfigInv
    /\ StaffSpec => [](part = "config" => ConfigInv)
  <1> DEFINE Inv == part = "config" => ConfigInv
  <1>1. Config!Spec => []ConfigInv
    BY ConfigInit, ConfigNext, PTL DEF Config!Spec
  <1>2. StaffInit => Inv
    BY ConfigInit DEF StaffInit
  <1>3. Inv /\ [StaffNext]_StaffVars => Inv'
    BY ConfigNext, ConfigMoves
  <1>4. StaffSpec => []Inv
    BY <1>2, <1>3, PTL DEF StaffSpec
  <1> QED
    BY <1>1, <1>4

\* Saving removes from a day that was not edited only what the form could not hold: the
\* draft of such a day is one of its blocks, when the page read them and when it sends
\* them (agenda-page.tsx:157-169, 260-278, 459-485).
THEOREM UntouchedKept ==
    /\ Config!Spec => []Config!UntouchedDaysAreKept
    /\ StaffSpec => []UntouchedDaysAreKept
  <1>1. ConfigInv => Config!UntouchedDaysAreKept
    BY ConfigImplies
  <1>2. (part = "config" => ConfigInv) => UntouchedDaysAreKept
    BY <1>1 DEF UntouchedDaysAreKept
  <1> QED
    BY <1>1, <1>2, ConfigAlways, PTL

\* Every day the page shows as closed is closed for the business, and all of them are
\* shown if the list it last read had room for every exception there was, whatever order
\* additions and deletions are answered in, but for what others changed since that list
\* was read (agenda-page.tsx:260-272, 495-534).
THEOREM ClosedShown ==
    /\ Config!Spec => []Config!ClosedDaysAreShown
    /\ StaffSpec => []ClosedDaysAreShown
  <1>1. ConfigInv => Config!ClosedDaysAreShown
    BY ConfigImplies
  <1>2. (part = "config" => ConfigInv) => ClosedDaysAreShown
    BY <1>1 DEF ClosedDaysAreShown
  <1> QED
    BY <1>1, <1>2, ConfigAlways, PTL

\* The hours, the closed days and the form keep their types.
LEMMA ConfigTyped == StaffSpec => [](part = "config" => Config!TypeOK)
  <1>1. ConfigInv => Config!TypeOK
    BY ConfigImplies
  <1> QED
    BY <1>1, ConfigAlways, PTL

-----------------------------------------------------------------------------
(* The list of appointments (AppointmentsPage) *)

\* What is asked for, and what can be answered.
Asked == (Statuses \cup {None}) \X (Nat \ {0})

Answers ==
    [rows : UNION {[A -> Statuses \cup {None}] : A \in SUBSET Appts},
     total : 0..Cardinality(Appts)]

ListRequest ==
    [pc : {"idle", "sent", "read"}, q : Asked \cup {None}, old : BOOLEAN, res : Answers]

RowChange ==
    [pc : {"idle", "sent", "done"}, kind : Citas!Kinds, id : Appts \cup {None},
     to : Statuses \cup {None}, q : Asked \cup {None}]

CitasTypes ==
    /\ Citas!TypeOK
    /\ shown \in Answers /\ last \in Requests
    /\ loads \in [Requests -> ListRequest]
    /\ calls \in [Requests -> RowChange]
    /\ marked \in [Citas!Kinds -> Appts \cup {None}]
    /\ \A c \in Requests :
          calls[c].pc # "idle" => calls[c].id \in Appts /\ calls[c].to \in Statuses

\* The page asked for, as the server has it now.
Wanted == Citas!Result(<<filter, page>>)

\* Every change that was made was answered.
Settled == \A c \in Requests : calls[c].pc # "done"

\* The request made last is for the page asked for, and was answered with what
\* the server has unless a change is still to be told of.
LastOK ==
    loads[last].pc # "idle" /\ ~loads[last].old =>
        /\ loads[last].q = <<filter, page>>
        /\ loads[last].pc = "read" /\ Settled => loads[last].res = Wanted

\* When it was answered, and nothing excuses the list, the list is its answer.
ShownOK == Settled /\ excused = {} /\ loads[last].pc = "idle" => shown = Wanted

CitasInv == CitasTypes /\ LastOK /\ ShownOK

\* Finiteness and the number of elements mean the same in the page and here.
LEMMA CitasCardinality ==
    \A S : /\ Citas!IsFiniteSet(S) <=> IsFiniteSet(S)
          /\ Citas!Cardinality(S) = Cardinality(S)
  BY DEF Citas!IsFiniteSet, IsFiniteSet, Citas!Cardinality, Cardinality

\* The appointments are finitely many.
LEMMA CitasConstants ==
    IsFiniteSet(Appts) /\ "confirmed" \in Statuses
  BY StaffAssumption, CitasCardinality DEF Citas!AppointmentsPageAssumption

\* A step of the panel is a step of this page or none, if the page is in play.
LEMMA CitasMoves ==
    ASSUME [StaffNext]_StaffVars, part' = "appointments"
    PROVE  part = "appointments" /\ [Citas!Next]_(Citas!vars)
  <1>1. CASE UNCHANGED StaffVars
    BY <1>1 DEF StaffVars, Citas!vars, Citas!ui, Citas!view
  <1>2. CASE StaffNext
    BY <1>2 DEF StaffNext, AgendaStep, ConfigStep, CitasStep, ModalStep, ClientesStep
  <1> QED
    BY <1>1, <1>2

LEMMA ResultIsAnswer ==
    ASSUME status \in [Appts -> Statuses \cup {None}], NEW q
    PROVE  Citas!Result(q) \in Answers
  <1> DEFINE all == Citas!Matching(q[1])
             row == {a \in all : Cardinality({b \in all : b <= a}) = q[2]}
  <1>1. all \subseteq Appts /\ row \subseteq Appts
    BY DEF Citas!Matching
  <1>2. Cardinality(all) \in 0..Cardinality(Appts)
    <2>1. IsFiniteSet(Appts)
      BY CitasConstants
    <2>2. IsFiniteSet(all) /\ Cardinality(all) <= Cardinality(Appts)
      BY <1>1, <2>1, FS_Subset
    <2>3. Cardinality(all) \in Nat /\ Cardinality(Appts) \in Nat
      BY <2>1, <2>2, FS_CardinalityType
    <2> QED
      BY <2>2, <2>3
  <1>3. Citas!Result(q) = [rows |-> [a \in row |-> status[a]], total |-> Cardinality(all)]
    BY CitasCardinality DEF Citas!Result
  <1> HIDE DEF all, row
  <1>4. [a \in row |-> status[a]] \in [row -> Statuses \cup {None}]
    BY <1>1
  <1>5. [a \in row |-> status[a]] \in UNION {[A -> Statuses \cup {None}] : A \in SUBSET Appts}
    BY <1>1, <1>4
  <1> QED
    BY <1>2, <1>3, <1>5 DEF Answers

LEMMA EmptyIsAnswer == Citas!Empty \in Answers /\ Citas!NoLoad \in ListRequest
  <1>1. [a \in {} |-> None] \in [{} -> Statuses \cup {None}] /\ {} \in SUBSET Appts
    OBVIOUS
  <1>2. [a \in {} |-> None] \in UNION {[A -> Statuses \cup {None}] : A \in SUBSET Appts}
    BY <1>1
  <1>3. IsFiniteSet(Appts)
    BY CitasConstants
  <1>4. 0 \in 0..Cardinality(Appts)
    BY <1>3, FS_CardinalityType
  <1>5. Citas!Empty \in Answers
    BY <1>2, <1>4, FS_EmptySet DEF Citas!Empty, Answers
  <1> QED
    BY <1>5 DEF Citas!NoLoad, ListRequest

\* What a page of the list has of the appointments.
LEMMA AnswerHolds ==
    ASSUME NEW r \in Answers
    PROVE  /\ DOMAIN r.rows \subseteq Appts
           /\ r.total <= Cardinality(Appts)
           /\ r.total \in Nat
  <1>1. PICK A \in SUBSET Appts : r.rows \in [A -> Statuses \cup {None}]
    BY DEF Answers
  <1>2. IsFiniteSet(Appts)
    BY CitasConstants
  <1>3. Cardinality(Appts) \in Nat /\ r.total \in 0..Cardinality(Appts)
    BY <1>2, FS_CardinalityType DEF Answers
  <1> QED
    BY <1>1, <1>3

LEMMA CitasInit == Citas!Init => CitasInv
  <1> SUFFICES ASSUME Citas!Init
               PROVE  CitasInv
    OBVIOUS
  <1>1. PICK f \in Requests :
           /\ last = f
           /\ loads = [g \in Requests |-> IF g = f
                        THEN [Citas!NoLoad EXCEPT !.pc = "sent", !.q = <<None, 1>>] ELSE Citas!NoLoad]
    BY DEF Citas!Init
  <1> DEFINE first == [Citas!NoLoad EXCEPT !.pc = "sent", !.q = <<None, 1>>]
  <1>8. <<None, 1>> \in Asked
    BY DEF Asked
  <1>2. /\ first \in ListRequest /\ first.pc = "sent" /\ first.q = <<None, 1>>
    BY <1>8, EmptyIsAnswer DEF ListRequest
  <1> HIDE DEF first
  <1>3. loads \in [Requests -> ListRequest] /\ loads[last] = first
    BY <1>1, <1>2, EmptyIsAnswer DEF first
  <1>4. calls \in [Requests -> RowChange] /\ \A c \in Requests : calls[c].pc = "idle"
    BY DEF Citas!Init, Citas!NoCall, RowChange, Citas!Kinds
  <1>5. shown \in Answers
    BY EmptyIsAnswer DEF Citas!Init
  <1>6. Citas!TypeOK
    BY <1>5, AnswerHolds, CitasCardinality DEF Citas!Init, Citas!TypeOK
  <1>7. CitasTypes
    BY <1>1, <1>3, <1>4, <1>5, <1>6 DEF Citas!Init, CitasTypes
  <1> QED
    BY <1>2, <1>3, <1>7 DEF Citas!Init, CitasInv, LastOK, ShownOK

\* A request made last that is for the page asked for, or is not the one that counts.
LEMMA NewLast ==
    ASSUME loads'[last'].pc = "sent",
           loads'[last'].old \/ loads'[last'].q = <<filter', page'>>
    PROVE  LastOK' /\ ShownOK'
  BY DEF LastOK, ShownOK

\* load() is typed, whatever it asks for.
LEMMA LoadStarts ==
    ASSUME CitasTypes, NEW f \in Requests, NEW q \in Asked \cup {None}, NEW now,
           Citas!Load(f, q, now)
    PROVE  /\ loads' \in [Requests -> ListRequest] /\ last' \in Requests
           /\ loads'[last'].pc = "sent"
           /\ loads'[last'].q = q /\ loads'[last'].old = (q # now)
  <1> DEFINE new == [Citas!NoLoad EXCEPT !.pc = "sent", !.q = q, !.old = q # now]
  <1>1. new \in ListRequest /\ new.pc = "sent" /\ new.q = q /\ new.old = (q # now)
    BY EmptyIsAnswer DEF Citas!NoLoad, ListRequest
  <1>2. loads' = [loads EXCEPT ![f] = new] /\ last' = f
    BY DEF Citas!Load
  <1> HIDE DEF new
  <1> QED
    BY <1>1, <1>2 DEF CitasTypes

\* Nothing of a step touches the changes in flight.
LEMMA TypesKept ==
    ASSUME CitasTypes, UNCHANGED <<status, marked, calls>>,
           loads' \in [Requests -> ListRequest], last' \in Requests, shown' \in Answers,
           filter' \in Statuses \cup {None}, page' \in Nat \ {0},
           excused' \subseteq {"order", "unheard"}
    PROVE  CitasTypes'
  <1>1. Citas!TypeOK'
    BY AnswerHolds, CitasCardinality DEF CitasTypes, Citas!TypeOK
  <1> QED
    BY <1>1 DEF CitasTypes

LEMMA AnswerStep ==
    ASSUME \/ CitasInv, NEW f \in Requests, Citas!ReadList(f)
           \/ Citas!ListAnswered(f)
           \/ Citas!ListFails(f)
    PROVE  CitasInv'
  <1> USE DEF CitasInv
  <1>1. UNCHANGED <<status, filter, page, marked, last, calls>>
    BY DEF Citas!ReadList, Citas!ListAnswered, Citas!ListFails, Citas!ui
  <1>2. Wanted' = Wanted /\ Settled' = Settled
    BY <1>1 DEF Wanted, Citas!Result, Citas!Matching, Settled
  <1>3. CASE Citas!ReadList(f)
    <2> DEFINE read == [loads[f] EXCEPT !.pc = "read", !.res = Citas!Result(loads[f].q)]
    <2>1. loads[f] \in ListRequest /\ Citas!Result(loads[f].q) \in Answers
      BY ResultIsAnswer DEF CitasTypes, Citas!TypeOK
    <2>2. /\ read \in ListRequest /\ read.pc = "read" /\ read.res = Citas!Result(loads[f].q)
          /\ read.q = loads[f].q /\ read.old = loads[f].old
      BY <2>1 DEF ListRequest
    <2>3. loads' = [loads EXCEPT ![f] = read] /\ loads[f].pc = "sent"
          /\ UNCHANGED <<shown, excused>>
      BY <1>3, <2>1 DEF Citas!ReadList, Citas!view, ListRequest, CitasTypes
    <2> HIDE DEF read
    <2>4. loads' \in [Requests -> ListRequest]
      BY <2>2, <2>3 DEF CitasTypes
    <2>5. CitasTypes'
      BY <1>1, <2>3, <2>4, TypesKept DEF CitasTypes, Citas!TypeOK
    <2>6. CASE f = last
      <3>1. loads'[last] = read
        BY <2>3, <2>6 DEF CitasTypes
      <3> QED
        BY <1>1, <1>2, <2>2, <2>3, <2>5, <2>6, <3>1 DEF LastOK, ShownOK, Wanted
    <2>7. CASE f # last
      <3>1. loads'[last] = loads[last]
        BY <2>3, <2>7 DEF CitasTypes
      <3> QED
        BY <1>1, <1>2, <2>3, <2>5, <3>1 DEF LastOK, ShownOK
    <2> QED
      BY <2>6, <2>7
  <1>4. CASE Citas!ListAnswered(f)
    <2>1. /\ loads[f].pc = "read" /\ shown' = loads[f].res
          /\ loads' = [loads EXCEPT ![f] = Citas!NoLoad]
          /\ excused' = IF f = last /\ ~loads[f].old THEN {} ELSE excused \cup {"order"}
      BY <1>4 DEF Citas!ListAnswered
    <2>2. loads' \in [Requests -> ListRequest] /\ shown' \in Answers
      BY <2>1, EmptyIsAnswer DEF CitasTypes, ListRequest
    <2>3. excused' \subseteq {"order", "unheard"}
      BY <2>1 DEF CitasTypes, Citas!TypeOK
    <2>4. CitasTypes'
      BY <1>1, <2>2, <2>3, TypesKept DEF CitasTypes, Citas!TypeOK
    <2>5. CASE f = last
      <3>1. loads'[last].pc = "idle"
        BY <2>1, <2>5 DEF CitasTypes, Citas!NoLoad
      <3>2. ~loads[f].old /\ Settled => shown' = Wanted
        BY <2>1, <2>5 DEF LastOK
      <3> QED
        BY <1>1, <1>2, <2>1, <2>4, <3>1, <3>2 DEF LastOK, ShownOK
    <2>6. CASE f # last
      <3>1. loads'[last] = loads[last]
        BY <2>1, <2>6 DEF CitasTypes
      <3> QED
        BY <1>1, <1>2, <2>1, <2>4, <2>6, <3>1 DEF LastOK, ShownOK
    <2> QED
      BY <2>5, <2>6
  <1>5. CASE Citas!ListFails(f)
    <2>1. /\ loads' = [loads EXCEPT ![f] = Citas!NoLoad] /\ shown' = shown
          /\ excused' = excused \cup {"unheard"}
      BY <1>5 DEF Citas!ListFails
    <2>2. loads' \in [Requests -> ListRequest]
      BY <2>1, EmptyIsAnswer DEF CitasTypes
    <2>3. CitasTypes'
      BY <1>1, <2>1, <2>2, TypesKept DEF CitasTypes, Citas!TypeOK
    <2>4. loads'[last] = loads[last] \/ loads'[last].pc = "idle"
      BY <2>1 DEF CitasTypes, Citas!NoLoad
    <2> QED
      BY <1>1, <1>2, <2>1, <2>3, <2>4 DEF LastOK, ShownOK
  <1> QED
    BY <1>3, <1>4, <1>5

LEMMA PageStep ==
    ASSUME \/ CitasInv, (\E f \in Statuses \cup {None} : Citas!Filter(f))
           \/ \E p \in Appts : Citas!GoTo(p)
    PROVE  CitasInv'
  <1> USE DEF CitasInv
  <1>1. UNCHANGED <<status, shown, marked, calls, excused>>
    BY DEF Citas!Filter, Citas!GoTo
  <1>2. /\ filter' \in Statuses \cup {None} /\ page' \in Nat \ {0}
        /\ Citas!LoadIfNew(<<filter', page'>>)
    <2>1. CASE \E f \in Statuses \cup {None} : Citas!Filter(f)
      BY <2>1 DEF Citas!Filter
    <2>2. CASE \E p \in Appts : Citas!GoTo(p)
      <3>1. PICK p : /\ page' = p /\ Citas!LoadIfNew(<<filter, p>>) /\ filter' = filter
                     /\ (p = page - 1 /\ p >= 1) \/ p = page + 1
        BY <2>2 DEF Citas!GoTo
      <3>2. page \in Nat \ {0} /\ filter \in Statuses \cup {None}
        BY DEF CitasTypes, Citas!TypeOK
      <3> QED
        BY <3>1, <3>2
    <2> QED
      BY <2>1, <2>2
  <1>3. CASE <<filter', page'>> = <<filter, page>>
    <2>1. filter' = filter /\ page' = page /\ UNCHANGED <<loads, last>>
      BY <1>2, <1>3 DEF Citas!LoadIfNew
    <2>2. Wanted' = Wanted /\ Settled' = Settled
      BY <1>1, <2>1 DEF Wanted, Citas!Result, Citas!Matching, Settled
    <2>3. CitasTypes'
      BY <1>1, <1>2, <2>1, TypesKept DEF CitasTypes, Citas!TypeOK
    <2> QED
      BY <1>1, <2>1, <2>2, <2>3 DEF LastOK, ShownOK
  <1>4. CASE <<filter', page'>> # <<filter, page>>
    <2>1. PICK f \in Requests : Citas!Load(f, <<filter', page'>>, <<filter', page'>>)
      BY <1>2, <1>4 DEF Citas!LoadIfNew
    <2>2. <<filter', page'>> \in Asked
      BY <1>2 DEF Asked
    <2>3. /\ loads' \in [Requests -> ListRequest] /\ last' \in Requests
          /\ loads'[last'].pc = "sent" /\ loads'[last'].q = <<filter', page'>>
      BY <2>1, <2>2, LoadStarts
    <2>4. CitasTypes'
      BY <1>1, <1>2, <2>3, TypesKept DEF CitasTypes, Citas!TypeOK
    <2> QED
      BY <2>3, <2>4, NewLast
  <1> QED
    BY <1>3, <1>4

\* A row that is marked has its change in flight, and keeps it.
LEMMA CallStarts ==
    ASSUME CitasTypes, NEW k \in Citas!Kinds, NEW a \in Appts, NEW to \in Statuses,
           Citas!Send(k, a, to)
    PROVE  CitasTypes' /\ (Settled' => Settled)
  <1>1. PICK c \in Requests :
           /\ calls[c].pc = "idle"
           /\ calls' = [calls EXCEPT ![c] = [pc |-> "sent", kind |-> k, id |-> a, to |-> to,
                                             q |-> <<filter, page>>]]
    BY DEF Citas!Send
  <1>2. /\ marked' = [marked EXCEPT ![k] = a]
        /\ UNCHANGED <<status, filter, page, shown, loads, last, excused>>
    BY DEF Citas!Send, Citas!view
  <1> DEFINE new == [pc |-> "sent", kind |-> k, id |-> a, to |-> to, q |-> <<filter, page>>]
  <1>3. <<filter, page>> \in Asked
    BY DEF CitasTypes, Citas!TypeOK, Asked
  <1>4. /\ new \in RowChange /\ new.pc = "sent" /\ new.kind = k /\ new.id = a /\ new.to = to
    BY <1>3 DEF RowChange
  <1> HIDE DEF new
  <1>5. /\ calls' \in [Requests -> RowChange] /\ calls'[c] = new
        /\ \A d \in Requests \ {c} : calls'[d] = calls[d]
    BY <1>1, <1>4 DEF CitasTypes, new
  <1>6. /\ marked' \in [Citas!Kinds -> Appts \cup {None}] /\ marked'[k] = a
        /\ \A j \in Citas!Kinds \ {k} : marked'[j] = marked[j]
    BY <1>2 DEF CitasTypes
  <1>7. \A j \in Citas!Kinds : marked'[j] # None =>
          \E d \in Requests :
              calls'[d].pc # "idle" /\ calls'[d].kind = j /\ calls'[d].id = marked'[j]
    <2> SUFFICES ASSUME NEW j \in Citas!Kinds, marked'[j] # None
                 PROVE  \E d \in Requests :
                            /\ calls'[d].pc # "idle" /\ calls'[d].kind = j
                            /\ calls'[d].id = marked'[j]
      OBVIOUS
    <2>1. CASE j = k
      BY <1>4, <1>5, <1>6, <2>1
    <2>2. CASE j # k
      <3>1. PICK d \in Requests :
                calls[d].pc # "idle" /\ calls[d].kind = j /\ calls[d].id = marked[j]
        BY <1>6, <2>2 DEF CitasTypes, Citas!TypeOK
      <3> QED
        BY <1>1, <1>5, <1>6, <2>2, <3>1
    <2> QED
      BY <2>1, <2>2
  <1>8. Citas!TypeOK'
    BY <1>2, <1>7 DEF CitasTypes, Citas!TypeOK
  <1>9. CitasTypes'
    BY <1>2, <1>4, <1>5, <1>6, <1>8 DEF CitasTypes
  <1>10. Settled' => Settled
    BY <1>1, <1>5 DEF Settled
  <1> QED
    BY <1>9, <1>10

LEMMA CallEnds ==
    ASSUME CitasTypes, NEW c \in Requests, calls[c].pc # "idle",
           marked' = [marked EXCEPT ![calls[c].kind] = None],
           calls' = [calls EXCEPT ![c] = Citas!NoCall],
           UNCHANGED <<status, filter, shown>>,
           loads' \in [Requests -> ListRequest], last' \in Requests, page' \in Nat \ {0},
           excused' \subseteq {"order", "unheard"}
    PROVE  CitasTypes'
  <1>1. Citas!NoCall \in RowChange /\ Citas!NoCall.pc = "idle"
    BY DEF Citas!NoCall, RowChange, Citas!Kinds
  <1>2. /\ calls' \in [Requests -> RowChange] /\ calls'[c] = Citas!NoCall
        /\ \A d \in Requests \ {c} : calls'[d] = calls[d]
    BY <1>1 DEF CitasTypes
  <1>3. calls[c].kind \in Citas!Kinds
    BY DEF CitasTypes, RowChange
  <1>4. /\ marked' \in [Citas!Kinds -> Appts \cup {None}] /\ marked'[calls[c].kind] = None
        /\ \A j \in Citas!Kinds \ {calls[c].kind} : marked'[j] = marked[j]
    BY <1>3 DEF CitasTypes
  <1>5. \A j \in Citas!Kinds : marked'[j] # None =>
          \E d \in Requests :
              calls'[d].pc # "idle" /\ calls'[d].kind = j /\ calls'[d].id = marked'[j]
    <2> SUFFICES ASSUME NEW j \in Citas!Kinds, marked'[j] # None
                 PROVE  \E d \in Requests :
                            /\ calls'[d].pc # "idle" /\ calls'[d].kind = j
                            /\ calls'[d].id = marked'[j]
      OBVIOUS
    <2>1. j # calls[c].kind /\ marked'[j] = marked[j]
      BY <1>4
    <2>2. PICK d \in Requests :
              calls[d].pc # "idle" /\ calls[d].kind = j /\ calls[d].id = marked[j]
      BY <2>1 DEF CitasTypes, Citas!TypeOK
    <2> QED
      BY <1>2, <2>1, <2>2
  <1>6. Citas!TypeOK'
    BY <1>5 DEF CitasTypes, Citas!TypeOK
  <1> QED
    BY <1>1, <1>2, <1>4, <1>6 DEF CitasTypes

\* Whatever is in flight was asked for before a change nobody heard of.
LEMMA AllOld ==
    ASSUME CitasTypes,
           loads' = [f \in Requests |-> [loads[f] EXCEPT !.old = @ \/ loads[f].pc # "idle"]],
           last' = last, excused' = excused \cup {"unheard"}
    PROVE  /\ loads' \in [Requests -> ListRequest]
           /\ excused' \subseteq {"order", "unheard"}
           /\ LastOK' /\ ShownOK'
  <1>1. \A f \in Requests : loads[f] \in ListRequest
    BY DEF CitasTypes
  <1>2. \A f \in Requests :
           /\ [loads[f] EXCEPT !.old = @ \/ loads[f].pc # "idle"] \in ListRequest
           /\ loads[f].pc # "idle" =>
                 [loads[f] EXCEPT !.old = @ \/ loads[f].pc # "idle"].old
           /\ [loads[f] EXCEPT !.old = @ \/ loads[f].pc # "idle"].pc = loads[f].pc
    BY <1>1 DEF ListRequest
  <1>3. loads'[last].pc # "idle" => loads'[last].old
    BY <1>2 DEF CitasTypes
  <1> QED
    BY <1>2, <1>3 DEF LastOK, ShownOK, CitasTypes, Citas!TypeOK

LEMMA ChangeStep ==
    ASSUME CitasInv,
           \/ \E a \in Appts : Citas!Create(a)
           \/ \E k \in Citas!Kinds \ {"create"}, a \in Appts, to \in Statuses :
                 Citas!Change(k, a, to)
    PROVE  CitasInv'
  <1> USE DEF CitasInv
  <1>1. PICK k \in Citas!Kinds, a \in Appts, to \in Statuses : Citas!Send(k, a, to)
    BY CitasConstants DEF Citas!Create, Citas!Change, Citas!Kinds
  <1>2. CitasTypes' /\ (Settled' => Settled)
    BY <1>1, CallStarts
  <1>3. UNCHANGED <<status, filter, page, shown, loads, last, excused>>
    BY <1>1 DEF Citas!Send, Citas!view
  <1>4. Wanted' = Wanted
    BY <1>3 DEF Wanted, Citas!Result, Citas!Matching
  <1> QED
    BY <1>2, <1>3, <1>4 DEF LastOK, ShownOK

LEMMA ServeStep ==
    ASSUME CitasInv, NEW c \in Requests, Citas!ServeChange(c)
    PROVE  CitasInv'
  <1> USE DEF CitasInv
  <1>1. /\ calls[c].pc = "sent"
        /\ status' = [status EXCEPT ![calls[c].id] = calls[c].to]
        /\ calls' = [calls EXCEPT ![c].pc = "done"]
        /\ UNCHANGED <<filter, page, marked, shown, loads, last, excused>>
    BY DEF Citas!ServeChange, Citas!ui, Citas!view
  <1> DEFINE done == [calls[c] EXCEPT !.pc = "done"]
  <1>2. calls[c] \in RowChange /\ calls[c].id \in Appts /\ calls[c].to \in Statuses
    BY <1>1 DEF CitasTypes
  <1>3. /\ done \in RowChange /\ done.pc = "done" /\ done.kind = calls[c].kind
        /\ done.id = calls[c].id /\ done.to = calls[c].to
    BY <1>2 DEF RowChange
  <1>4. calls' = [calls EXCEPT ![c] = done]
    BY <1>1
  <1> HIDE DEF done
  <1>5. /\ calls' \in [Requests -> RowChange] /\ calls'[c] = done
        /\ \A d \in Requests \ {c} : calls'[d] = calls[d]
    BY <1>3, <1>4 DEF CitasTypes
  <1>6. \A d \in Requests : /\ calls'[d].pc # "idle" <=> calls[d].pc # "idle"
                            /\ calls'[d].kind = calls[d].kind
                            /\ calls'[d].id = calls[d].id /\ calls'[d].to = calls[d].to
    BY <1>1, <1>3, <1>5
  <1>7. status' \in [Appts -> Statuses \cup {None}]
    BY <1>1, <1>2 DEF CitasTypes, Citas!TypeOK
  <1>8. Citas!TypeOK'
    BY <1>1, <1>6, <1>7 DEF CitasTypes, Citas!TypeOK
  <1>9. CitasTypes'
    BY <1>1, <1>5, <1>6, <1>8 DEF CitasTypes
  <1>10. ~Settled'
    BY <1>3, <1>5 DEF Settled
  <1> QED
    BY <1>1, <1>9, <1>10 DEF LastOK, ShownOK

LEMMA ToldStep ==
    ASSUME CitasInv, NEW c \in Requests, Citas!Changed(c) \/ Citas!Created(c)
    PROVE  CitasInv'
  <1> USE DEF CitasInv
  <1>1. /\ calls[c].pc # "idle"
        /\ marked' = [marked EXCEPT ![calls[c].kind] = None]
        /\ calls' = [calls EXCEPT ![c] = Citas!NoCall]
        /\ UNCHANGED <<status, filter, shown, excused>>
        /\ page' = page \/ page' = 1
    BY DEF Citas!Changed, Citas!Created
  <1>2. calls[c].q \in Asked \cup {None} /\ <<filter, 1>> \in Asked
    BY DEF CitasTypes, Citas!TypeOK, RowChange, Asked
  <1>3. /\ loads' \in [Requests -> ListRequest] /\ last' \in Requests
        /\ loads'[last'].pc = "sent"
        /\ loads'[last'].old \/ loads'[last'].q = <<filter', page'>>
    <2>1. CASE (page' = page /\ \E f \in Requests : Citas!Load(f, calls[c].q, <<filter, page>>))
      BY <1>1, <1>2, <2>1, LoadStarts
    <2>2. CASE ~(page' = page /\ \E f \in Requests : Citas!Load(f, calls[c].q, <<filter, page>>))
      <3>1. Citas!Created(c) /\ page # 1 /\ page' = 1
        BY <2>2 DEF Citas!Changed, Citas!Created
      <3> DEFINE old == [Citas!NoLoad EXCEPT !.pc = "sent", !.q = calls[c].q, !.old = TRUE]
                 new == [Citas!NoLoad EXCEPT !.pc = "sent", !.q = <<filter, 1>>]
      <3>2. PICK f, g \in Requests :
               /\ f # g /\ loads' = [loads EXCEPT ![f] = old, ![g] = new] /\ last' = g
        BY <3>1 DEF Citas!Created
      <3>3. /\ old \in ListRequest /\ new \in ListRequest /\ new.pc = "sent"
            /\ new.q = <<filter, 1>>
        BY <1>2, EmptyIsAnswer DEF ListRequest
      <3> HIDE DEF old, new
      <3>4. loads' \in [Requests -> ListRequest] /\ loads'[g] = new
        BY <3>2, <3>3 DEF CitasTypes
      <3> QED
        BY <1>1, <3>1, <3>2, <3>3, <3>4
    <2> QED
      BY <2>1, <2>2
  <1>4. page' \in Nat \ {0} /\ excused' \subseteq {"order", "unheard"}
    BY <1>1 DEF CitasTypes, Citas!TypeOK
  <1>5. CitasTypes'
    BY <1>1, <1>3, <1>4, CallEnds
  <1> QED
    BY <1>3, <1>5, NewLast

LEMMA FailedStep ==
    ASSUME CitasInv, NEW c \in Requests, Citas!ChangeFails(c)
    PROVE  CitasInv'
  <1> USE DEF CitasInv
  <1>1. /\ calls[c].pc # "idle"
        /\ marked' = [marked EXCEPT ![calls[c].kind] = None]
        /\ calls' = [calls EXCEPT ![c] = Citas!NoCall]
        /\ UNCHANGED <<status, filter, page, shown, last>>
    BY DEF Citas!ChangeFails, Citas!view
  <1>2. CASE calls[c].pc = "done"
    <2>1. /\ loads' \in [Requests -> ListRequest] /\ excused' \subseteq {"order", "unheard"}
          /\ LastOK' /\ ShownOK'
      BY <1>1, <1>2, AllOld DEF Citas!ChangeFails
    <2>2. CitasTypes'
      BY <1>1, <2>1, CallEnds DEF CitasTypes, Citas!TypeOK
    <2> QED
      BY <2>1, <2>2
  <1>3. CASE calls[c].pc # "done"
    <2>1. UNCHANGED <<excused, loads>>
      BY <1>3 DEF Citas!ChangeFails
    <2>2. CitasTypes'
      BY <1>1, <2>1, CallEnds DEF CitasTypes, Citas!TypeOK
    <2>3. \A d \in Requests \ {c} : calls'[d] = calls[d]
      BY <1>1 DEF CitasTypes
    <2>4. Settled' => Settled
      BY <1>3, <2>3 DEF Settled
    <2>5. Wanted' = Wanted
      BY <1>1 DEF Wanted, Citas!Result, Citas!Matching
    <2> QED
      BY <1>1, <2>1, <2>2, <2>4, <2>5 DEF LastOK, ShownOK
  <1> QED
    BY <1>2, <1>3

LEMMA OthersStep ==
    ASSUME CitasInv, NEW a \in Appts, NEW to \in Statuses, Citas!OthersChange(a, to)
    PROVE  CitasInv'
  <1> USE DEF CitasInv
  <1>1. /\ status' = [status EXCEPT ![a] = to]
        /\ UNCHANGED <<filter, page, marked, shown, last, calls>>
    BY DEF Citas!OthersChange, Citas!ui, Citas!view
  <1>2. /\ loads' \in [Requests -> ListRequest] /\ excused' \subseteq {"order", "unheard"}
        /\ LastOK' /\ ShownOK'
    BY <1>1, AllOld DEF Citas!OthersChange
  <1>3. Citas!TypeOK'
    BY <1>1, <1>2 DEF CitasTypes, Citas!TypeOK
  <1>4. CitasTypes'
    BY <1>1, <1>2, <1>3 DEF CitasTypes
  <1> QED
    BY <1>2, <1>4

LEMMA CitasNext == CitasInv /\ [Citas!Next]_(Citas!vars) => CitasInv'
  <1> SUFFICES ASSUME CitasInv, [Citas!Next]_(Citas!vars)
               PROVE  CitasInv'
    OBVIOUS
  <1>1. CASE UNCHANGED Citas!vars
    <2>1. UNCHANGED <<status, filter, page, marked, shown, loading, loads, last, calls, excused>>
      BY <1>1 DEF Citas!vars, Citas!ui, Citas!view
    <2> QED
      BY <2>1
         DEF CitasInv, CitasTypes, Citas!TypeOK, LastOK, ShownOK, Settled, Wanted,
             Citas!Result, Citas!Matching
  <1>2. CASE Citas!Next
    BY <1>2, AnswerStep, PageStep, ChangeStep, ServeStep, ToldStep, FailedStep,
       OthersStep
       DEF Citas!Next
  <1> QED
    BY <1>1, <1>2

LEMMA CitasImplies == CitasInv => Citas!TypeOK /\ Citas!ListIsThePageAsked
  BY DEF CitasInv, CitasTypes, LastOK, ShownOK, Settled, Wanted,
         Citas!ListIsThePageAsked, Citas!Quiet

\* The invariant, of the page and of its part in the panel.
LEMMA CitasAlways ==
    /\ Citas!Spec => []CitasInv
    /\ StaffSpec => [](part = "appointments" => CitasInv)
  <1> DEFINE Inv == part = "appointments" => CitasInv
  <1>1. Citas!Spec => []CitasInv
    BY CitasInit, CitasNext, PTL DEF Citas!Spec
  <1>2. StaffInit => Inv
    BY CitasInit DEF StaffInit
  <1>3. Inv /\ [StaffNext]_StaffVars => Inv'
    BY CitasNext, CitasMoves
  <1>4. StaffSpec => []Inv
    BY <1>2, <1>3, PTL DEF StaffSpec
  <1> QED
    BY <1>1, <1>4

\* With nothing on its way the list is the page and the filter on the screen with the
\* statuses of the server, unless answers crossed or were lost (citas-page.tsx:94-194).
THEOREM ListTruthful ==
    /\ Citas!Spec => []Citas!ListIsThePageAsked
    /\ StaffSpec => []ListIsThePageAsked
  <1>1. CitasInv => Citas!ListIsThePageAsked
    BY CitasImplies
  <1>2. (part = "appointments" => CitasInv) => ListIsThePageAsked
    BY <1>1 DEF ListIsThePageAsked
  <1> QED
    BY <1>1, <1>2, CitasAlways, PTL

\* The appointments, the requests and the list keep their types.
LEMMA CitasTyped == StaffSpec => [](part = "appointments" => Citas!TypeOK)
  <1>1. CitasInv => Citas!TypeOK
    BY CitasImplies
  <1> QED
    BY <1>1, CitasAlways, PTL

-----------------------------------------------------------------------------
(* The modal that books (InternalBooking) *)

\* The days that can be booked are numbered from today.
LEMMA ModalConstants ==
    BookingDays \subseteq Nat /\ 1 \in BookingDays /\ MaxDrafts \in Nat
  BY StaffAssumption DEF Modal!InternalBookingAssumption

\* A step of the panel is a step of this page or none, if the page is in play.
LEMMA ModalMoves ==
    ASSUME [StaffNext]_StaffVars, part' = "booking"
    PROVE  part = "booking" /\ [Modal!Next]_(Modal!vars)
  <1>1. CASE UNCHANGED StaffVars
    BY <1>1 DEF StaffVars, Modal!vars, Modal!form, Modal!grid, Modal!shell, Modal!server
  <1>2. CASE StaffNext
    BY <1>2 DEF StaffNext, AgendaStep, ConfigStep, CitasStep, ModalStep, ClientesStep
  <1> QED
    BY <1>1, <1>2

\* A set of numbers has a least one.
LEMMA LeastIsThere ==
    ASSUME NEW S, S \subseteq Nat, S # {}
    PROVE  \E d \in S : \A e \in S : d <= e
  <1>1. IsWellFoundedOn(OpToRel(<, Nat), Nat)
    BY NatLessThanWellFounded
  <1>2. PICK d \in S : \A e \in S : <<e, d>> \notin OpToRel(<, Nat)
    BY <1>1, WFMin
  <1>3. \A e \in S : e \in Nat /\ d \in Nat /\ ~(e < d)
    BY <1>2 DEF OpToRel
  <1>4. \A e \in S : d <= e
    BY <1>3
  <1> QED
    BY <1>4

\* What the sum of the appointments is, up to each draft.
SumsTo(n, b, f) ==
    /\ f \in [0..n -> Nat]
    /\ \A d \in 0..n : f[d] = IF d = 0 THEN 0 ELSE f[d - 1] + b[d]

LEMMA SumExists ==
    ASSUME NEW b \in [1..MaxDrafts -> Nat]
    PROVE  \E f : SumsTo(MaxDrafts, b, f)
  <1> DEFINE bad == {n \in 0..MaxDrafts : ~\E f : SumsTo(n, b, f)}
  <1> USE ModalConstants
  <1>1. CASE bad = {}
    BY <1>1
  <1>2. CASE bad # {}
    <2>1. PICK n \in bad : \A m \in bad : n <= m
      <3>1. bad \subseteq Nat
        OBVIOUS
      <3> HIDE DEF bad
      <3> QED
        BY <1>2, <3>1, LeastIsThere
    <2>2. CASE n = 0
      <3>1. SumsTo(0, b, [d \in 0..0 |-> 0])
        BY DEF SumsTo
      <3> QED
        BY <2>1, <2>2, <3>1
    <2>3. CASE n # 0
      <3>1. n \in 1..MaxDrafts /\ n - 1 \in 0..MaxDrafts /\ n - 1 \notin bad
        BY <2>1, <2>3
      <3>2. PICK f : SumsTo(n - 1, b, f)
        BY <3>1
      <3> DEFINE g == [d \in 0..n |-> IF d = n THEN f[n - 1] + b[n] ELSE f[d]]
      <3>3. \A d \in 0..(n - 1) : f[d] \in Nat
        BY <3>2 DEF SumsTo
      <3>4. b[n] \in Nat
        BY <3>1
      <3>5. g \in [0..n -> Nat]
        BY <3>1, <3>3, <3>4
      <3>6. \A d \in 0..n : g[d] = IF d = 0 THEN 0 ELSE g[d - 1] + b[d]
        <4> SUFFICES ASSUME NEW d \in 0..n
                     PROVE  g[d] = IF d = 0 THEN 0 ELSE g[d - 1] + b[d]
          OBVIOUS
        <4>1. CASE d = n
          <5>1. g[d] = f[n - 1] + b[n] /\ d # 0 /\ n - 1 # n
            BY <2>3, <3>1, <4>1
          <5>2. n - 1 \in 0..n
            BY <3>1
          <5> QED
            BY <4>1, <5>1, <5>2
        <4>2. CASE d # n
          <5>1. d \in 0..(n - 1) /\ g[d] = f[d]
            BY <3>1, <4>2
          <5>2. d # 0 => d - 1 \in 0..n /\ d - 1 # n /\ g[d - 1] = f[d - 1]
            BY <3>1, <5>1
          <5> QED
            BY <3>2, <5>1, <5>2 DEF SumsTo
        <4> QED
          BY <4>1, <4>2
      <3>7. SumsTo(n, b, g)
        BY <3>5, <3>6 DEF SumsTo
      <3> QED
        BY <2>1, <3>7
    <2> QED
      BY <2>2, <2>3
  <1> QED
    BY <1>1, <1>2

\* One draft has one more in c.
OneMore(b, c, k) == \A d \in 1..MaxDrafts : c[d] = IF d = k THEN b[d] + 1 ELSE b[d]

\* Sums that agree before that draft, and differ in one from there on.
LEMMA SumsDiffer ==
    ASSUME NEW b \in [1..MaxDrafts -> Nat], NEW f, SumsTo(MaxDrafts, b, f),
           NEW c \in [1..MaxDrafts -> Nat], NEW g, SumsTo(MaxDrafts, c, g),
           NEW k \in 1..MaxDrafts,
           OneMore(b, c, k)
    PROVE  g[MaxDrafts] = f[MaxDrafts] + 1
  <1> DEFINE bad == {d \in 0..MaxDrafts : g[d] # IF d >= k THEN f[d] + 1 ELSE f[d]}
  <1> USE ModalConstants
  <1> SUFFICES ASSUME bad # {}
               PROVE  FALSE
    <2>1. bad = {} => MaxDrafts \notin bad
      BY Zenon
    <2>2. MaxDrafts \in 0..MaxDrafts /\ MaxDrafts >= k
      OBVIOUS
    <2> QED
      BY <2>1, <2>2
  <1>1. PICK d \in bad : \A m \in bad : d <= m
    <2>1. bad \subseteq Nat
      OBVIOUS
    <2> HIDE DEF bad
    <2> QED
      BY <2>1, LeastIsThere
  <1>2. \A e \in 0..MaxDrafts : f[e] \in Nat /\ g[e] \in Nat
    BY DEF SumsTo
  <1>3. CASE d = 0
    <2>1. f[0] = 0 /\ g[0] = 0 /\ ~(0 >= k)
      BY DEF SumsTo
    <2>2. g[0] # IF 0 >= k THEN f[0] + 1 ELSE f[0]
      BY <1>1, <1>3
    <2> QED
      BY <2>1, <2>2
  <1>4. CASE d # 0
    <2>1. d \in 1..MaxDrafts /\ d - 1 \in 0..MaxDrafts /\ d - 1 \notin bad
      BY <1>1, <1>4
    <2>2. g[d] = g[d - 1] + c[d] /\ f[d] = f[d - 1] + b[d]
      BY <1>4, <2>1 DEF SumsTo
    <2>3. b[d] \in Nat /\ c[d] = IF d = k THEN b[d] + 1 ELSE b[d]
      BY <2>1 DEF OneMore
    <2>4. f[d - 1] \in Nat /\ d \in Nat /\ k \in Nat
      BY <1>2, <2>1
    <2>5. g[d] # IF d >= k THEN f[d] + 1 ELSE f[d]
      BY <1>1
    <2>6. g[d - 1] = IF d - 1 >= k THEN f[d - 1] + 1 ELSE f[d - 1]
      BY <2>1
    <2> HIDE DEF bad
    <2>7. CASE d - 1 >= k
      <3>1. d >= k /\ d # k
        BY <2>4, <2>7
      <3>2. g[d] = f[d - 1] + 1 + b[d]
        BY <2>2, <2>6, <2>3, <2>7, <3>1
      <3>3. \A x, y \in Nat : x + y + 1 = x + 1 + y
        OBVIOUS
      <3>4. f[d] + 1 = f[d - 1] + 1 + b[d]
        BY <2>2, <2>3, <2>4, <3>3, Zenon
      <3> QED
        BY <2>5, <3>1, <3>2, <3>4
    <2>8. CASE d = k
      BY <2>2, <2>6, <2>3, <2>4, <2>5, <2>8
    <2>9. CASE ~(d - 1 >= k) /\ d # k
      BY <2>2, <2>6, <2>3, <2>4, <2>5, <2>9
    <2> QED
      BY <2>7, <2>8, <2>9
  <1> QED
    BY <1>3, <1>4

\* The total is that of the sums.
LEMMA TotalIsSum ==
    ASSUME NEW b \in [1..MaxDrafts -> Nat]
    PROVE  \E f : SumsTo(MaxDrafts, b, f) /\ Modal!TotalOf(b) = f[MaxDrafts]
  <1> DEFINE Is(t) == t = [d \in 0..MaxDrafts |-> IF d = 0 THEN 0 ELSE t[d - 1] + b[d]]
  <1> USE ModalConstants
  <1>1. PICK f : SumsTo(MaxDrafts, b, f)
    BY SumExists
  <1>2. Is(f)
    BY <1>1 DEF SumsTo
  <1>3. Modal!TotalOf(b) = (CHOOSE t : Is(t))[MaxDrafts]
    BY DEF Modal!TotalOf
  <1> DEFINE t == CHOOSE t : Is(t)
  <1>4. Is(t)
    BY <1>2
  <1> HIDE DEF t
  <1>5. \A d \in 0..MaxDrafts : t[d] = IF d = 0 THEN 0 ELSE t[d - 1] + b[d]
    BY <1>4
  <1> DEFINE bad == {d \in 0..MaxDrafts : t[d] # f[d]}
  <1>6. bad = {}
    <2> SUFFICES ASSUME bad # {}
                 PROVE  FALSE
      OBVIOUS
    <2>1. PICK d \in bad : \A m \in bad : d <= m
      <3>1. bad \subseteq Nat
        OBVIOUS
      <3> HIDE DEF bad
      <3> QED
        BY <3>1, LeastIsThere
    <2>2. f[d] = IF d = 0 THEN 0 ELSE f[d - 1] + b[d]
      BY <1>1, <2>1 DEF SumsTo
    <2>3. t[d] = IF d = 0 THEN 0 ELSE t[d - 1] + b[d]
      BY <1>5, <2>1
    <2>4. d # 0 => d - 1 \in 0..MaxDrafts /\ d - 1 \notin bad
      BY <2>1
    <2>5. d # 0 => t[d - 1] = f[d - 1]
      BY <2>4
    <2>6. t[d] # f[d]
      BY <2>1
    <2> QED
      BY <2>2, <2>3, <2>5, <2>6
  <1>7. t[MaxDrafts] = f[MaxDrafts]
    BY <1>6
  <1> QED
    BY <1>1, <1>3, <1>7 DEF t

LEMMA TotalIsNat ==
    ASSUME NEW b \in [1..MaxDrafts -> Nat]
    PROVE  Modal!TotalOf(b) \in Nat
  <1>1. PICK f : SumsTo(MaxDrafts, b, f) /\ Modal!TotalOf(b) = f[MaxDrafts]
    BY TotalIsSum
  <1> QED
    BY <1>1, ModalConstants DEF SumsTo

\* One more appointment is one more in the total, whichever draft it is of.
LEMMA TotalGrows ==
    ASSUME NEW b \in [1..MaxDrafts -> Nat], NEW k \in 1..MaxDrafts
    PROVE  Modal!TotalOf([b EXCEPT ![k] = @ + 1]) = Modal!TotalOf(b) + 1
  <1> DEFINE c == [b EXCEPT ![k] = @ + 1]
  <1> USE ModalConstants
  <1>1. c \in [1..MaxDrafts -> Nat]
    OBVIOUS
  <1>2. OneMore(b, c, k)
    BY DEF OneMore
  <1> HIDE DEF c
  <1>3. PICK f : SumsTo(MaxDrafts, b, f) /\ Modal!TotalOf(b) = f[MaxDrafts]
    BY TotalIsSum
  <1>4. PICK g : SumsTo(MaxDrafts, c, g) /\ Modal!TotalOf(c) = g[MaxDrafts]
    BY <1>1, TotalIsSum
  <1>5. g[MaxDrafts] = f[MaxDrafts] + 1
    BY <1>1, <1>2, <1>3, <1>4, SumsDiffer
  <1>6. Modal!TotalOf(c) = Modal!TotalOf(b) + 1
    BY <1>3, <1>4, <1>5
  <1> QED
    BY <1>6 DEF c

Chosen == <<open, slotsOpen, Modal!CurrentQuery>>

\* The query whose answer counts is that of an open form.
QueryOK == live # None => open /\ slotsOpen /\ Modal!ready /\ live = Modal!CurrentQuery

\* Times that can be chosen answer that query.
TimesOK ==
    open /\ slotsOpen /\ Modal!ready /\ ~slotsLoading /\ slots.free # {} =>
       slots.for = Modal!CurrentQuery

\* A time that was chosen, with the query it answers, and what is confirmed.
TimeChosen == [for : Modal!Queries \cup {None}, at : Times] \cup {None}

ModalCall ==
    [pc : {"idle", "client", "made", "booked"}, draft : 0..MaxDrafts,
     for : Modal!Queries \cup {None}, at : TimeChosen]

\* Who confirms does so for an opening there was.
DraftsOK ==
    /\ draft \in 0..MaxDrafts /\ (open => draft >= 1)
    /\ call \in ModalCall /\ selectedSlot \in TimeChosen
    /\ call.pc # "idle" => call.draft \in 1..draft

\* What was booked for the opening that can still book is being told, or was
\* not heard of.
BookedOK ==
    \A d \in 1..MaxDrafts :
        /\ booked[d] > 1 => d \in unheard
        /\ \/ booked[d] = 0 \/ d \in unheard
           \/ d < draft \/ (d = draft /\ ~open)
           \/ call.pc = "booked" /\ call.draft = d
        /\ call.pc \in {"client", "made"} /\ call.draft = d =>
              booked[d] = 0 \/ d \in unheard

\* A customer without an appointment was made by an attempt that failed or runs.
CustomersOK ==
    /\ clients \in Nat /\ failed \in Nat
    /\ clients - Modal!TotalOf(booked) <= failed + (IF call.pc = "made" THEN 1 ELSE 0)

ModalInv ==
    /\ Modal!TypeOK /\ Modal!TimeIsOfTheChoice /\ QueryOK /\ TimesOK /\ DraftsOK
    /\ BookedOK /\ CustomersOK

LEMMA ModalInit == Modal!Init => ModalInv
  <1> SUFFICES ASSUME Modal!Init
               PROVE  ModalInv
    OBVIOUS
  <1> USE ModalConstants
  <1>1. Modal!TypeOK /\ Modal!TimeIsOfTheChoice /\ QueryOK /\ TimesOK
    BY DEF Modal!Init, Modal!TypeOK, Modal!TimeIsOfTheChoice, QueryOK, TimesOK,
           Modal!NoSlots, Modal!NoCall
  <1>2. DraftsOK /\ BookedOK
    BY DEF Modal!Init, DraftsOK, BookedOK, Modal!NoCall, ModalCall, TimeChosen
  <1>3. booked \in [1..MaxDrafts -> Nat] /\ \A d \in 1..MaxDrafts : booked[d] = 0
    BY DEF Modal!Init
  <1>5. Modal!TotalOf(booked) \in Nat
    BY <1>3, TotalIsNat
  <1>6. CustomersOK
    BY <1>5 DEF Modal!Init, CustomersOK, Modal!NoCall
  <1> QED
    BY <1>1, <1>2, <1>6 DEF ModalInv

\* What the effect on the query leaves of the grid and of the time chosen.
LEMMA Asks ==
    ASSUME ModalInv, NEW picked, Modal!AskSlots(picked),
           picked \in TimeChosen, picked # None => picked.for = Modal!CurrentQuery',
           slots' \in {slots, Modal!NoSlots},
           open' \in BOOLEAN, slotsOpen' \in BOOLEAN, selectedDate' \in BookingDays,
           serviceId' \in Services \cup {None}, professionalId' \in Professionals \cup {None}
    PROVE  /\ QueryOK' /\ TimesOK'
           /\ slots'.for \in Modal!Queries \cup {None} /\ slots'.free \subseteq Times
           /\ live' \in Modal!Queries \cup {None} /\ slotsLoading' \in BOOLEAN
           /\ selectedSlot' \in TimeChosen
           /\ selectedSlot' # None => selectedSlot'.for = Modal!CurrentQuery'
  <1>1. /\ slots'.for \in Modal!Queries \cup {None} /\ slots'.free \subseteq Times
        /\ slots' = slots \/ slots'.free = {}
    BY DEF ModalInv, Modal!TypeOK, Modal!NoSlots
  <1>6. None \in TimeChosen
    BY DEF TimeChosen
  <1>2. Modal!ready' => Modal!CurrentQuery' \in Modal!Queries
    BY DEF Modal!ready, Modal!CurrentQuery, Modal!Queries
  <1>3. CASE Chosen' = Chosen
    <2>1. /\ open' = open
          /\ slotsOpen' = slotsOpen
          /\ Modal!CurrentQuery' = Modal!CurrentQuery
          /\ Modal!ready' = Modal!ready
      BY <1>3 DEF Chosen, Modal!CurrentQuery, Modal!ready
    <2>2. selectedSlot' = picked /\ UNCHANGED <<slotsLoading, live>>
      BY <1>3 DEF Modal!AskSlots, Chosen
    <2> QED
      BY <1>1, <2>1, <2>2 DEF ModalInv, Modal!TypeOK, QueryOK, TimesOK
  <1>4. CASE Chosen' # Chosen /\ open' /\ slotsOpen' /\ Modal!ready'
    <2>1. selectedSlot' = None /\ live' = Modal!CurrentQuery' /\ slotsLoading' = TRUE
      BY <1>4 DEF Modal!AskSlots, Chosen
    <2> QED
      BY <1>1, <1>2, <1>4, <1>6, <2>1 DEF QueryOK, TimesOK
  <1>5. CASE Chosen' # Chosen /\ ~(open' /\ slotsOpen' /\ Modal!ready')
    <2>1. selectedSlot' = picked /\ live' = None /\ UNCHANGED slotsLoading
      BY <1>5 DEF Modal!AskSlots, Chosen
    <2> QED
      BY <1>1, <1>5, <2>1 DEF ModalInv, Modal!TypeOK, QueryOK, TimesOK
  <1> QED
    BY <1>3, <1>4, <1>5

\* The catalog moves the form to a day there is.
LEMMA JumpIsADay ==
    ASSUME NEW cat, selectedDate \in BookingDays
    PROVE  Modal!Jump(cat) \in BookingDays
  <1> DEFINE shut == cat.closed[None] \cup
                 (IF professionalId = None THEN {} ELSE cat.closed[professionalId])
  <1>1. CASE cat.weekly /\ selectedDate \in shut /\ BookingDays \ shut # {}
    <2>1. BookingDays \ shut \subseteq Nat
      BY ModalConstants
    <2>2. \E d \in BookingDays \ shut : \A e \in BookingDays \ shut : d <= e
      BY <1>1, <2>1, LeastIsThere
    <2>3. Modal!Jump(cat) = CHOOSE d \in BookingDays \ shut : \A e \in BookingDays \ shut : d <= e
      BY <1>1 DEF Modal!Jump
    <2> QED
      BY <2>2, <2>3
  <1>2. CASE ~(cat.weekly /\ selectedDate \in shut /\ BookingDays \ shut # {})
    BY <1>2 DEF Modal!Jump
  <1> QED
    BY <1>1, <1>2

\* The handlers of the form, and the catalog, while no request moves.
LEMMA FormStep ==
    ASSUME ModalInv,
           \/ Modal!CatalogLoaded
           \/ \E s \in Services : Modal!ChooseService(s)
           \/ \E p \in Professionals : Modal!ChooseProfessional(p)
           \/ \E d \in BookingDays : Modal!SelectDay(d)
    PROVE  ModalInv'
  <1> USE DEF ModalInv
  <1>1. UNCHANGED <<open, draft, named, creating, call, clients, booked, failed, unheard>>
    BY DEF Modal!CatalogLoaded, Modal!ChooseService, Modal!ChooseProfessional,
           Modal!SelectDay, Modal!OnForm, Modal!shell, Modal!server
  <1>2. /\ loadingCatalog' \in BOOLEAN /\ catalog' \in Catalogs \cup {None}
        /\ slots' \in {slots, Modal!NoSlots} /\ slotsOpen' \in BOOLEAN
        /\ serviceId' \in Services \cup {None}
        /\ professionalId' \in Professionals \cup {None}
        /\ selectedDate' \in BookingDays
    BY JumpIsADay
       DEF Modal!TypeOK, Modal!CatalogLoaded, Modal!ChooseService,
           Modal!ChooseProfessional, Modal!SelectDay, Modal!OnForm, Modal!shell
  <1>3. PICK picked \in TimeChosen :
           Modal!AskSlots(picked) /\ (picked # None => picked.for = Modal!CurrentQuery')
    <2>1. CASE Modal!CatalogLoaded
      <3>1. Modal!AskSlots(IF selectedDate' = selectedDate THEN selectedSlot ELSE None)
        BY <2>1 DEF Modal!CatalogLoaded
      <3>2. UNCHANGED <<serviceId, professionalId>>
        BY <2>1 DEF Modal!CatalogLoaded
      <3> QED
        BY <3>1, <3>2
           DEF Modal!TimeIsOfTheChoice, Modal!CurrentQuery, DraftsOK, TimeChosen
    <2>2. CASE ~Modal!CatalogLoaded
      <3>1. Modal!AskSlots(None)
        BY <2>2 DEF Modal!ChooseService, Modal!ChooseProfessional, Modal!SelectDay
      <3> QED
        BY <3>1 DEF TimeChosen
    <2> QED
      BY <2>1, <2>2
  <1>4. open' \in BOOLEAN
    BY <1>1 DEF Modal!TypeOK
  <1>5. /\ QueryOK' /\ TimesOK'
        /\ slots'.for \in Modal!Queries \cup {None} /\ slots'.free \subseteq Times
        /\ live' \in Modal!Queries \cup {None} /\ slotsLoading' \in BOOLEAN
        /\ selectedSlot' \in TimeChosen
        /\ selectedSlot' # None => selectedSlot'.for = Modal!CurrentQuery'
    BY <1>2, <1>3, <1>4, Asks
  <1>6. Modal!TypeOK'
    BY <1>1, <1>2, <1>5 DEF Modal!TypeOK, Modal!Queries
  <1>7. Modal!TimeIsOfTheChoice'
    BY <1>1, <1>5 DEF Modal!TimeIsOfTheChoice
  <1>8. DraftsOK' /\ BookedOK' /\ CustomersOK'
    BY <1>1, <1>5 DEF DraftsOK, BookedOK, CustomersOK
  <1> QED
    BY <1>5, <1>6, <1>7, <1>8

\* The modal is opened and closed, by the user or by the answer.
LEMMA ShellStep ==
    ASSUME ModalInv, Modal!Open \/ Modal!Close \/ Modal!Booked
    PROVE  ModalInv'
  <1> USE ModalConstants DEF ModalInv
  <1>1. UNCHANGED <<clients, booked, failed, unheard>>
    BY DEF Modal!Open, Modal!Close, Modal!Booked, Modal!server
  <1>2. /\ loadingCatalog' \in BOOLEAN /\ catalog' = catalog /\ named' \in BOOLEAN
        /\ slots' \in {slots, Modal!NoSlots} /\ slotsOpen' \in BOOLEAN /\ open' \in BOOLEAN
        /\ serviceId' \in Services \cup {None}
        /\ professionalId' \in Professionals \cup {None}
        /\ selectedDate' \in BookingDays
    BY DEF Modal!TypeOK, Modal!Open, Modal!Close, Modal!Booked
  <1>3. ASSUME Modal!Open
        PROVE  /\ QueryOK' /\ TimesOK'
               /\ slots'.for \in Modal!Queries \cup {None} /\ slots'.free \subseteq Times
               /\ live' \in Modal!Queries \cup {None} /\ slotsLoading' \in BOOLEAN
               /\ selectedSlot' = None /\ selectedSlot' \in TimeChosen
    <2>1. /\ slots' = Modal!NoSlots /\ live' = None /\ selectedSlot' = None
          /\ slotsLoading' = (slotsLoading \/ (slotsOpen /\ Modal!ready)) /\ ~slotsOpen'
      BY <1>3 DEF Modal!Open
    <2> QED
      BY <2>1 DEF QueryOK, TimesOK, Modal!NoSlots, Modal!TypeOK, TimeChosen
  <1>4. /\ QueryOK' /\ TimesOK'
        /\ slots'.for \in Modal!Queries \cup {None} /\ slots'.free \subseteq Times
        /\ live' \in Modal!Queries \cup {None} /\ slotsLoading' \in BOOLEAN
        /\ selectedSlot' \in TimeChosen
        /\ selectedSlot' # None => selectedSlot'.for = Modal!CurrentQuery'
    <2>1. CASE Modal!Close \/ Modal!Booked
      <3>1. /\ Modal!AskSlots(selectedSlot) /\ selectedSlot \in TimeChosen
            /\ UNCHANGED <<serviceId, professionalId, selectedDate>>
        BY <2>1 DEF Modal!Close, Modal!Booked, DraftsOK
      <3>2. selectedSlot # None => selectedSlot.for = Modal!CurrentQuery'
        BY <3>1 DEF Modal!TimeIsOfTheChoice, Modal!CurrentQuery
      <3> QED
        BY <1>2, <3>1, <3>2, Asks
    <2> QED
      BY <1>3, <2>1
  <1>5. \/ UNCHANGED <<call, creating>>
        \/ call.pc = "booked" /\ call' = Modal!NoCall /\ creating' = FALSE /\ ~open'
    BY DEF Modal!Open, Modal!Close, Modal!Booked
  <1>6. Modal!TypeOK'
    BY <1>1, <1>2, <1>4, <1>5 DEF Modal!TypeOK, Modal!Queries, Modal!NoCall
  <1>7. Modal!TimeIsOfTheChoice'
    BY <1>4, <1>5 DEF Modal!TimeIsOfTheChoice, Modal!NoCall
  <1>8. \/ Modal!Open /\ draft < MaxDrafts /\ draft' = draft + 1 /\ ~open /\ UNCHANGED call
        \/ draft' = draft /\ ~open'
    BY DEF Modal!Open, Modal!Close, Modal!Booked
  <1>9. DraftsOK'
    <2>1. Modal!NoCall \in ModalCall
      BY DEF Modal!NoCall, ModalCall, TimeChosen
    <2> QED
      BY <1>4, <1>5, <1>8, <2>1 DEF DraftsOK, Modal!NoCall
  <1>10. BookedOK'
    <2> SUFFICES ASSUME NEW d \in 1..MaxDrafts
                 PROVE  /\ booked[d] > 1 => d \in unheard
                        /\ \/ booked[d] = 0 \/ d \in unheard
                           \/ d < draft' \/ (d = draft' /\ ~open')
                           \/ call'.pc = "booked" /\ call'.draft = d
                        /\ call'.pc \in {"client", "made"} /\ call'.draft = d =>
                              booked[d] = 0 \/ d \in unheard
      BY <1>1 DEF BookedOK
    <2>1. /\ booked[d] > 1 => d \in unheard
          /\ \/ booked[d] = 0 \/ d \in unheard
             \/ d < draft \/ (d = draft /\ ~open)
             \/ call.pc = "booked" /\ call.draft = d
          /\ call.pc \in {"client", "made"} /\ call.draft = d =>
                booked[d] = 0 \/ d \in unheard
      BY DEF BookedOK
    <2>2. call'.pc \in {"client", "made"} => call' = call
      BY <1>5 DEF Modal!NoCall
    <2>3. call.pc = "booked" /\ call.draft = d => d <= draft
      BY DEF DraftsOK
    <2>4. draft \in Nat
      BY DEF DraftsOK
    <2>5. \/ booked[d] = 0 \/ d \in unheard
          \/ d < draft' \/ (d = draft' /\ ~open')
          \/ call'.pc = "booked" /\ call'.draft = d
      <3>1. CASE Modal!Open
        <4>1. draft' = draft + 1 /\ call' = call
          BY <3>1 DEF Modal!Open
        <4>2. d \in Nat /\ (d < draft \/ d = draft => d < draft')
          BY <2>4, <4>1
        <4>3. draft' \in Nat
          BY <2>4, <4>1
        <4>4. call'.pc = call.pc /\ call'.draft = call.draft
          BY <4>1
        <4> QED
          BY <2>1, <4>2, <4>4, Zenon
      <3>2. CASE draft' = draft /\ ~open'
        BY <2>1, <2>3, <2>4, <3>2
      <3> QED
        BY <1>8, <3>1, <3>2
    <2> QED
      BY <2>1, <2>2, <2>5
  <1>11. CustomersOK'
    BY <1>1, <1>5 DEF CustomersOK, Modal!NoCall
  <1> QED
    BY <1>4, <1>6, <1>7, <1>9, <1>10, <1>11

\* The answers of the slots and the fields that ask for nothing.
LEMMA FieldStep ==
    ASSUME ModalInv,
           \/ Modal!CatalogFails \/ Modal!SlotsFail \/ Modal!FillIn
           \/ \E free \in SUBSET Times : Modal!SlotsAnswered(free)
           \/ \E t \in Times : Modal!SelectSlot(t)
    PROVE  ModalInv'
  <1> USE DEF ModalInv
  <1>1. UNCHANGED <<open, draft, serviceId, professionalId, selectedDate, slotsOpen, creating,
                    call, clients, booked, failed, unheard>>
    BY DEF Modal!CatalogFails, Modal!SlotsFail, Modal!FillIn, Modal!SlotsAnswered,
           Modal!SelectSlot, Modal!OnForm, Modal!shell, Modal!server, Modal!form
  <1>2. Modal!CurrentQuery' = Modal!CurrentQuery /\ Modal!ready' = Modal!ready
    BY <1>1 DEF Modal!CurrentQuery, Modal!ready
  <1>3. /\ slots'.for \in Modal!Queries \cup {None} /\ slots'.free \subseteq Times
    <2>1. \/ UNCHANGED slots \/ slots' = Modal!NoSlots
          \/ \E free \in SUBSET Times :
                live # None /\ slots' = [for |-> live, free |-> free]
      BY DEF Modal!CatalogFails, Modal!SlotsFail, Modal!FillIn, Modal!SlotsAnswered,
             Modal!SelectSlot, Modal!grid
    <2> QED
      BY <2>1 DEF Modal!TypeOK, Modal!NoSlots
  <1>10. /\ live' \in {live, None} /\ slotsLoading' \in BOOLEAN
        /\ loadingCatalog' \in BOOLEAN /\ named' \in BOOLEAN
        /\ catalog' \in Catalogs \cup {None}
    BY DEF Modal!TypeOK, Modal!CatalogFails, Modal!SlotsFail, Modal!FillIn,
           Modal!SlotsAnswered, Modal!SelectSlot, Modal!OnForm, Modal!shell, Modal!grid,
           Modal!form
  <1>4. Modal!TypeOK'
    BY <1>1, <1>3, <1>10 DEF Modal!TypeOK, Modal!Queries
  <1>5. QueryOK'
    BY <1>1, <1>2, <1>10 DEF QueryOK
  <1>6. TimesOK'
    <2>1. \/ UNCHANGED <<slots, slotsLoading>>
          \/ slots'.free = {}
          \/ live # None /\ slots'.for = live
      BY DEF Modal!CatalogFails, Modal!SlotsFail, Modal!FillIn, Modal!SlotsAnswered,
             Modal!SelectSlot, Modal!grid, Modal!NoSlots
    <2> QED
      BY <1>1, <1>2, <2>1 DEF TimesOK, QueryOK
  <1>7. /\ selectedSlot' \in TimeChosen
        /\ selectedSlot' # None => selectedSlot'.for = Modal!CurrentQuery
    <2>1. CASE UNCHANGED selectedSlot
      BY <2>1 DEF Modal!TimeIsOfTheChoice, DraftsOK
    <2>2. CASE \E t \in Times : Modal!SelectSlot(t)
      BY <2>2 DEF Modal!SelectSlot, Modal!OnForm, TimesOK, Modal!TypeOK, TimeChosen
    <2> QED
      BY <2>1, <2>2
         DEF Modal!CatalogFails, Modal!SlotsFail, Modal!FillIn, Modal!SlotsAnswered,
             Modal!form
  <1>8. Modal!TimeIsOfTheChoice'
    BY <1>1, <1>2, <1>7 DEF Modal!TimeIsOfTheChoice
  <1>9. DraftsOK' /\ BookedOK' /\ CustomersOK'
    BY <1>1, <1>7 DEF DraftsOK, BookedOK, CustomersOK
  <1> QED
    BY <1>4, <1>5, <1>6, <1>8, <1>9

\* The two requests of handleConfirm.
LEMMA ConfirmStep ==
    ASSUME \/ ModalInv, Modal!Confirm
           \/ Modal!MakeClient
           \/ Modal!MakeAppointment
           \/ Modal!ConfirmFails
    PROVE  ModalInv'
  <1> USE ModalConstants DEF ModalInv
  <1>1. UNCHANGED <<open, catalog, loadingCatalog, serviceId, professionalId, selectedDate, slots,
                    slotsLoading, slotsOpen, selectedSlot, named, live, draft>>
    BY DEF Modal!Confirm, Modal!Submit, Modal!OnForm, Modal!MakeClient,
           Modal!MakeAppointment, Modal!ConfirmFails, Modal!Served, Modal!form,
           Modal!grid, Modal!shell
  <1>2. QueryOK' /\ TimesOK'
    BY <1>1 DEF QueryOK, TimesOK, Modal!CurrentQuery, Modal!ready
  <1>3. Modal!CurrentQuery' = Modal!CurrentQuery
    BY <1>1 DEF Modal!CurrentQuery
  <1>4. CASE Modal!Confirm
    <2>1. /\ call.pc = "idle" /\ open /\ creating' = TRUE
          /\ selectedSlot # None
          /\ UNCHANGED <<clients, booked, failed, unheard>>
          /\ call' = [pc |-> "client", draft |-> draft, for |-> Modal!CurrentQuery,
                      at |-> selectedSlot]
      BY <1>4 DEF Modal!Confirm, Modal!Submit, Modal!OnForm, Modal!server, Modal!TypeOK
    <2>2. Modal!TypeOK'
      BY <1>1, <2>1 DEF Modal!TypeOK, Modal!Queries
    <2>3. Modal!TimeIsOfTheChoice'
      BY <1>1, <1>3, <2>1 DEF Modal!TimeIsOfTheChoice
    <2>4. DraftsOK'
      <3>1. Modal!CurrentQuery \in Modal!Queries
        BY <1>4
           DEF Modal!Confirm, Modal!Submit, Modal!ready, Modal!CurrentQuery,
               Modal!Queries, Modal!TypeOK
      <3>2. call' \in ModalCall /\ call'.draft = draft /\ call'.pc = "client"
        BY <2>1, <3>1 DEF DraftsOK, ModalCall
      <3> QED
        BY <1>1, <2>1, <3>2 DEF DraftsOK
    <2>5. BookedOK'
      BY <1>1, <2>1 DEF BookedOK, DraftsOK
    <2>6. CustomersOK'
      BY <2>1 DEF CustomersOK
    <2> QED
      BY <1>2, <2>2, <2>3, <2>4, <2>5, <2>6
  <1>5. CASE Modal!MakeClient
    <2>1. /\ call.pc = "client"
          /\ clients' = clients + 1
          /\ call' = [call EXCEPT !.pc = "made"]
          /\ UNCHANGED <<booked, failed, unheard, creating>>
      BY <1>5 DEF Modal!MakeClient, Modal!Served
    <2>2. /\ call' \in ModalCall /\ call'.pc = "made" /\ call'.draft = call.draft
          /\ call'.at = call.at /\ call'.for = call.for
      BY <2>1 DEF DraftsOK, ModalCall
    <2>3. Modal!TypeOK'
      BY <1>1, <2>1, <2>2 DEF Modal!TypeOK, Modal!Queries
    <2>4. Modal!TimeIsOfTheChoice'
      BY <1>1, <1>3, <2>1, <2>2 DEF Modal!TimeIsOfTheChoice
    <2>5. DraftsOK'
      BY <1>1, <2>1, <2>2 DEF DraftsOK
    <2>6. BookedOK'
      BY <1>1, <2>1, <2>2 DEF BookedOK
    <2>7. Modal!TotalOf(booked) \in Nat
      BY TotalIsNat DEF Modal!TypeOK
    <2>8. CustomersOK'
      BY <2>1, <2>2, <2>7 DEF CustomersOK
    <2> QED
      BY <1>2, <2>3, <2>4, <2>5, <2>6, <2>8
  <1>6. CASE Modal!MakeAppointment
    <2>1. /\ call.pc = "made" /\ booked' = [booked EXCEPT ![call.draft] = @ + 1]
          /\ call' = [call EXCEPT !.pc = "booked"]
          /\ UNCHANGED <<clients, failed, unheard, creating>>
      BY <1>6 DEF Modal!MakeAppointment, Modal!Served
    <2>2. /\ call' \in ModalCall /\ call'.pc = "booked" /\ call'.draft = call.draft
          /\ call'.at = call.at /\ call'.for = call.for
      BY <2>1 DEF DraftsOK, ModalCall
    <2>3. booked \in [1..MaxDrafts -> Nat] /\ call.draft \in 1..MaxDrafts /\ draft \in Nat
      BY <2>1 DEF Modal!TypeOK, DraftsOK
    <2>4. booked' \in [1..MaxDrafts -> Nat]
      BY <2>1, <2>3
    <2>5. Modal!TypeOK'
      BY <1>1, <2>1, <2>2, <2>4 DEF Modal!TypeOK, Modal!Queries
    <2>6. Modal!TimeIsOfTheChoice'
      BY <1>1, <1>3, <2>1, <2>2 DEF Modal!TimeIsOfTheChoice
    <2>7. DraftsOK'
      BY <1>1, <2>1, <2>2 DEF DraftsOK
    <2>8. BookedOK'
      <3> SUFFICES ASSUME NEW d \in 1..MaxDrafts
                   PROVE  /\ booked'[d] > 1 => d \in unheard
                          /\ \/ booked'[d] = 0 \/ d \in unheard
                             \/ d < draft \/ (d = draft /\ ~open)
                             \/ call.draft = d
        BY <1>1, <2>1, <2>2 DEF BookedOK
      <3>1. /\ booked[d] > 1 => d \in unheard
            /\ booked[d] = 0 \/ d \in unheard \/ d < draft \/ (d = draft /\ ~open)
            /\ call.draft = d => booked[d] = 0 \/ d \in unheard
        <4>1. /\ booked[d] > 1 => d \in unheard
              /\ \/ booked[d] = 0 \/ d \in unheard
                 \/ d < draft \/ (d = draft /\ ~open)
                 \/ call.pc = "booked" /\ call.draft = d
              /\ call.pc \in {"client", "made"} /\ call.draft = d =>
                    booked[d] = 0 \/ d \in unheard
          BY DEF BookedOK
        <4>2. call.pc # "booked" /\ call.pc \in {"client", "made"}
          BY <2>1
        <4> QED
          BY <4>1, <4>2, Zenon
      <3>2. CASE d = call.draft
        <4>1. booked'[d] = booked[d] + 1
          BY <2>1, <2>3, <3>2
        <4> QED
          BY <3>1, <3>2, <4>1
      <3>3. CASE d # call.draft
        <4>1. booked'[d] = booked[d]
          BY <2>1, <2>3, <3>3
        <4> QED
          BY <3>1, <4>1
      <3> QED
        BY <3>2, <3>3
    <2>9. /\ Modal!TotalOf(booked') = Modal!TotalOf(booked) + 1
          /\ Modal!TotalOf(booked) \in Nat
      BY <2>1, <2>3, TotalGrows, TotalIsNat
    <2>10. CustomersOK'
      BY <2>1, <2>2, <2>9 DEF CustomersOK
    <2> QED
      BY <1>2, <2>5, <2>6, <2>7, <2>8, <2>10
  <1>7. CASE Modal!ConfirmFails
    <2>1. /\ call.pc # "idle" /\ call' = Modal!NoCall /\ creating' = FALSE
          /\ failed' = IF call.pc = "client" THEN failed ELSE failed + 1
          /\ unheard' = IF call.pc = "booked" THEN unheard \cup {call.draft} ELSE unheard
          /\ UNCHANGED <<clients, booked>>
      BY <1>7 DEF Modal!ConfirmFails
    <2>2. Modal!NoCall \in ModalCall /\ Modal!NoCall.pc = "idle"
      BY DEF Modal!NoCall, ModalCall, TimeChosen
    <2>3. Modal!TypeOK'
      BY <1>1, <2>1, <2>2 DEF Modal!TypeOK, Modal!Queries
    <2>4. Modal!TimeIsOfTheChoice'
      BY <1>1, <1>3, <2>1, <2>2 DEF Modal!TimeIsOfTheChoice
    <2>5. DraftsOK'
      BY <1>1, <2>1, <2>2 DEF DraftsOK
    <2>6. BookedOK'
      BY <1>1, <2>1, <2>2 DEF BookedOK
    <2>7. Modal!TotalOf(booked) \in Nat
      BY TotalIsNat DEF Modal!TypeOK
    <2>8. CustomersOK'
      BY <2>1, <2>2, <2>7 DEF CustomersOK
    <2> QED
      BY <1>2, <2>3, <2>4, <2>5, <2>6, <2>8
  <1> QED
    BY <1>4, <1>5, <1>6, <1>7

LEMMA ModalNext == ModalInv /\ [Modal!Next]_(Modal!vars) => ModalInv'
  <1> SUFFICES ASSUME ModalInv, [Modal!Next]_(Modal!vars)
               PROVE  ModalInv'
    OBVIOUS
  <1>1. CASE UNCHANGED Modal!vars
    <2>1. UNCHANGED <<open, catalog, loadingCatalog, serviceId, professionalId, selectedDate, slots,
                      slotsLoading, slotsOpen, selectedSlot, named, creating, catalogs, live,
                      draft, call, clients, booked, failed, unheard>>
      BY <1>1 DEF Modal!vars, Modal!form, Modal!grid, Modal!shell, Modal!server
    <2> QED
      BY <2>1
         DEF ModalInv, Modal!TypeOK, Modal!Queries, Modal!TimeIsOfTheChoice, QueryOK,
             TimesOK, DraftsOK, BookedOK, CustomersOK, Modal!CurrentQuery, Modal!ready
  <1>2. CASE Modal!Next
    BY <1>2, FormStep, ShellStep, FieldStep, ConfirmStep DEF Modal!Next
  <1> QED
    BY <1>1, <1>2

LEMMA ModalImplies ==
    ModalInv => Modal!TypeOK /\ Modal!TimeIsOfTheChoice /\ Modal!OneBookingPerDraft
  BY DEF ModalInv, BookedOK, CustomersOK, Modal!OneBookingPerDraft

\* The invariant, of the page and of its part in the panel.
LEMMA ModalAlways ==
    /\ Modal!Spec => []ModalInv
    /\ StaffSpec => [](part = "booking" => ModalInv)
  <1> DEFINE Inv == part = "booking" => ModalInv
  <1>1. Modal!Spec => []ModalInv
    BY ModalInit, ModalNext, PTL DEF Modal!Spec
  <1>2. StaffInit => Inv
    BY ModalInit DEF StaffInit
  <1>3. Inv /\ [StaffNext]_StaffVars => Inv'
    BY ModalNext, ModalMoves
  <1>4. StaffSpec => []Inv
    BY <1>2, <1>3, PTL DEF StaffSpec
  <1> QED
    BY <1>1, <1>4

\* The time in the form was offered for the service, the professional and the day in the
\* form: every change of one drops the time and the query that was under way
\* (internal-booking-modal.tsx:132-179).
THEOREM TimeOfTheChoice ==
    /\ Modal!Spec => []Modal!TimeIsOfTheChoice
    /\ StaffSpec => []TimeIsOfTheChoice
  <1>1. ModalInv => Modal!TimeIsOfTheChoice
    BY ModalImplies
  <1>2. (part = "booking" => ModalInv) => TimeIsOfTheChoice
    BY <1>1 DEF TimeIsOfTheChoice
  <1> QED
    BY <1>1, <1>2, ModalAlways, PTL

\* One opening of the modal books once unless an answer was lost, and a customer without
\* an appointment was made by an attempt that failed or still runs
\* (internal-booking-modal.tsx:190-229).
THEOREM OnePerDraft ==
    /\ Modal!Spec => []Modal!OneBookingPerDraft
    /\ StaffSpec => []OneBookingPerDraft
  <1>1. ModalInv => Modal!OneBookingPerDraft
    BY ModalImplies
  <1>2. (part = "booking" => ModalInv) => OneBookingPerDraft
    BY <1>1 DEF OneBookingPerDraft
  <1> QED
    BY <1>1, <1>2, ModalAlways, PTL

\* The form, the times and the call keep their types.
LEMMA ModalTyped == StaffSpec => [](part = "booking" => Modal!TypeOK)
  <1>1. ModalInv => Modal!TypeOK
    BY ModalImplies
  <1> QED
    BY <1>1, ModalAlways, PTL

-----------------------------------------------------------------------------
(* The list of customers (ClientsPage) *)

ListQueries == Texts \X Sorts \X {1, 2}

\* A request for the list and the query it is for.
ListCall == [pc : {"idle", "sent"}, q : ListQueries \cup {None}, old : BOOLEAN]

\* A request that was not overtaken is for the filters of now.
LastAskedOK ==
    /\ loads \in [Requests -> ListCall]
    /\ \A f \in Requests :
          loads[f].pc = "sent" /\ ~loads[f].old => loads[f].q = Clientes!query

\* With none in flight the list is that of the filters.
ListedOK ==
    (\A f \in Requests : loads[f].pc = "idle") /\ "list" \notin late =>
       shown = Clientes!query

\* The last search asked, if the text was not left since, is for the text.
SearchedOK ==
    \A s \in searches : s.nr = asked /\ s.nr > left /\ ~wait => s.text = typed

\* Suggestions that no key will replace are of the text, open or not.
SuggestedOK ==
    /\ wait \in BOOLEAN /\ timer \in BOOLEAN
    /\ ~timer => applied = typed
    /\ suggested # None /\ ~wait /\ searches = {} /\ late \cap {"suggest", "left"} = {} =>
          suggested = typed

HistoryOK ==
    selected # None /\ histories = {} /\ "history" \notin late =>
       history \in {selected, None}

CustomersInv == Clientes!TypeOK /\ LastAskedOK /\ ListedOK /\ SearchedOK /\ SuggestedOK /\ HistoryOK

\* Nothing is neither a text nor a customer, and each customer has a name.
LEMMA CustomersConstants ==
    /\ None \notin Texts \cup Clients
    /\ Blank \in Texts /\ Names \in [Clients -> Texts]
  BY StaffAssumption DEF Clientes!ClientsPageAssumption

\* A step of the panel is a step of this page or none, if the page is in play.
LEMMA ClientesMoves ==
    ASSUME [StaffNext]_StaffVars, part' = "clients"
    PROVE  part = "clients" /\ [Clientes!Next]_(Clientes!vars)
  <1>1. CASE UNCHANGED StaffVars
    BY <1>1
       DEF StaffVars, Clientes!vars, Clientes!filters, Clientes!list, Clientes!suggest,
           Clientes!detail
  <1>2. CASE StaffNext
    BY <1>2 DEF StaffNext, AgendaStep, ConfigStep, CitasStep, ModalStep, ClientesStep
  <1> QED
    BY <1>1, <1>2

LEMMA CustomersInit == Clientes!Init => CustomersInv
  <1> SUFFICES ASSUME Clientes!Init
               PROVE  CustomersInv
    OBVIOUS
  <1>1. Clientes!TypeOK
    BY CustomersConstants DEF Clientes!Init, Clientes!TypeOK
  <1>5. SearchedOK /\ SuggestedOK /\ HistoryOK
    BY DEF Clientes!Init, SearchedOK, SuggestedOK, HistoryOK
  <1>2. /\ Clientes!NoLoad \in ListCall
        /\ [Clientes!NoLoad EXCEPT !.pc = "sent", !.q = <<Blank, sort, 1>>] \in ListCall
    BY CustomersConstants DEF Clientes!Init, Clientes!NoLoad, ListCall, ListQueries
  <1>3. LastAskedOK
    BY <1>2 DEF Clientes!Init, LastAskedOK, Clientes!query, Clientes!NoLoad
  <1>4. ListedOK
    BY DEF Clientes!Init, ListedOK, Clientes!NoLoad
  <1> QED
    BY <1>1, <1>3, <1>4, <1>5 DEF CustomersInv

\* Asking again when the query changed keeps what is known of the list.
LEMMA ListAsked ==
    ASSUME CustomersInv, Clientes!LoadIfNew, applied' \in Texts, sort' \in Sorts,
           page' \in {1, 2},
           late' = late
    PROVE  LastAskedOK' /\ ListedOK'
  <1> USE DEF CustomersInv
  <1>1. CASE Clientes!query' = Clientes!query
    <2>1. UNCHANGED <<shown, loads>>
      BY <1>1 DEF Clientes!LoadIfNew, Clientes!list
    <2>2. LastAskedOK'
      BY <1>1, <2>1 DEF LastAskedOK
    <2> QED
      BY <1>1, <2>1, <2>2 DEF ListedOK
  <1>2. CASE Clientes!query' # Clientes!query
    <2> DEFINE new == [Clientes!NoLoad EXCEPT !.pc = "sent", !.q = Clientes!query']
    <2>1. PICK f \in Requests :
             loads' = [g \in Requests |-> IF g = f THEN new
                         ELSE [loads[g] EXCEPT !.old = loads[g].pc # "idle"]]
      BY <1>2 DEF Clientes!LoadIfNew
    <2>2. new \in ListCall /\ new.pc = "sent" /\ new.q = Clientes!query'
      BY DEF Clientes!NoLoad, ListCall, ListQueries, Clientes!query
    <2> HIDE DEF new
    <2>3. \A g \in Requests : loads[g] \in ListCall
      BY DEF LastAskedOK
    <2>4. \A g \in Requests : [loads[g] EXCEPT !.old = loads[g].pc # "idle"] \in ListCall
      BY <2>3 DEF ListCall
    <2>5. \A g \in Requests \ {f} : loads'[g].pc = "sent" => loads'[g].old
      BY <2>1, <2>3 DEF ListCall
    <2>6. loads' \in [Requests -> ListCall] /\ loads'[f] = new
      BY <2>1, <2>2, <2>4
    <2>7. LastAskedOK'
      BY <2>2, <2>5, <2>6 DEF LastAskedOK
    <2> QED
      BY <2>2, <2>6, <2>7 DEF ListedOK
  <1> QED
    BY <1>1, <1>2

\* A new text starts both timers, or drops the suggestions.
LEMMA TextBecomes ==
    ASSUME CustomersInv, NEW t \in Texts, NEW skips, Clientes!Become(t, skips),
           late' = late,
           searches' = searches, asked' = asked, applied' = applied \/ applied' = t
    PROVE  /\ typed' \in Texts /\ suggested' \in {suggested, None}
           /\ left' \in 0..asked
           /\ SearchedOK' /\ SuggestedOK'
  <1> USE DEF CustomersInv, Clientes!Become
  <1>1. /\ typed' \in Texts /\ suggested' \in {suggested, None} /\ SuggestedOK'
    BY DEF Clientes!SuggestEffect, SuggestedOK, Clientes!TypeOK
  <1>2. asked \in Nat /\ left \in 0..asked /\ left' \in {left, asked}
    BY DEF Clientes!TypeOK
  <1>3. \A s \in searches : s.nr \in Nat
    BY <1>2 DEF Clientes!TypeOK
  <1>4. SearchedOK'
    <2>1. CASE t # typed /\ ~wait'
      BY <1>2, <1>3, <2>1 DEF SearchedOK
    <2>2. CASE t = typed
      <3>1. left' = left /\ wait' = wait /\ typed' = typed
        BY <2>2 DEF Clientes!SuggestEffect
      <3> QED
        BY <3>1 DEF SearchedOK
    <2>3. CASE wait'
      BY <2>3 DEF SearchedOK
    <2> QED
      BY <2>1, <2>2, <2>3
  <1> QED
    BY <1>1, <1>2, <1>4

LEMMA ListStep ==
    ASSUME \/ CustomersInv, NEW f \in Requests, Clientes!ListAnswered(f)
           \/ Clientes!ListFails(f)
    PROVE  CustomersInv'
  <1> USE DEF CustomersInv
  <1>1. UNCHANGED <<typed, applied, sort, page, timer, suggested, listbox, skip, wait, searches,
                    selected, history, fetching, histories, asked, left>>
    BY DEF Clientes!ListAnswered, Clientes!ListFails, Clientes!filters,
           Clientes!suggest, Clientes!detail
  <1>2. late' \cup {"list"} = late \cup {"list"}
    BY DEF Clientes!ListAnswered, Clientes!ListFails, Clientes!Late
  <1>3. Clientes!TypeOK'
    BY <1>1, <1>2 DEF Clientes!TypeOK
  <1>4. SearchedOK' /\ SuggestedOK' /\ HistoryOK'
    BY <1>1, <1>2 DEF SearchedOK, SuggestedOK, HistoryOK
  <1>5. /\ loads' = [loads EXCEPT ![f] = Clientes!NoLoad] /\ Clientes!NoLoad \in ListCall
        /\ Clientes!NoLoad.pc = "idle"
    BY DEF Clientes!ListAnswered, Clientes!ListFails, Clientes!NoLoad, ListCall
  <1>6. LastAskedOK'
    BY <1>1, <1>5 DEF LastAskedOK, Clientes!query
  <1>7. ListedOK'
    <2>1. CASE Clientes!ListFails(f)
      BY <2>1 DEF ListedOK, Clientes!ListFails
    <2>2. CASE Clientes!ListAnswered(f) /\ loads[f].old
      BY <2>2 DEF ListedOK, Clientes!ListAnswered, Clientes!Late
    <2>3. CASE Clientes!ListAnswered(f) /\ ~loads[f].old
      BY <1>1, <2>3 DEF ListedOK, Clientes!ListAnswered, LastAskedOK, Clientes!query
    <2> QED
      BY <2>1, <2>2, <2>3
  <1> QED
    BY <1>3, <1>4, <1>6, <1>7

LEMMA SuggestStep ==
    ASSUME CustomersInv,
           \/ Clientes!SearchTimer
           \/ \E s \in searches : Clientes!SearchAnswered(s) \/ Clientes!SearchFails(s)
    PROVE  CustomersInv'
  <1> USE DEF CustomersInv
  <1>1. UNCHANGED <<typed, applied, sort, page, timer, shown, loads, selected, history,
                    fetching, histories, left>>
    BY DEF Clientes!SearchTimer, Clientes!SearchAnswered, Clientes!SearchFails,
           Clientes!filters, Clientes!list, Clientes!detail
  <1>2. late' \cup {"suggest", "left"} = late \cup {"suggest", "left"}
    BY DEF Clientes!SearchTimer, Clientes!SearchAnswered, Clientes!SearchFails
  <1>3. late' \subseteq {"list", "suggest", "left", "history"}
    BY <1>2 DEF Clientes!TypeOK
  <1>4. /\ asked \in Nat /\ left \in 0..asked
        /\ \A s \in searches : s.nr \in 1..asked /\ s.text \in Texts
        /\ searches \subseteq [text : Texts, nr : 1..asked]
    BY DEF Clientes!TypeOK
  <1>5. LastAskedOK' /\ ListedOK' /\ HistoryOK'
    BY <1>1, <1>2 DEF LastAskedOK, ListedOK, HistoryOK, Clientes!query
  <1>6. CASE Clientes!SearchTimer
    <2> DEFINE new == [text |-> typed, nr |-> asked + 1]
    <2>1. /\ wait' = FALSE /\ asked' = asked + 1 /\ searches' = searches \cup {new}
          /\ UNCHANGED <<suggested, listbox, late>>
      BY <1>6 DEF Clientes!SearchTimer
    <2>2. /\ new \in [text : Texts, nr : 1..asked'] /\ new.text = typed
          /\ asked' \in Nat /\ left' \in 0..asked'
          /\ searches \subseteq [text : Texts, nr : 1..asked']
      BY <1>1, <1>4, <2>1 DEF Clientes!TypeOK
    <2> HIDE DEF new
    <2>3. Clientes!TypeOK'
      BY <1>1, <1>3, <2>1, <2>2 DEF Clientes!TypeOK
    <2>4. SearchedOK'
      BY <1>1, <1>4, <2>1, <2>2 DEF SearchedOK
    <2>5. SuggestedOK'
      BY <1>1, <2>1 DEF SuggestedOK
    <2> QED
      BY <1>5, <2>3, <2>4, <2>5
  <1>7. ASSUME NEW s \in searches, Clientes!SearchAnswered(s)
        PROVE  CustomersInv'
    <2>1. /\ searches' = searches \ {s} /\ suggested' = s.text
          /\ UNCHANGED <<wait, asked>>
          /\ late' \cap {"suggest", "left"} = {} => ~(s.nr < asked) /\ ~(s.nr <= left)
      BY <1>7 DEF Clientes!SearchAnswered
    <2>2. s.text # None /\ s.text \in Texts
      BY <1>4, CustomersConstants
    <2>3. Clientes!TypeOK'
      BY <1>1, <1>3, <1>4, <2>1, <2>2 DEF Clientes!TypeOK
    <2>4. SearchedOK'
      BY <1>1, <2>1 DEF SearchedOK
    <2>5. late' \cap {"suggest", "left"} = {} /\ ~wait => s.text = typed
      BY <1>4, <2>1 DEF SearchedOK
    <2>6. SuggestedOK'
      BY <1>1, <2>1, <2>5 DEF SuggestedOK
    <2> QED
      BY <1>5, <2>3, <2>4, <2>6
  <1>8. ASSUME NEW s \in searches, Clientes!SearchFails(s)
        PROVE  CustomersInv'
    <2>1. /\ searches' = searches \ {s} /\ suggested' = None /\ listbox' = FALSE
          /\ UNCHANGED <<wait, asked, late>>
      BY <1>8 DEF Clientes!SearchFails
    <2>2. Clientes!TypeOK'
      BY <1>1, <1>4, <2>1 DEF Clientes!TypeOK
    <2>3. SearchedOK' /\ SuggestedOK'
      BY <1>1, <2>1 DEF SearchedOK, SuggestedOK
    <2> QED
      BY <1>5, <2>2, <2>3
  <1> QED
    BY <1>6, <1>7, <1>8

LEMMA UserStep ==
    ASSUME CustomersInv,
           \/ Clientes!FilterTimer \/ Clientes!Listbox \/ Clientes!Clear
           \/ \E t \in Texts : Clientes!Type(t)
           \/ \E c \in Clients : Clientes!Pick(c)
           \/ \E s \in Sorts : Clientes!Sort(s)
           \/ \E p \in 1..2 : Clientes!GoTo(p)
    PROVE  CustomersInv'
  <1> USE DEF CustomersInv
  <1>1. UNCHANGED <<selected, history, fetching, histories, late, searches, asked>>
    BY DEF Clientes!FilterTimer, Clientes!Listbox, Clientes!Clear, Clientes!Type,
           Clientes!Pick, Clientes!Sort, Clientes!GoTo, Clientes!detail,
           Clientes!suggest
  <1>2. HistoryOK'
    BY <1>1 DEF HistoryOK
  <1>3. CASE \/ Clientes!FilterTimer
             \/ (\E s \in Sorts : Clientes!Sort(s))
             \/ \E p \in 1..2 : Clientes!GoTo(p)
    <2>1. /\ Clientes!LoadIfNew
          /\ applied' \in Texts /\ sort' \in Sorts /\ page' \in {1, 2}
          /\ UNCHANGED <<typed, suggested, listbox, wait, left>>
      BY <1>3
         DEF Clientes!FilterTimer, Clientes!Sort, Clientes!GoTo, Clientes!TypeOK,
             Clientes!suggest, Clientes!LoadIfNew
    <2>2. LastAskedOK' /\ ListedOK'
      BY <1>1, <2>1, ListAsked
    <2>3. Clientes!TypeOK'
      BY <1>1, <2>1 DEF Clientes!TypeOK
    <2>4. SearchedOK' /\ SuggestedOK'
      BY <1>1, <1>3, <2>1
         DEF SearchedOK, SuggestedOK, Clientes!FilterTimer, Clientes!Sort, Clientes!GoTo
    <2> QED
      BY <1>2, <2>2, <2>3, <2>4
  <1>4. CASE Clientes!Clear
    <2>1. /\ Clientes!LoadIfNew /\ Clientes!Become(Blank, skip)
          /\ applied' = Blank /\ sort' \in Sorts /\ page' = 1 /\ Blank \in Texts
          /\ listbox' = (listbox /\ suggested' # None)
      BY <1>4, CustomersConstants DEF Clientes!Clear
    <2>2. LastAskedOK' /\ ListedOK'
      BY <1>1, <2>1, ListAsked
    <2>3. /\ typed' \in Texts /\ suggested' \in {suggested, None} /\ left' \in 0..asked
          /\ SearchedOK' /\ SuggestedOK'
      BY <1>1, <2>1, TextBecomes
    <2>4. Clientes!TypeOK'
      BY <1>1, <2>1, <2>3 DEF Clientes!TypeOK
    <2> QED
      BY <1>2, <2>2, <2>3, <2>4
  <1>5. CASE \E t \in Texts : Clientes!Type(t)
    <2>1. PICK t \in Texts : Clientes!Type(t)
      BY <1>5
    <2>2. /\ Clientes!Become(t, skip)
          /\ listbox' = (listbox /\ suggested' # None)
          /\ UNCHANGED <<applied, sort, page, shown, loads>>
      BY <2>1 DEF Clientes!Type, Clientes!list
    <2>3. /\ typed' \in Texts /\ suggested' \in {suggested, None} /\ left' \in 0..asked
          /\ SearchedOK' /\ SuggestedOK'
      BY <1>1, <2>2, TextBecomes
    <2>4. Clientes!TypeOK'
      BY <1>1, <2>2, <2>3 DEF Clientes!TypeOK
    <2>5. LastAskedOK' /\ ListedOK'
      BY <1>1, <2>2 DEF LastAskedOK, ListedOK, Clientes!query
    <2> QED
      BY <1>2, <2>3, <2>4, <2>5
  <1>6. CASE \E c \in Clients : Clientes!Pick(c)
    <2>1. PICK c \in Clients : Clientes!Pick(c)
      BY <1>6
    <2>2. /\ Clientes!Become(Names[c], TRUE) /\ Names[c] \in Texts
          /\ listbox' = FALSE
          /\ UNCHANGED <<applied, sort, page, shown, loads>>
      BY <2>1, CustomersConstants DEF Clientes!Pick, Clientes!list
    <2>3. /\ typed' \in Texts /\ suggested' \in {suggested, None} /\ left' \in 0..asked
          /\ SearchedOK' /\ SuggestedOK'
      BY <1>1, <2>2, TextBecomes
    <2>4. Clientes!TypeOK'
      BY <1>1, <2>2, <2>3 DEF Clientes!TypeOK
    <2>5. LastAskedOK' /\ ListedOK'
      BY <1>1, <2>2 DEF LastAskedOK, ListedOK, Clientes!query
    <2> QED
      BY <1>2, <2>3, <2>4, <2>5
  <1>7. CASE Clientes!Listbox
    <2>1. /\ UNCHANGED <<typed, applied, sort, page, timer, shown, loads, suggested, wait, left>>
          /\ listbox' => suggested # None
      BY <1>7 DEF Clientes!Listbox, Clientes!filters, Clientes!list
    <2>2. Clientes!TypeOK'
      BY <1>1, <2>1 DEF Clientes!TypeOK
    <2>3. SearchedOK' /\ SuggestedOK'
      BY <1>1, <2>1 DEF SearchedOK, SuggestedOK
    <2>4. LastAskedOK' /\ ListedOK'
      BY <1>1, <2>1 DEF LastAskedOK, ListedOK, Clientes!query
    <2> QED
      BY <1>2, <2>2, <2>3, <2>4
  <1> QED
    BY <1>3, <1>4, <1>5, <1>6, <1>7

LEMMA DetailStep ==
    ASSUME CustomersInv,
           \/ Clientes!Close
           \/ \E c \in Clients :
                 \/ Clientes!HistoryAnswered(c)
                 \/ Clientes!HistoryFails(c)
                 \/ Clientes!Select(c)
    PROVE  CustomersInv'
  <1> USE DEF CustomersInv
  <1>1. UNCHANGED <<typed, applied, sort, page, timer, shown, loads, suggested, listbox, wait,
                    searches, asked, left>>
    BY DEF Clientes!Close, Clientes!HistoryAnswered, Clientes!HistoryFails,
           Clientes!Select, Clientes!filters, Clientes!list, Clientes!suggest
  <1>2. late' \cup {"history"} = late \cup {"history"}
    BY DEF Clientes!Close, Clientes!HistoryAnswered, Clientes!HistoryFails,
           Clientes!Select, Clientes!Late
  <1>6. late' \subseteq {"list", "suggest", "left", "history"}
    BY <1>2 DEF Clientes!TypeOK
  <1>3. Clientes!TypeOK'
    BY <1>1, <1>6
       DEF Clientes!TypeOK, Clientes!Close, Clientes!HistoryAnswered,
           Clientes!HistoryFails, Clientes!Select
  <1>4. LastAskedOK' /\ ListedOK' /\ SearchedOK' /\ SuggestedOK'
    BY <1>1, <1>2 DEF LastAskedOK, ListedOK, SearchedOK, SuggestedOK, Clientes!query
  <1>5. HistoryOK'
    BY DEF HistoryOK, Clientes!Close, Clientes!HistoryAnswered, Clientes!HistoryFails,
           Clientes!Select, Clientes!Late
  <1> QED
    BY <1>3, <1>4, <1>5

LEMMA CustomersNext == CustomersInv /\ [Clientes!Next]_(Clientes!vars) => CustomersInv'
  <1> SUFFICES ASSUME CustomersInv, [Clientes!Next]_(Clientes!vars)
               PROVE  CustomersInv'
    OBVIOUS
  <1>1. CASE UNCHANGED Clientes!vars
    <2>1. UNCHANGED <<typed, applied, sort, page, timer, shown, loads, suggested, listbox, wait,
                      searches, selected, history, fetching, histories, asked, left, late>>
      BY <1>1
         DEF Clientes!vars, Clientes!filters, Clientes!list, Clientes!suggest,
             Clientes!detail
    <2> QED
      BY <2>1
         DEF CustomersInv, Clientes!TypeOK, LastAskedOK, ListedOK, SearchedOK,
             SuggestedOK, HistoryOK, Clientes!query
  <1>2. CASE Clientes!Next
    BY <1>2, ListStep, SuggestStep, UserStep, DetailStep DEF Clientes!Next
  <1> QED
    BY <1>1, <1>2

LEMMA CustomersImply == CustomersInv => Clientes!ShowsWhatWasAsked
  BY DEF CustomersInv, Clientes!TypeOK, LastAskedOK, ListedOK, SuggestedOK, HistoryOK,
         Clientes!ShowsWhatWasAsked

\* The invariant, of the page and of its part in the panel.
LEMMA CustomersAlways ==
    /\ Clientes!Spec => []CustomersInv
    /\ StaffSpec => [](part = "clients" => CustomersInv)
  <1> DEFINE Inv == part = "clients" => CustomersInv
  <1>1. Clientes!Spec => []CustomersInv
    BY CustomersInit, CustomersNext, PTL DEF Clientes!Spec
  <1>2. StaffInit => Inv
    BY CustomersInit DEF StaffInit
  <1>3. Inv /\ [StaffNext]_StaffVars => Inv'
    BY CustomersNext, ClientesMoves
  <1>4. StaffSpec => []Inv
    BY <1>2, <1>3, PTL DEF StaffSpec
  <1> QED
    BY <1>1, <1>4

\* The list, the suggestions and the history on the screen are those of what is asked
\* now, unless an answer was overtaken or did not come, or the text was picked or emptied
\* while its suggestions were on their way (clientes-page.tsx:57-125,
\* client-suggest-input.tsx:50-101).
THEOREM ShownIsAsked ==
    /\ Clientes!Spec => []Clientes!ShowsWhatWasAsked
    /\ StaffSpec => []ShowsWhatWasAsked
  <1>1. CustomersInv => Clientes!ShowsWhatWasAsked
    BY CustomersImply
  <1>2. (part = "clients" => CustomersInv) => ShowsWhatWasAsked
    BY <1>1 DEF ShowsWhatWasAsked
  <1> QED
    BY <1>1, <1>2, CustomersAlways, PTL

\* The filters, the lists and the history keep their types.
LEMMA ClientesTyped == StaffSpec => [](part = "clients" => Clientes!TypeOK)
  <1>1. CustomersInv => Clientes!TypeOK
    BY DEF CustomersInv
  <1> QED
    BY <1>1, CustomersAlways, PTL

-----------------------------------------------------------------------------
(* Every page *)

\* Whatever page of the panel is open, its form, its requests and what it shows keep
\* their types.
THEOREM EveryScreenIsTyped == StaffSpec => []TypesOK
  BY AgendaTyped, ConfigTyped, CitasTyped, ModalTyped, ClientesTyped, PTL DEF TypesOK

=============================================================================
