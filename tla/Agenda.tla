------------------------------- MODULE Agenda -------------------------------
(***************************************************************************)
(* What the booking core promises, with every request as one atomic step:  *)
(* an agenda in which no professional ever has more occupying appointments *)
(* at one instant than the capacity, only live appointments are moved, and *)
(* only operations of the service change it.  Booking implements it while  *)
(* requests are served one at a time (BookingAlone); it says nothing of    *)
(* how the check is made (row locks, windows, counting).                   *)
(***************************************************************************)
EXTENDS Integers, FiniteSets

CONSTANTS Ids, Pros, Capacity

VARIABLE agenda     \* [Ids -> [status, pro, starts, ends]]

Live == {"pending", "confirmed", "attended"}

Settled == {"cancelled", "no_show"}

Absent(i) == agenda[i].status = "free"

At(table, p, t) ==
    {i \in Ids : /\ table[i].status \in Live
                 /\ table[i].pro = p
                 /\ table[i].starts <= t /\ t < table[i].ends}

\* Putting row at id i leaves a seat for it at every instant it covers.
Fits(i, row) ==
    LET table == [agenda EXCEPT ![i] = row]
    IN  row.status \in Live =>
            \A t \in row.starts .. row.ends - 1 :
                Cardinality(At(table, row.pro, t)) <= Capacity

Put(i, row) ==
    /\ Fits(i, row)
    /\ agenda' = [agenda EXCEPT ![i] = row]

Book(i, row) ==
    /\ Absent(i)
    /\ row.status \in Live \cup Settled
    /\ row.starts < row.ends
    /\ Put(i, row)

Move(i, row) ==
    /\ agenda[i].status \notin {"free", "cancelled"}
    /\ row.status = agenda[i].status /\ row.pro = agenda[i].pro
    /\ row.starts < row.ends
    /\ Put(i, row)

\* An appointment that keeps its seat needs no room, one that takes it back does.
SetStatus(i, status) ==
    LET row == [agenda[i] EXCEPT !.status = status]
    IN  /\ ~Absent(i)
        /\ status \in Live \cup Settled
        /\ \/ /\ agenda[i].status \in Live
              /\ agenda' = [agenda EXCEPT ![i] = row]
           \/ Put(i, row)

Init == \A i \in Ids : Absent(i)

\* The row an operation writes is the one the table then holds.
Next ==
    \E i \in Ids :
        \/ Book(i, agenda'[i])
        \/ Move(i, agenda'[i])
        \/ SetStatus(i, agenda'[i].status)

Spec == Init /\ [][Next]_agenda

=============================================================================
